------------------------ MODULE ClassSession_proofs ------------------------
(***************************************************************************)
(* Proofs about ClassSession.                                              *)
(***************************************************************************)
EXTENDS ClassSession, TLAPS

----------------------------------------------------------------------------
(* Types.                                                                  *)

PcSet == {"new", "read", "committed", "sending", "done", "missing", "refused", "ignited"}

(* A request that advances is a request.                                     *)
LEMMA AdvanceType ==
  ASSUME job \in [Jobs -> Job], NEW j \in Jobs, NEW a, NEW b \in PcSet, Advance(j, a, b)
  PROVE  job' \in [Jobs -> Job]
<1>1. [job[j] EXCEPT !.pc = b] \in Job
  BY DEF Job, PcSet
<1>2. job' = [job EXCEPT ![j] = [job[j] EXCEPT !.pc = b]]
  BY DEF Advance
<1> QED
  BY <1>1, <1>2

(* The empty plan is a plan.                                                 *)
LEMMA NoPlanType == NoPlan \in Plan
  BY DEF NoPlan, Plan, Marks

(* The plan of a submission that begins is a plan.                           *)
LEMMA SubmitType ==
  ASSUME TypeOK, NEW p \in Submits, NEW mark \in [Students -> Marks], Submit(p, mark)
  PROVE  plan' \in [Submits -> Plan]
<1>1. [NoPlan EXCEPT !.mark = mark, !.base = last] \in Plan
  BY DEF NoPlan, Plan, Marks, TypeOK
<1> QED
  BY <1>1 DEF Submit, TypeOK

(* What a submission has seen is a plan.                                     *)
LEMMA SeenType ==
  ASSUME TypeOK, NEW p \in Submits, NEW s \in Students, NEW q \in Found(s)
  PROVE  Seen(p, s, q) \in Plan
<1>1. q \in Submits \cup {Nil}
  BY DEF Found, RowsOf
<1> DEFINE m == IF q = Nil THEN "none" ELSE rows[q][s]
<1>2. m \in Marks
  BY <1>1 DEF TypeOK, Marks
<1> HIDE DEF m
<1>3. plan[p] \in Plan
  BY DEF TypeOK
<1> DEFINE r == [plan[p].row EXCEPT ![s] = q]
           f == [plan[p].found EXCEPT ![s] = m]
           d == plan[p].read \cup {s}
<1>4. r \in [Students -> Submits \cup {Nil}]
  BY <1>1, <1>3 DEF Plan
<1>5. f \in [Students -> Marks]
  BY <1>2, <1>3 DEF Plan
<1>6. d \in SUBSET Students
  BY <1>3 DEF Plan
<1>7. Seen(p, s, q) = [plan[p] EXCEPT !.read = d, !.row = r, !.found = f]
  BY DEF Seen, m
<1> HIDE DEF r, f, d
<1> QED
  BY <1>3, <1>4, <1>5, <1>6, <1>7 DEF Plan

(* A commit writes marks.                                                    *)
LEMMA CommitType ==
  ASSUME TypeOK, NEW p \in Submits, SubmitCommit(p)
  PROVE  /\ rows' \in [Submits -> [Students -> Marks]] /\ sheet' \in [Students -> Marks]
         /\ plan' \in [Submits -> Plan] /\ overlapped' \in BOOLEAN
<1>1. plan[p] \in Plan /\ plan[p].mark \in [Students -> Marks]
  BY DEF TypeOK, Plan
<1>2. \A q \in Submits, s \in Students : MarkAfter(p, q, s) \in Marks
  BY <1>1 DEF MarkAfter, TypeOK
<1>3. rows' \in [Submits -> [Students -> Marks]]
  BY <1>2 DEF SubmitCommit
<1>4. sheet' \in [Students -> Marks]
  BY <1>1 DEF SubmitCommit, TypeOK
<1>5. plan' \in [Submits -> Plan]
  BY NoPlanType DEF SubmitCommit, TypeOK
<1> QED
  BY <1>3, <1>4, <1>5 DEF SubmitCommit, TypeOK

(* The initial state has its type.                                           *)
LEMMA InitType == Init => TypeOK
<1> SUFFICES ASSUME Init PROVE TypeOK
  OBVIOUS
<1>1. plan \in [Submits -> Plan]
  BY NoPlanType DEF Init
<1>2. job \in [Jobs -> Job]
  BY DEF Init, Job
<1>3. rows \in [Submits -> [Students -> Marks]] /\ sheet \in [Students -> Marks]
  BY DEF Init, Marks
<1>4. sock \in [Sockets -> Socket]
  BY DEF Init, Socket
<1> QED
  BY <1>1, <1>2, <1>3, <1>4 DEF Init, TypeOK

(* Every step keeps the type.                                                *)
LEMMA StepType == TypeOK /\ [Next]_vars => TypeOK'
<1> SUFFICES ASSUME TypeOK, [Next]_vars PROVE TypeOK'
  OBVIOUS
<1> USE DEF attendance, boards
<1>1. ASSUME NEW c \in Creates, CreateCache(c) \/ CreateCommit(c) PROVE TypeOK'
  <2>1. job' \in [Jobs -> Job]
    BY <1>1, AdvanceType DEF CreateCache, CreateCommit, Jobs, PcSet, TypeOK
  <2> QED
    BY <1>1, <2>1 DEF CreateCache, CreateCommit, Insert, TypeOK
<1>2. ASSUME NEW f \in Preflights, PreflightRead(f) \/ PreflightCommit(f) PROVE TypeOK'
  <2>1. job' \in [Jobs -> Job]
    BY <1>2, AdvanceType DEF PreflightRead, PreflightCommit, Jobs, PcSet, TypeOK
  <2> QED
    BY <1>2, <2>1 DEF PreflightRead, PreflightCommit, Insert, TypeOK
<1>3. ASSUME NEW i \in Initiates, Ignite(i) PROVE TypeOK'
  <2>1. job' \in [Jobs -> Job]
    BY <1>3, AdvanceType DEF Ignite, Jobs, PcSet, TypeOK
  <2> QED
    BY <1>3, <2>1 DEF Ignite, Ignited, TypeOK
<1>4. ASSUME NEW i \in Initiates, NEW c \in Creates, FindByOtp(i, c) PROVE TypeOK'
  <2>1. job' \in [Jobs -> Job]
    BY <1>4, AdvanceType DEF FindByOtp, Jobs, PcSet, TypeOK
  <2> QED
    BY <1>4, <2>1 DEF FindByOtp, TypeOK
<1>5. ASSUME NEW t \in Terminates, TerminateRead(t) \/ TerminateCommit(t) PROVE TypeOK'
  <2>1. job' \in [Jobs -> Job]
    BY <1>5, AdvanceType DEF TerminateRead, TerminateCommit, Jobs, PcSet, TypeOK
  <2> QED
    BY <1>5, <2>1 DEF TerminateRead, TerminateCommit, EndStatus, TypeOK
<1>6. ASSUME NEW p \in Submits, NEW mark \in [Students -> Marks], Submit(p, mark) PROVE TypeOK'
  <2>1. job' \in [Jobs -> Job]
    BY <1>6, AdvanceType DEF Submit, Jobs, PcSet, TypeOK
  <2>2. plan' \in [Submits -> Plan]
    BY <1>6, SubmitType
  <2> QED
    BY <1>6, <2>1, <2>2 DEF Submit, TypeOK
<1>7. ASSUME NEW p \in Submits, NEW s \in Students, Lookup(p, s) PROVE TypeOK'
  <2>1. plan' \in [Submits -> Plan]
    BY <1>7, SeenType DEF Lookup, TypeOK
  <2> QED
    BY <1>7, <2>1 DEF Lookup, TypeOK
<1>8. ASSUME NEW p \in Submits, NEW w \in Sockets, Deliver(p, w) PROVE TypeOK'
  <2>1. p \in Jobs
    BY DEF Jobs
  <2>2. [job[p] EXCEPT !.to = @ \ {w}] \in Job
    BY <2>1 DEF TypeOK, Job
  <2>3. job' \in [Jobs -> Job]
    BY <1>8, <2>1, <2>2 DEF Deliver, TypeOK
  <2>4. [sock[w] EXCEPT !.heard = @ \cup {p}] \in Socket
    BY DEF TypeOK, Socket
  <2>5. sock' \in [Sockets -> Socket]
    BY <1>8, <2>4 DEF Deliver, TypeOK
  <2>6. members' \subseteq Sockets
    BY <1>8 DEF Deliver, TypeOK
  <2> QED
    BY <1>8, <2>3, <2>5, <2>6 DEF Deliver, TypeOK
<1>9. ASSUME NEW p \in Submits, SubmitCommit(p) PROVE TypeOK'
  <2>1. job' \in [Jobs -> Job]
    BY <1>9, AdvanceType DEF SubmitCommit, Jobs, PcSet, TypeOK
  <2> QED
    BY <1>9, <2>1, CommitType DEF SubmitCommit, TypeOK
<1>10. ASSUME NEW p \in Submits, SubmitFails(p) PROVE TypeOK'
  <2>1. job' \in [Jobs -> Job]
    BY <1>10, AdvanceType DEF SubmitFails, Jobs, PcSet, TypeOK
  <2> QED
    BY <1>10, <2>1, NoPlanType DEF SubmitFails, TypeOK
<1>11. ASSUME NEW p \in Submits, Broadcast(p) PROVE TypeOK'
  <2>1. job' \in [Jobs -> Job]
    BY <1>11 DEF Broadcast, Jobs, Job, TypeOK
  <2> QED
    BY <1>11, <2>1 DEF Broadcast, TypeOK
<1>12. ASSUME NEW p \in Submits, Delivered(p) PROVE TypeOK'
  <2>1. job' \in [Jobs -> Job]
    BY <1>12, AdvanceType DEF Delivered, Jobs, PcSet, TypeOK
  <2> QED
    BY <1>12, <2>1 DEF Delivered, TypeOK
<1>13. ASSUME NEW w \in Sockets, Accept(w) PROVE TypeOK'
  BY <1>13 DEF Accept, TypeOK, Socket
<1>14. ASSUME NEW w \in Sockets, ReadState(w) PROVE TypeOK'
  <2> DEFINE h == IF sock[w].alive THEN sock[w].heard \cup Committed ELSE {}
  <2>1. h \in SUBSET Submits
    BY DEF TypeOK, Socket, Committed
  <2> HIDE DEF h
  <2>2. [sock[w] EXCEPT !.pc = "open", !.heard = h] \in Socket
    BY <2>1 DEF TypeOK, Socket
  <2>3. sock' = [sock EXCEPT ![w] = [sock[w] EXCEPT !.pc = "open", !.heard = h]]
    BY <1>14 DEF ReadState, h
  <2>4. sock' \in [Sockets -> Socket]
    BY <2>2, <2>3 DEF TypeOK
  <2> QED
    BY <1>14, <2>4 DEF ReadState, TypeOK
<1>15. ASSUME NEW w \in Sockets, Die(w) PROVE TypeOK'
  <2>1. [sock[w] EXCEPT !.alive = FALSE, !.heard = {}] \in Socket
    BY DEF TypeOK, Socket
  <2>2. sock' \in [Sockets -> Socket]
    BY <1>15, <2>1 DEF Die, TypeOK
  <2> QED
    BY <1>15, <2>2 DEF Die, TypeOK
<1>16. ASSUME NEW w \in Sockets, End(w) PROVE TypeOK'
  BY <1>16 DEF End, MembersAfter, TypeOK, Socket
<1>17. CASE UNCHANGED vars
  BY <1>17 DEF vars, TypeOK
<1> QED
  BY <1>1, <1>2, <1>3, <1>4, <1>5, <1>6, <1>7, <1>8, <1>9, <1>10, <1>11, <1>12, <1>13,
     <1>14, <1>15, <1>16, <1>17 DEF Next

(* Every reachable state has its type.                                       *)
THEOREM TypeCorrect == Spec => []TypeOK
  BY InitType, StepType, PTL DEF Spec

----------------------------------------------------------------------------
(* The boards.                                                             *)

\* Every connected board is registered, and a submission under way will reach it.
Reaching ==
    /\ \A w \in Sockets : sock[w].pc \in {"accepted", "open"} /\ sock[w].alive => w \in members
    /\ \A w \in Sockets, p \in Submits :
         sock[w].pc = "open" /\ sock[w].alive =>
           /\ job[p].pc = "sending" => p \in sock[w].heard \/ w \in job[p].to
           /\ job[p].pc = "done" => p \in sock[w].heard

(* A step that leaves the submissions and the boards alone keeps Reaching.   *)
LEMMA ReachingFrame ==
  ASSUME Reaching, UNCHANGED boards,
         \A p \in Submits : job'[p] = job[p] \/ job'[p].pc \in {"read", "missing", "committed"}
  PROVE  Reaching'
  BY DEF Reaching, boards

(* Every step keeps Reaching.                                                *)
LEMMA ReachingStep == TypeOK /\ Reaching /\ [Next]_vars => Reaching'
<1> SUFFICES ASSUME TypeOK, Reaching, [Next]_vars PROVE Reaching'
  OBVIOUS
<1> USE DEF boards
<1>0. job \in [Jobs -> Job] /\ Submits \subseteq Jobs
  BY DEF TypeOK, Jobs
<1>1. ASSUME NEW j \in Terminates \cup Creates \cup Preflights \cup Initiates, NEW a, NEW b,
             Advance(j, a, b), UNCHANGED boards
      PROVE  Reaching'
  <2>1. \A p \in Submits : job'[p] = job[p]
    BY <1>0, <1>1, SessionAssumption DEF Advance
  <2> QED
    BY <1>1, <2>1, ReachingFrame
<1>2. ASSUME NEW p \in Submits, NEW a, NEW b \in {"read", "missing", "committed"},
             Advance(p, a, b), UNCHANGED boards
      PROVE  Reaching'
  <2>1. \A x \in Submits : job'[x] = job[x] \/ job'[x].pc \in {"read", "missing", "committed"}
    BY <1>0, <1>2 DEF Advance, Job
  <2> QED
    BY <1>2, <2>1, ReachingFrame
<1>3. ASSUME NEW p \in Submits, NEW s \in Students, Lookup(p, s) PROVE Reaching'
  BY <1>3, ReachingFrame DEF Lookup
<1>4. ASSUME NEW p \in Submits, NEW w \in Sockets, Deliver(p, w) PROVE Reaching'
  <2>1. /\ job'[p].pc = job[p].pc /\ job'[p].to = job[p].to \ {w}
        /\ \A x \in Submits \ {p} : job'[x] = job[x]
    BY <1>0, <1>4 DEF Deliver, Job
  <2>2. /\ \A v \in Sockets : sock'[v].pc = sock[v].pc /\ sock'[v].alive = sock[v].alive
        /\ \A v \in Sockets : sock[v].heard \subseteq sock'[v].heard
        /\ sock[w].alive => p \in sock'[w].heard
    <3>1. CASE ~sock[w].alive
      BY <1>4, <3>1 DEF Deliver
    <3>2. CASE sock[w].alive
      <4>1. sock' = [sock EXCEPT ![w] = [sock[w] EXCEPT !.heard = sock[w].heard \cup {p}]]
        BY <1>4, <3>2 DEF Deliver
      <4>2. sock \in [Sockets -> Socket]
        BY DEF TypeOK
      <4> QED
        BY <4>1, <4>2 DEF Socket
    <3> QED
      BY <3>1, <3>2
  <2>3. \A v \in Sockets : sock[v].alive /\ v \in members => v \in members'
    BY <1>4 DEF Deliver
  <2> QED
    BY <2>1, <2>2, <2>3 DEF Reaching
<1>5. ASSUME NEW p \in Submits, Broadcast(p) PROVE Reaching'
  <2>1. /\ job'[p].pc = "sending" /\ job'[p].to = members
        /\ \A x \in Submits \ {p} : job'[x] = job[x]
    BY <1>0, <1>5 DEF Broadcast
  <2> QED
    BY <1>5, <2>1 DEF Broadcast, Reaching
<1>6. ASSUME NEW p \in Submits, Delivered(p) PROVE Reaching'
  <2>1. /\ job[p].pc = "sending" /\ job[p].to = {} /\ job'[p].pc = "done"
        /\ \A x \in Submits \ {p} : job'[x] = job[x]
    BY <1>0, <1>6 DEF Delivered, Advance, Job
  <2> QED
    BY <1>6, <2>1 DEF Delivered, Reaching
<1>7. ASSUME NEW w \in Sockets, Accept(w) PROVE Reaching'
  BY <1>7 DEF Accept, Reaching, TypeOK, Socket
<1>8. ASSUME NEW w \in Sockets, ReadState(w) PROVE Reaching'
  <2>1. /\ sock[w].pc = "accepted" /\ sock'[w].alive = sock[w].alive
        /\ sock[w].alive => Committed \subseteq sock'[w].heard
        /\ \A v \in Sockets \ {w} : sock'[v] = sock[v]
    BY <1>8 DEF ReadState, TypeOK, Socket
  <2>2. UNCHANGED <<job, members>>
    BY <1>8 DEF ReadState
  <2> QED
    BY <2>1, <2>2 DEF Reaching, Committed
<1>9. ASSUME NEW w \in Sockets, Die(w) PROVE Reaching'
  <2>1. ~sock'[w].alive /\ \A v \in Sockets \ {w} : sock'[v] = sock[v]
    BY <1>9 DEF Die, TypeOK, Socket
  <2> QED
    BY <1>9, <2>1 DEF Die, Reaching
<1>10. ASSUME NEW w \in Sockets, End(w) PROVE Reaching'
  <2>1. ~sock'[w].alive /\ \A v \in Sockets \ {w} : sock'[v] = sock[v]
    BY <1>10 DEF End, TypeOK, Socket
  <2> QED
    BY <1>10, <2>1 DEF End, MembersAfter, Reaching
<1>11. CASE UNCHANGED vars
  BY <1>11, ReachingFrame DEF vars
<1>12. ASSUME NEW c \in Creates, CreateCache(c) \/ CreateCommit(c) PROVE Reaching'
  BY <1>1, <1>12 DEF CreateCache, CreateCommit
<1>13. ASSUME NEW f \in Preflights, PreflightRead(f) \/ PreflightCommit(f) PROVE Reaching'
  BY <1>1, <1>13 DEF PreflightRead, PreflightCommit
<1>14. ASSUME NEW i \in Initiates, Ignite(i) PROVE Reaching'
  BY <1>1, <1>14 DEF Ignite
<1>15. ASSUME NEW i \in Initiates, NEW c \in Creates, FindByOtp(i, c) PROVE Reaching'
  BY <1>1, <1>15 DEF FindByOtp
<1>16. ASSUME NEW t \in Terminates, TerminateRead(t) \/ TerminateCommit(t) PROVE Reaching'
  BY <1>1, <1>16 DEF TerminateRead, TerminateCommit
<1>17. ASSUME NEW p \in Submits, NEW mark \in [Students -> Marks], Submit(p, mark) PROVE Reaching'
  BY <1>2, <1>17 DEF Submit
<1>18. ASSUME NEW p \in Submits, SubmitCommit(p) \/ SubmitFails(p) PROVE Reaching'
  BY <1>2, <1>18 DEF SubmitCommit, SubmitFails
<1> QED
  BY <1>3, <1>4, <1>5, <1>6, <1>7, <1>8, <1>9, <1>10, <1>11, <1>12, <1>13, <1>14, <1>15, <1>16,
     <1>17, <1>18 DEF Next

(* A connected and synchronised board misses no submission.                  *)
THEOREM NothingIsMissed == Spec => []NoMissedSubmission
<1>1. Init => Reaching
  BY DEF Init, Reaching, Jobs
<1>2. Reaching => NoMissedSubmission
  BY DEF Reaching, NoMissedSubmission
<1> QED
  BY <1>1, <1>2, TypeCorrect, ReachingStep, PTL DEF Spec

----------------------------------------------------------------------------
(* Attendance.                                                             *)

\* The rows of s are what the sheet says.
Kept(s) ==
    IF sheet[s] = "none" THEN RowsOf(s) = {}
    ELSE \E q \in Submits : RowsOf(s) = {q} /\ rows[q][s] = sheet[s]

\* What p has seen of s is still so.
Fresh(p, s) ==
    IF plan[p].row[s] = Nil THEN RowsOf(s) = {}
    ELSE plan[p].row[s] \in RowsOf(s) /\ plan[p].found[s] = rows[plan[p].row[s]][s]

\* Submissions that committed, and those that have not written anything.
Written == {p \in Submits : job[p].pc \in {"committed", "sending", "done"}}

Sequential ==
    /\ last \in Written \cup {Nil}
    /\ \A p \in Submits : plan[p].base \in Written \cup {Nil}
    /\ \A p \in Submits : \A s \in Students : plan[p].row[s] \in Written \cup {Nil}
    /\ \A p \in Submits \ Written : \A s \in Students : rows[p][s] = "none"
    /\ ~overlapped => \A s \in Students : Kept(s)
    /\ ~overlapped => \A p \in Submits : job[p].pc = "read" /\ plan[p].base = last =>
         \A s \in plan[p].read : Fresh(p, s)

(* A step that leaves the attendance alone keeps what it has written.        *)
LEMMA SequentialFrame ==
  ASSUME Sequential, UNCHANGED attendance,
         \A p \in Submits : \/ job'[p].pc = job[p].pc
                            \/ job[p].pc = "committed" /\ job'[p].pc = "sending"
                            \/ job[p].pc = "sending" /\ job'[p].pc = "done"
  PROVE  Sequential'
<1>1. Written' = Written
  BY DEF Written
<1>2. \A p \in Submits : job'[p].pc = "read" => job[p].pc = "read"
  OBVIOUS
<1> QED
  BY <1>1, <1>2 DEF Sequential, attendance, Kept, Fresh, RowsOf

(* What a commit that saw the last one writes.                               *)
LEMMA CommitKeeps ==
  ASSUME TypeOK, Sequential, NEW p \in Submits, SubmitCommit(p), ~overlapped',
         NEW s \in Students
  PROVE  Kept(s)'
<1>1. /\ ~overlapped /\ plan[p].base = last /\ job[p].pc = "read"
      /\ plan[p].read = Listed(p) /\ Kept(s)
      /\ rows' = [q \in Submits |-> [x \in Students |-> MarkAfter(p, q, x)]]
      /\ sheet' = [x \in Students |-> IF x \in Listed(p) THEN plan[p].mark[x] ELSE sheet[x]]
  BY DEF SubmitCommit, Advance, Sequential
<1>2. \A q \in Submits : rows'[q][s] = MarkAfter(p, q, s)
  BY <1>1
<1>3. CASE s \notin Listed(p)
  <2>1. \A q \in Submits : rows'[q][s] = rows[q][s]
    BY <1>2, <1>3 DEF MarkAfter
  <2>2. RowsOf(s)' = RowsOf(s) /\ sheet'[s] = sheet[s]
    BY <1>1, <1>3, <2>1 DEF RowsOf
  <2> QED
    BY <1>1, <2>1, <2>2 DEF Kept
<1>4. CASE s \in Listed(p)
  <2>1. sheet'[s] = plan[p].mark[s] /\ plan[p].mark[s] # "none"
    BY <1>1, <1>4 DEF Listed
  <2>2. Fresh(p, s)
    BY <1>1, <1>4 DEF Sequential
  <2>3. CASE plan[p].row[s] = Nil
    <3>1. RowsOf(s) = {}
      BY <2>2, <2>3 DEF Fresh
    <3>2. \A q \in Submits : rows'[q][s] = IF q = p THEN plan[p].mark[s] ELSE "none"
      BY <1>2, <1>4, <2>3, <3>1 DEF MarkAfter, RowsOf
    <3>3. RowsOf(s)' = {p}
      BY <2>1, <3>2 DEF RowsOf
    <3> QED
      BY <2>1, <3>2, <3>3 DEF Kept
  <2>4. CASE plan[p].row[s] # Nil
    <3> DEFINE r == plan[p].row[s]
    <3>1. r \in RowsOf(s) /\ plan[p].found[s] = rows[r][s] /\ r \in Submits
      BY <2>2, <2>4 DEF Fresh, RowsOf
    <3>2. RowsOf(s) = {r}
      BY <1>1, <3>1 DEF Kept
    <3>3. \A q \in Submits : rows'[q][s] = IF q = r THEN plan[p].mark[s] ELSE rows[q][s]
      BY <1>2, <1>4, <2>4, <3>1 DEF MarkAfter
    <3>4. RowsOf(s)' = {r}
      BY <2>1, <3>1, <3>2, <3>3 DEF RowsOf
    <3> QED
      BY <2>1, <3>1, <3>3, <3>4 DEF Kept
  <2> QED
    BY <2>3, <2>4
<1> QED
  BY <1>3, <1>4

(* Every step keeps Sequential.                                              *)
LEMMA SequentialStep == TypeOK /\ Sequential /\ [Next]_vars => Sequential'
<1> SUFFICES ASSUME TypeOK, Sequential, [Next]_vars PROVE Sequential'
  OBVIOUS
<1>0. /\ job \in [Jobs -> Job] /\ Submits \subseteq Jobs
      /\ plan \in [Submits -> Plan] /\ Nil \notin Submits
  BY SessionAssumption DEF TypeOK, Jobs
<1>1. ASSUME NEW j \in Terminates \cup Creates \cup Preflights \cup Initiates, NEW a, NEW b,
             Advance(j, a, b), UNCHANGED attendance
      PROVE  Sequential'
  <2>1. \A p \in Submits : job'[p] = job[p]
    BY <1>0, <1>1, SessionAssumption DEF Advance
  <2> QED
    BY <1>1, <2>1, SequentialFrame
<1>2. ASSUME UNCHANGED <<job, attendance>> PROVE Sequential'
  BY <1>2, SequentialFrame
<1>3. ASSUME NEW p \in Submits, NEW mark \in [Students -> Marks], Submit(p, mark)
      PROVE  Sequential'
  <2>1. /\ plan'[p].base = last /\ plan'[p].read = {}
        /\ \A s \in Students : plan'[p].row[s] = Nil
        /\ \A x \in Submits \ {p} : plan'[x] = plan[x]
    BY <1>0, <1>3 DEF Submit, NoPlan
  <2>2. /\ job[p].pc = "new" /\ job'[p].pc = "read"
        /\ \A x \in Submits \ {p} : job'[x] = job[x]
    BY <1>0, <1>3 DEF Submit, Advance, Job
  <2>3. Written' = Written
    BY <2>2 DEF Written
  <2>4. UNCHANGED <<rows, sheet, last, overlapped>>
    BY <1>3 DEF Submit
  <2>5. \A s \in Students : Kept(s)' <=> Kept(s)
    BY <2>4 DEF Kept, RowsOf
  <2>6. \A x \in Submits \ {p} : \A s : Fresh(x, s)' <=> Fresh(x, s)
    BY <2>1, <2>4 DEF Fresh, RowsOf
  <2> QED
    BY <2>1, <2>2, <2>3, <2>4, <2>5, <2>6 DEF Sequential
<1>4. ASSUME NEW p \in Submits, NEW s \in Students, Lookup(p, s) PROVE Sequential'
  <2>1. PICK q \in Found(s) : plan' = [plan EXCEPT ![p] = Seen(p, s, q)]
    BY <1>4 DEF Lookup
  <2>2. plan[p] \in Plan
    BY <1>0
  <2>3. /\ plan'[p].base = plan[p].base /\ plan'[p].read = plan[p].read \cup {s}
        /\ plan'[p].row = [plan[p].row EXCEPT ![s] = q]
        /\ plan'[p].found = [plan[p].found EXCEPT ![s] = IF q = Nil THEN "none" ELSE rows[q][s]]
        /\ \A x \in Submits \ {p} : plan'[x] = plan[x]
    BY <1>0, <2>1, <2>2 DEF Seen, Plan
  <2>4. UNCHANGED <<job, rows, sheet, last, overlapped>>
    BY <1>4 DEF Lookup
  <2>5. Written' = Written
    BY <2>4 DEF Written
  <2>6. \A x \in Students : Kept(x)' <=> Kept(x)
    BY <2>4 DEF Kept, RowsOf
  <2>7. \A x \in Submits \ {p} : \A y : Fresh(x, y)' <=> Fresh(x, y)
    BY <2>3, <2>4 DEF Fresh, RowsOf
  <2>8. plan'[p].row[s] = q /\ plan'[p].found[s] = (IF q = Nil THEN "none" ELSE rows[q][s])
    BY <2>2, <2>3 DEF Plan
  <2>9. Fresh(p, s)'
    <3>1. CASE q = Nil
      <4>1. RowsOf(s) = {}
        BY <1>0, <3>1 DEF Found, RowsOf
      <4> QED
        BY <2>4, <2>8, <3>1, <4>1 DEF Fresh, RowsOf
    <3>2. CASE q # Nil
      <4>1. q \in RowsOf(s)
        BY <3>2 DEF Found
      <4> QED
        BY <2>4, <2>8, <3>2, <4>1 DEF Fresh, RowsOf
    <3> QED
      BY <3>1, <3>2
  <2>10. \A y \in Students \ {s} : Fresh(p, y)' <=> Fresh(p, y)
    <3> SUFFICES ASSUME NEW y \in Students \ {s} PROVE Fresh(p, y)' <=> Fresh(p, y)
      OBVIOUS
    <3>1. plan'[p].row[y] = plan[p].row[y] /\ plan'[p].found[y] = plan[p].found[y]
      BY <2>2, <2>3 DEF Plan
    <3> QED
      BY <2>4, <3>1 DEF Fresh, RowsOf
  <2>11. plan[p].read \subseteq Students
    BY <2>2 DEF Plan
  <2>12. ~overlapped' => \A x \in Submits : job'[x].pc = "read" /\ plan'[x].base = last' =>
           \A y \in plan'[x].read : Fresh(x, y)'
    <3> SUFFICES ASSUME ~overlapped, NEW x \in Submits, job[x].pc = "read", plan[x].base = last,
                        NEW y \in plan'[x].read
                 PROVE  Fresh(x, y)'
      BY <2>3, <2>4
    <3>1. CASE x # p
      BY <2>3, <2>7, <3>1 DEF Sequential
    <3>2. CASE x = p /\ y = s
      BY <2>9, <3>2
    <3>3. CASE x = p /\ y # s
      BY <2>3, <2>10, <2>11, <3>3 DEF Sequential
    <3> QED
      BY <3>1, <3>2, <3>3
  <2>13. q \in Written \cup {Nil}
    BY DEF Found, RowsOf, Sequential
  <2>14. \A x \in Submits : \A y \in Students : plan'[x].row[y] \in Written \cup {Nil}
    <3> SUFFICES ASSUME NEW x \in Submits, NEW y \in Students
                 PROVE  plan'[x].row[y] \in Written \cup {Nil}
      OBVIOUS
    <3>1. CASE x = p /\ y = s
      BY <2>8, <2>13, <3>1
    <3>2. CASE x = p /\ y # s
      BY <2>2, <2>3, <3>2 DEF Plan, Sequential
    <3>3. CASE x # p
      BY <2>3, <3>3 DEF Sequential
    <3> QED
      BY <3>1, <3>2, <3>3
  <2> QED
    BY <2>3, <2>4, <2>5, <2>6, <2>12, <2>14 DEF Sequential
<1>5. ASSUME NEW p \in Submits, SubmitCommit(p) PROVE Sequential'
  <2>1. /\ plan'[p].base = Nil
        /\ \A s \in Students : plan'[p].row[s] = Nil
        /\ \A x \in Submits \ {p} : plan'[x] = plan[x]
    BY <1>0, <1>5 DEF SubmitCommit, NoPlan
  <2>2. /\ job[p].pc = "read" /\ job'[p].pc = "committed"
        /\ \A x \in Submits \ {p} : job'[x] = job[x]
    BY <1>0, <1>5 DEF SubmitCommit, Advance, Job
  <2>3. Written' = Written \cup {p} /\ p \notin Written
    BY <2>2 DEF Written
  <2>4. /\ rows' = [q \in Submits |-> [s \in Students |-> MarkAfter(p, q, s)]]
        /\ last' = p
    BY <1>5 DEF SubmitCommit
  <2>5. ~overlapped' => \A s \in Students : Kept(s)'
    BY <1>5, CommitKeeps
  <2>6. \A x \in Submits \ {p} : plan'[x].base # last'
    BY <1>0, <2>1, <2>3, <2>4 DEF Sequential
  <2>7. \A x \in Submits : job'[x].pc = "read" => plan'[x].base # last'
    BY <2>2, <2>6
  <2>8. ASSUME NEW x \in Submits \ Written', NEW s \in Students PROVE rows'[x][s] = "none"
    <3>1. x # p /\ x \notin Written /\ rows[x][s] = "none"
      BY <2>3, <2>8 DEF Sequential
    <3>2. rows'[x][s] = MarkAfter(p, x, s)
      BY <2>4
    <3>3. plan[p].row[s] \in Written \cup {Nil}
      BY DEF Sequential
    <3>4. MarkAfter(p, x, s) = rows[x][s]
      BY <1>0, <3>1, <3>3 DEF MarkAfter
    <3> QED
      BY <3>1, <3>2, <3>4
  <2>9. \A x \in Submits : \A s \in Students : plan'[x].row[s] \in Written' \cup {Nil}
    BY <2>1, <2>3 DEF Sequential
  <2>10. \A x \in Submits : plan'[x].base \in Written' \cup {Nil}
    BY <2>1, <2>3 DEF Sequential
  <2>11. last' \in Written' \cup {Nil}
    BY <2>3, <2>4
  <2> QED
    BY <2>5, <2>7, <2>8, <2>9, <2>10, <2>11 DEF Sequential
<1>6. ASSUME NEW p \in Submits, SubmitFails(p) PROVE Sequential'
  <2>1. /\ plan'[p].base = Nil /\ plan'[p].read = {}
        /\ \A s \in Students : plan'[p].row[s] = Nil
        /\ \A x \in Submits \ {p} : plan'[x] = plan[x]
    BY <1>0, <1>6 DEF SubmitFails, NoPlan
  <2>2. /\ job[p].pc = "read" /\ job'[p].pc = "missing"
        /\ \A x \in Submits \ {p} : job'[x] = job[x]
    BY <1>0, <1>6 DEF SubmitFails, Advance, Job
  <2>3. Written' = Written
    BY <2>2 DEF Written
  <2>4. UNCHANGED <<rows, sheet, last, overlapped>>
    BY <1>6 DEF SubmitFails
  <2>5. \A s \in Students : Kept(s)' <=> Kept(s)
    BY <2>4 DEF Kept, RowsOf
  <2>6. \A x \in Submits \ {p} : \A s : Fresh(x, s)' <=> Fresh(x, s)
    BY <2>1, <2>4 DEF Fresh, RowsOf
  <2> QED
    BY <2>1, <2>2, <2>3, <2>4, <2>5, <2>6 DEF Sequential
<1>7. ASSUME NEW p \in Submits, Broadcast(p) \/ Delivered(p) PROVE Sequential'
  <2>1. UNCHANGED attendance
    BY <1>7 DEF Broadcast, Delivered
  <2>2. \A x \in Submits : \/ job'[x].pc = job[x].pc
                           \/ job[x].pc = "committed" /\ job'[x].pc = "sending"
                           \/ job[x].pc = "sending" /\ job'[x].pc = "done"
    BY <1>0, <1>7 DEF Broadcast, Delivered, Advance, Job
  <2> QED
    BY <2>1, <2>2, SequentialFrame
<1>8. ASSUME NEW p \in Submits, NEW w \in Sockets, Deliver(p, w) PROVE Sequential'
  <2>1. \A x \in Submits : job'[x].pc = job[x].pc
    BY <1>0, <1>8 DEF Deliver, Job
  <2> QED
    BY <1>8, <2>1, SequentialFrame DEF Deliver
<1>9. ASSUME NEW w \in Sockets, Accept(w) \/ ReadState(w) \/ Die(w) \/ End(w) PROVE Sequential'
  BY <1>2, <1>9 DEF Accept, ReadState, Die, End
<1>10. CASE UNCHANGED vars
  BY <1>2, <1>10 DEF vars, attendance
<1>11. ASSUME NEW c \in Creates, CreateCache(c) \/ CreateCommit(c) PROVE Sequential'
  BY <1>1, <1>11 DEF CreateCache, CreateCommit
<1>12. ASSUME NEW f \in Preflights, PreflightRead(f) \/ PreflightCommit(f) PROVE Sequential'
  BY <1>1, <1>12 DEF PreflightRead, PreflightCommit
<1>13. ASSUME NEW i \in Initiates, Ignite(i) PROVE Sequential'
  BY <1>1, <1>13 DEF Ignite
<1>14. ASSUME NEW i \in Initiates, NEW c \in Creates, FindByOtp(i, c) PROVE Sequential'
  BY <1>1, <1>14 DEF FindByOtp
<1>15. ASSUME NEW t \in Terminates, TerminateRead(t) \/ TerminateCommit(t) PROVE Sequential'
  BY <1>1, <1>15 DEF TerminateRead, TerminateCommit
<1> QED
  BY <1>3, <1>4, <1>5, <1>6, <1>7, <1>8, <1>9, <1>10, <1>11, <1>12, <1>13, <1>14, <1>15 DEF Next

(* While submissions see each other, every student who was listed has one    *)
(* row, with the mark of the last submission that lists the student.         *)
THEOREM LastWins == Spec => []LastSubmissionWins
<1>1. Init => Sequential
  <2> SUFFICES ASSUME Init PROVE Sequential
    OBVIOUS
  <2>1. /\ last = Nil /\ \A p \in Submits : plan[p].base = Nil /\ job[p].pc = "new" /\ plan[p].read = {}
        /\ \A p \in Submits : \A s \in Students : rows[p][s] = "none" /\ plan[p].row[s] = Nil
        /\ \A s \in Students : sheet[s] = "none"
    BY DEF Init, NoPlan, Jobs
  <2> QED
    BY <2>1 DEF Sequential, Kept, RowsOf
<1>2. Sequential => LastSubmissionWins
  BY DEF Sequential, LastSubmissionWins, Kept
<1> QED
  BY <1>1, <1>2, TypeCorrect, SequentialStep, PTL DEF Spec
=============================================================================
