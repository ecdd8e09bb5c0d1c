---------------------------- MODULE ClassSession ----------------------------
(***************************************************************************)
(* One class session on the server: its row in active_sessions, whose id   *)
(* is computed from the slot and the day, the attendance submissions from  *)
(* the WebSocket and from REST, the boards connected to the session, and   *)
(* the requests that create, initiate and terminate it.                    *)
(*                                                                         *)
(* Every await is the end of a step; a transaction sees what is committed  *)
(* when it reads, and its writes count from its commit.  A restart of the  *)
(* server is left out: it ends every connection and every request, and a   *)
(* board that connects again reads the tables again.                       *)
(***************************************************************************)
EXTENDS FiniteSets

CONSTANTS
    Students,
    Sockets,        \* connections of boards to the session
    Submits,        \* attendance submissions
    Terminates,     \* requests of terminate_session
    Creates,        \* requests of create_session_endpoint, each with its OTP
    Preflights,     \* requests of get_preflight
    Initiates,      \* requests of initiate_session
    Nil

ASSUME SessionAssumption ==
    /\ Nil \notin Submits
    /\ Submits \cap (Terminates \cup Creates \cup Preflights \cup Initiates) = {}

VARIABLES
    status,     \* of the session row, "none" without one
    job,        \* the requests
    plan,       \* what each submission is about to write
    rows,       \* session_attendees: the row that a submission inserted for a student
    sheet,      \* the mark of each student in the last submission that lists it
    last,       \* the last submission that committed
    overlapped, \* a submission committed that did not see the one before it
    members,    \* manager._connections.get(session_id)
    sock        \* WebSocket handlers and their clients

vars == <<status, job, plan, rows, sheet, last, overlapped, members, sock>>
attendance == <<plan, rows, sheet, last, overlapped>>
boards == <<members, sock>>

Jobs == Submits \cup Terminates \cup Creates \cup Preflights \cup Initiates

\* A request; to: the connections that the broadcast of a submission still has to reach.
Job == [pc : {"new", "read", "committed", "sending", "done", "missing", "refused", "ignited"},
        to : SUBSET Sockets]

\* mark: present_emails and absent_emails; row: the row that was found, Nil for a new one;
\* found: the status it had; base: the submission that committed last at the beginning.
Marks == {"none", "present", "absent"}
Plan == [mark : [Students -> Marks], read : SUBSET Students,
         row : [Students -> Submits \cup {Nil}], found : [Students -> Marks],
         base : Submits \cup {Nil}]
NoPlan == [mark |-> [s \in Students |-> "none"], read |-> {},
           row |-> [s \in Students |-> Nil], found |-> [s \in Students |-> "none"], base |-> Nil]

\* heard: the submissions a client knows, from its snapshot or from a broadcast.
Socket == [pc : {"none", "accepted", "open", "ended"}, alive : BOOLEAN,
           heard : SUBSET Submits]

TypeOK ==
    /\ status \in {"none", "pre_allocated", "active", "ended"}
    /\ job \in [Jobs -> Job]
    /\ plan \in [Submits -> Plan]
    /\ rows \in [Submits -> [Students -> Marks]]
    /\ sheet \in [Students -> Marks]
    /\ last \in Submits \cup {Nil}
    /\ overlapped \in BOOLEAN
    /\ members \subseteq Sockets
    /\ sock \in [Sockets -> Socket]

Init ==
    /\ status = "none"
    /\ job = [j \in Jobs |-> [pc |-> "new", to |-> {}]]
    /\ plan = [p \in Submits |-> NoPlan]
    /\ rows = [p \in Submits |-> [s \in Students |-> "none"]]
    /\ sheet = [s \in Students |-> "none"]
    /\ last = Nil
    /\ overlapped = FALSE
    /\ members = {}
    /\ sock = [w \in Sockets |-> [pc |-> "none", alive |-> TRUE, heard |-> {}]]

Advance(j, from, to) ==
    /\ job[j].pc = from
    /\ job' = [job EXCEPT ![j].pc = to]

----------------------------------------------------------------------------
(* The session row.                                                        *)

\* session_id is unique: a second INSERT fails, and its request with it.
Insert == status' = IF status = "none" THEN "pre_allocated" ELSE status

\* The OTP is cached before the row is committed, and stays when that fails.
CreateCache(c) ==
    /\ Advance(c, "new", "read")
    /\ UNCHANGED <<status, attendance, boards>>

CreateCommit(c) ==
    /\ Advance(c, "read", "done")
    /\ Insert
    /\ UNCHANGED <<attendance, boards>>

\* A session that exists is answered as it is, whatever its status.
PreflightRead(f) ==
    /\ Advance(f, "new", IF status = "none" THEN "read" ELSE "done")
    /\ UNCHANGED <<status, attendance, boards>>

PreflightCommit(f) ==
    /\ Advance(f, "read", "done")
    /\ Insert
    /\ UNCHANGED <<attendance, boards>>

\* A cached OTP expires.
FindByOtp(i, c) ==
    /\ \/ Advance(i, "new", "missing")
       \/ job[c].pc # "new" /\ Advance(i, "new", "read")
    /\ UNCHANGED <<status, attendance, boards>>

\* "error" in session: every session that is found has the key.
HasError == TRUE

Ignited == "active"

\* The UPDATE of the ignition does not look at the status; the OTP it would remove is used once here.
Ignite(i) ==
    /\ Advance(i, "read", IF status = "none" THEN "missing"
                          ELSE IF HasError THEN "refused" ELSE "ignited")
    /\ status' = IF status = "none" \/ HasError THEN status ELSE Ignited
    /\ UNCHANGED <<attendance, boards>>

\* The end is broadcast between the read and the commit, which no connection answers; a session
\* that was not found is broadcast too.
TerminateRead(t) ==
    /\ Advance(t, "new", IF status = "none" THEN "missing" ELSE "read")
    /\ UNCHANGED <<status, attendance, boards>>

\* Mutant: the row gets the name of the endpoint.
EndStatus_Word == "terminated"

EndStatus == "ended"

TerminateCommit(t) ==
    /\ Advance(t, "read", "done")
    /\ status' = EndStatus
    /\ UNCHANGED <<attendance, boards>>

----------------------------------------------------------------------------
(* Attendance.                                                             *)

\* A submission that lists nobody writes nothing, and is left out.
Submit(p, mark) ==
    /\ \E s \in Students : mark[s] # "none"
    /\ Advance(p, "new", "read")
    /\ plan' = [plan EXCEPT ![p] = [NoPlan EXCEPT !.mark = mark, !.base = last]]
    /\ UNCHANGED <<status, rows, sheet, last, overlapped, boards>>

RowsOf(s) == {q \in Submits : rows[q][s] # "none"}

\* Mutant: the rows are not looked up.
Found_Never(s) == {Nil}

\* limit(1): any one of the rows of a student.
Found(s) == IF RowsOf(s) = {} THEN {Nil} ELSE RowsOf(s)

\* What p knows of s when it found the row of q, or none.
Seen(p, s, q) ==
    [plan[p] EXCEPT !.read = @ \cup {s}, !.row = [@ EXCEPT ![s] = q],
                    !.found = [@ EXCEPT ![s] = IF q = Nil THEN "none" ELSE rows[q][s]]]

Lookup(p, s) ==
    /\ job[p].pc = "read"
    /\ plan[p].mark[s] # "none" /\ s \notin plan[p].read
    /\ \E q \in Found(s) : plan' = [plan EXCEPT ![p] = Seen(p, s, q)]
    /\ UNCHANGED <<status, job, rows, sheet, last, overlapped, boards>>

Listed(p) == {s \in Students : plan[p].mark[s] # "none"}

\* The mark that the row of q for s has after the commit of p: a new row is inserted, and the
\* status of a row that was found is written when it changes.
MarkAfter(p, q, s) ==
    IF s \in Listed(p) /\ (IF plan[p].row[s] = Nil THEN q = p
                           ELSE q = plan[p].row[s] /\ plan[p].found[s] # plan[p].mark[s])
    THEN plan[p].mark[s] ELSE rows[q][s]

\* The attendees need a session row.
SubmitCommit(p) ==
    /\ status # "none"
    /\ plan[p].read = Listed(p)
    /\ Advance(p, "read", "committed")
    /\ rows' = [q \in Submits |-> [s \in Students |-> MarkAfter(p, q, s)]]
    /\ sheet' = [s \in Students |-> IF s \in Listed(p) THEN plan[p].mark[s] ELSE sheet[s]]
    /\ last' = p
    /\ overlapped' = (overlapped \/ plan[p].base # last)
    /\ plan' = [plan EXCEPT ![p] = NoPlan]
    /\ UNCHANGED <<status, boards>>

\* The session or a student is missing, or the transaction is the victim of a deadlock.
SubmitFails(p) ==
    /\ Advance(p, "read", "missing")
    /\ plan' = [plan EXCEPT ![p] = NoPlan]
    /\ UNCHANGED <<status, rows, sheet, last, overlapped, boards>>

----------------------------------------------------------------------------
(* The boards of the session.                                              *)

Broadcast(p) ==
    /\ job[p].pc = "committed"
    /\ job' = [job EXCEPT ![p] = [pc |-> "sending", to |-> members]]
    /\ UNCHANGED <<status, attendance, boards>>

\* send_text to one of the connections that were registered at the beginning.
Deliver(p, w) ==
    /\ w \in job[p].to
    /\ job' = [job EXCEPT ![p].to = @ \ {w}]
    /\ IF sock[w].alive
       THEN sock' = [sock EXCEPT ![w].heard = @ \cup {p}] /\ UNCHANGED members
       ELSE members' \in {members, members \ {w}} /\ UNCHANGED sock
    /\ UNCHANGED <<status, attendance>>

Delivered(p) ==
    /\ job[p].to = {}
    /\ Advance(p, "sending", "done")
    /\ UNCHANGED <<status, attendance, boards>>

\* accept, and the registration that follows it without an await.
Accept(w) ==
    /\ sock[w].pc = "none"
    /\ sock' = [sock EXCEPT ![w].pc = "accepted"]
    /\ members' = members \cup {w}
    /\ UNCHANGED <<status, job, attendance>>

Committed == {p \in Submits : job[p].pc \in {"committed", "sending", "done"}}

\* The query of the attendees; full_state_sync is sent when it returns.
ReadState(w) ==
    /\ sock[w].pc = "accepted"
    /\ sock' = [sock EXCEPT ![w].pc = "open",
                            ![w].heard = IF sock[w].alive THEN @ \cup Committed ELSE {}]
    /\ UNCHANGED <<status, job, attendance, members>>

Die(w) ==
    /\ sock[w].pc \in {"accepted", "open"}
    /\ sock[w].alive
    /\ sock' = [sock EXCEPT ![w].alive = FALSE, ![w].heard = {}]
    /\ UNCHANGED <<status, job, attendance, members>>

\* Mutant: the session is unregistered with one of its boards.
MembersAfter_All(w) == {}

MembersAfter(w) == members \ {w}

\* The handler ends: its receive timed out or the client closed, or a send failed.
End(w) ==
    /\ sock[w].pc \in {"accepted", "open"}
    /\ sock[w].pc # "open" => ~sock[w].alive
    /\ sock' = [sock EXCEPT ![w] = [pc |-> "ended", alive |-> FALSE, heard |-> {}]]
    /\ members' = MembersAfter(w)
    /\ UNCHANGED <<status, job, attendance>>

----------------------------------------------------------------------------

Next ==
    \/ \E c \in Creates : CreateCache(c) \/ CreateCommit(c)
    \/ \E f \in Preflights : PreflightRead(f) \/ PreflightCommit(f)
    \/ \E i \in Initiates : Ignite(i) \/ \E c \in Creates : FindByOtp(i, c)
    \/ \E t \in Terminates : TerminateRead(t) \/ TerminateCommit(t)
    \/ \E p \in Submits :
         \/ \E mark \in [Students -> Marks] : Submit(p, mark)
         \/ \E s \in Students : Lookup(p, s)
         \/ \E w \in Sockets : Deliver(p, w)
         \/ SubmitCommit(p) \/ SubmitFails(p) \/ Broadcast(p) \/ Delivered(p)
    \/ \E w \in Sockets : Accept(w) \/ ReadState(w) \/ Die(w) \/ End(w)

Spec == Init /\ [][Next]_vars

----------------------------------------------------------------------------

(* While every submission sees the one before it, each student who was       *)
(* listed has one row, and its status is the mark of the last submission     *)
(* that lists the student.                                                   *)
LastSubmissionWins ==
    ~overlapped =>
      \A s \in Students :
        IF sheet[s] = "none" THEN RowsOf(s) = {}
        ELSE \E q \in Submits : RowsOf(s) = {q} /\ rows[q][s] = sheet[s]

(* A board that is connected and synchronised misses no submission: one      *)
(* whose broadcast is over was in the snapshot or was sent to the board,     *)
(* however connecting, reading, committing and broadcasting interleave.      *)
NoMissedSubmission ==
    \A w \in Sockets, p \in Submits :
      sock[w].pc = "open" /\ sock[w].alive /\ job[p].pc = "done" => p \in sock[w].heard

(* A claim of the sources that the code does not keep.                       *)
(* session_service.py:198: the ignition "activates a pre-allocated session"; *)
(* a request whose OTP and session are found is not refused.                 *)
InitiateActivates == \A i \in Initiates : job[i].pc # "refused"
=============================================================================
