--------------------------- MODULE BoardBoot_proofs ---------------------------
(***************************************************************************)
(* Proofs about BoardBoot, for any set of processes and any thresholds.    *)
(*                                                                         *)
(* The inductive invariant relates the guard in the registry to what       *)
(* happened since the last completed launch:                               *)
(*   - UiOwnsLock: a process past the lock holds it, whatever other starts *)
(*     do to the file, and one that shows the UI is recorded in it;        *)
(*   - GuardCounts: while a launch is in progress the guard has counted    *)
(*     fewer failures than launches began, and exactly one less when no    *)
(*     error and no long pause came between;                               *)
(*   - GuardRemembers: with launches begun, only an error clears the       *)
(*     in-progress flag and only ten idle minutes make it stale.           *)
(* GuardCounts and GuardRemembers give both directions of the detection.   *)
(***************************************************************************)
EXTENDS BoardBoot, TLAPS

HasLock(q) == proc[q].pc \in {"locked", "cleared", "ui"}

UiOwnsLock ==
    /\ \A q \in Process : HasLock(q) => holder = q
    /\ \A q \in Process : At(q, "ui") => recorded = q

GuardRemembers ==
    past.begun > 0 =>
        /\ past.errors = 0 => guard.inProgress
        /\ ~past.gap => guard.recent

Counters == GuardCounts /\ GuardRemembers

IInv == TypeOK /\ UiOwnsLock /\ Counters

------------------------------------------------------------------------------

\* The guard's two writes keep its shape, whatever they find there.
LEMMA GuardWrites ==
    ASSUME NEW g \in GuardShape
    PROVE  /\ Completed(g) \in GuardShape
           /\ FailedAtBegin(g) \in Nat
  <1>1. Completed(g) \in GuardShape
    BY DEF GuardShape, Completed
  <1>2. g.failed \in Nat
    BY DEF GuardShape
  <1>3. FailedAtBegin(g) \in Nat
    BY <1>2 DEF FailedAtBegin
  <1> QED
    BY <1>1, <1>3

\* A history that forgets everything makes the counting invariants hold once the
\* launch in progress is over.
LEMMA CompletionCounts ==
    ASSUME TypeOK, MarkLaunchCompleted
    PROVE  /\ guard' \in GuardShape
           /\ past' \in PastShape
           /\ Counters'
  <1>1. guard' \in GuardShape
    BY GuardWrites DEF TypeOK, MarkLaunchCompleted
  <1>2. past' \in PastShape /\ past'.begun = 0
    BY DEF MarkLaunchCompleted, NothingPast, PastShape
  <1>3. ~guard'.inProgress
    BY DEF MarkLaunchCompleted, Completed, TypeOK, GuardShape
  <1> QED
    BY <1>1, <1>2, <1>3 DEF Counters, GuardCounts, GuardRemembers

\* A caught error ends the launch in progress and is remembered.
LEMMA ErrorCounts ==
    ASSUME TypeOK, Counters, MarkLaunchFailed
    PROVE  /\ guard' \in GuardShape
           /\ autostart' \in BOOLEAN
           /\ past' \in PastShape
           /\ Counters'
  <1>1. guard' \in GuardShape /\ ~guard'.inProgress /\ guard'.recent = guard.recent
    <2>1. guard \in GuardShape /\ guard.failed \in Nat
      BY DEF TypeOK, GuardShape
    <2> DEFINE n == guard.failed + 1
    <2>a. n \in Nat /\ guard' = [guard EXCEPT !.inProgress = FALSE, !.failed = n]
      BY <2>1 DEF MarkLaunchFailed
    <2>2. guard' \in GuardShape
      <3> HIDE DEF n
      <3> QED BY <2>1, <2>a DEF GuardShape
    <2>3. ~guard'.inProgress /\ guard'.recent = guard.recent
      BY <2>1 DEF MarkLaunchFailed, GuardShape
    <2> QED BY <2>2, <2>3
  <1>2. /\ past' \in PastShape /\ past'.errors = past.errors + 1
        /\ past'.begun = past.begun /\ past'.gap = past.gap
    BY DEF MarkLaunchFailed, TypeOK, PastShape
  <1>3. autostart' \in BOOLEAN
    BY DEF MarkLaunchFailed
  <1>4. past.errors \in Nat
    BY DEF TypeOK, PastShape
  <1> QED
    BY <1>1, <1>2, <1>3, <1>4 DEF Counters, GuardCounts, GuardRemembers

\* A step that touches neither the guard nor the counts of the history.
LEMMA CountsUnaffected ==
    ASSUME Counters, UNCHANGED guard,
           past'.begun = past.begun, past'.gap = past.gap, past'.errors = past.errors
    PROVE  Counters'
  BY DEF Counters, GuardCounts, GuardRemembers

LEMMA Attempts == 0 \in Attempt /\ MaxPolls \in Attempt
  BY BootAssumption DEF Attempt

\* A process that has not started is of the shape of a process.
LEMMA OffShape == Off \in ProcShape /\ Off.pc = "off"
  <1>1. 0 \in Attempt
    BY Attempts
  <1> QED BY <1>1 DEF Off, ProcShape, Pc

\* A process that moves to a place other than the UI.
LEMMA Moves ==
    ASSUME TypeOK, UiOwnsLock, UNCHANGED lockFile, NEW p \in Process, NEW r \in ProcShape,
           r.pc \notin {"locked", "cleared", "ui"}, proc' = [proc EXCEPT ![p] = r]
    PROVE  proc' \in [Process -> ProcShape] /\ UiOwnsLock'
  BY DEF TypeOK, UiOwnsLock, HasLock, At, lockFile

\* A process that ends gives up the lock and leaves the PID of a dead process.
LEMMA EndKeepsLock ==
    ASSUME TypeOK, UiOwnsLock, NEW p \in Process, Ends(p)
    PROVE  /\ proc' \in [Process -> ProcShape]
           /\ holder' \in Process \cup {NoProcess}
           /\ recorded' \in Process \cup {NoProcess, Gone}
           /\ UiOwnsLock'
  <1>1. Off \in ProcShape /\ Off.pc = "off"
    BY OffShape
  <1>2. proc' \in [Process -> ProcShape]
    BY <1>1 DEF Ends, TypeOK
  <1>3. /\ holder' \in Process \cup {NoProcess}
        /\ recorded' \in Process \cup {NoProcess, Gone}
    BY DEF Ends, TypeOK
  <1>4. proc'[p].pc = "off" /\ \A q \in Process \ {p} : proc'[q] = proc[q]
    BY <1>1 DEF Ends, TypeOK
  <1>5. UiOwnsLock'
    BY <1>4 DEF Ends, UiOwnsLock, HasLock, At
  <1> QED BY <1>2, <1>3, <1>5

\* The steps of the lock file: the lock passes only to a process that finds it free,
\* and only its holder, or a deletion that finds no running process there, changes
\* what the file records.
LEMMA LockStepKeepsLock ==
    ASSUME TypeOK, UiOwnsLock, NEW p \in Process, LockStep(p)
    PROVE  /\ proc' \in [Process -> ProcShape]
           /\ holder' \in Process \cup {NoProcess}
           /\ recorded' \in Process \cup {NoProcess, Gone}
           /\ UiOwnsLock'
  <1> USE DEF lockFile
  <1>0. proc[p] \in ProcShape /\ proc \in [Process -> ProcShape]
        /\ holder \in Process \cup {NoProcess}
        /\ recorded \in Process \cup {NoProcess, Gone}
    BY DEF TypeOK
  <1>1. ASSUME NEW place \in Pc, Goto(p, place)
        PROVE  /\ proc' \in [Process -> ProcShape]
               /\ proc'[p].pc = place
               /\ \A q \in Process \ {p} : proc'[q] = proc[q]
    <2>1. [proc[p] EXCEPT !.pc = place] \in ProcShape
      BY <1>0 DEF ProcShape
    <2>2. [proc[p] EXCEPT !.pc = place].pc = place
      BY <1>0 DEF ProcShape
    <2> QED BY <1>1, <1>0, <2>1, <2>2 DEF Goto
  <1>2. CASE OpenLock(p)
    <2>1. PICK place \in {"opened", "denied"} : Goto(p, place)
      BY <1>2 DEF OpenLock
    <2>2. place \in Pc
      BY DEF Pc
    <2> QED
      BY <1>2, <1>0, <1>1, <2>1, <2>2 DEF OpenLock, PidAfterOpen, UiOwnsLock, HasLock, At
  <1>3. CASE TakeLock(p)
    <2>1. "locked" \in Pc /\ "denied" \in Pc
      BY DEF Pc
    <2>2. CASE holder = NoProcess /\ holder' = p /\ Goto(p, "locked")
      <3>1. \A q \in Process : ~HasLock(q)
        BY <2>2, BootAssumption DEF UiOwnsLock
      <3> QED
        BY <1>3, <2>2, <1>0, <1>1, <2>1, <3>1 DEF TakeLock, UiOwnsLock, HasLock, At
    <2>3. CASE Goto(p, "denied") /\ UNCHANGED holder
      BY <1>3, <2>3, <1>0, <1>1, <2>1 DEF TakeLock, UiOwnsLock, HasLock, At
    <2> QED BY <1>3, <2>2, <2>3 DEF TakeLock
  <1>4. CASE ClearLock(p)
    <2>1. holder = p /\ "cleared" \in Pc
      BY <1>4 DEF ClearLock, UiOwnsLock, HasLock, At, Pc
    <2>2. \A q \in Process \ {p} : ~HasLock(q)
      BY <2>1 DEF UiOwnsLock
    <2> QED
      BY <1>4, <1>0, <1>1, <2>1, <2>2 DEF ClearLock, UiOwnsLock, HasLock, At
  <1>5. CASE RecordPid(p)
    <2> DEFINE r == [Off EXCEPT !.pc = "ui", !.completed = TRUE]
    <2>1. holder = p
      BY <1>5 DEF RecordPid, UiOwnsLock, HasLock, At
    <2>2. \A q \in Process \ {p} : ~HasLock(q)
      BY <2>1 DEF UiOwnsLock
    <2>3. r \in ProcShape /\ r.pc = "ui"
      BY OffShape DEF ProcShape, Pc
    <2>4. proc' = [proc EXCEPT ![p] = r]
      BY <1>5 DEF RecordPid
    <2> HIDE DEF r
    <2>5. /\ proc' \in [Process -> ProcShape] /\ proc'[p].pc = "ui"
          /\ \A q \in Process \ {p} : proc'[q] = proc[q]
      BY <1>0, <2>3, <2>4
    <2> QED
      BY <1>5, <1>0, <2>1, <2>2, <2>5 DEF RecordPid, UiOwnsLock, HasLock, At
  <1>6. CASE WriteFails(p)
    <2>1. holder = p /\ "denied" \in Pc
      BY <1>6 DEF WriteFails, UiOwnsLock, HasLock, Pc
    <2>2. \A q \in Process \ {p} : ~HasLock(q)
      BY <2>1 DEF UiOwnsLock
    <2>3. recorded' \in Process \cup {NoProcess, Gone} /\ holder' = NoProcess
      BY <1>6, <1>0 DEF WriteFails
    <2> QED
      BY <1>6, <1>0, <1>1, <2>1, <2>2, <2>3 DEF WriteFails, UiOwnsLock, HasLock, At
  <1>7. ASSUME proc[p].attempt + 1 \in Attempt, PollNext(p)
        PROVE  /\ proc' \in [Process -> ProcShape] /\ UNCHANGED lockFile
               /\ UiOwnsLock'
    <2> DEFINE n == proc[p].attempt + 1
               r == [proc[p] EXCEPT !.pc = "ready", !.attempt = n]
    <2>1. r \in ProcShape /\ r.pc = "ready"
      <3>1. n \in Attempt
        BY <1>7
      <3> HIDE DEF n
      <3> QED BY <3>1, <1>0 DEF ProcShape, Pc
    <2>2. proc' = [proc EXCEPT ![p] = r] /\ UNCHANGED lockFile
      BY <1>7, <1>0 DEF PollNext
    <2> HIDE DEF r
    <2> QED BY <2>1, <2>2, Moves
  <1>8. CASE FirstDenied(p)
    <2>1. CASE Goto(p, "stale") /\ UNCHANGED lockFile
      <3>1. "stale" \in Pc
        BY DEF Pc
      <3> QED BY <2>1, <3>1, <1>0, <1>1 DEF UiOwnsLock, HasLock, At
    <2>2. CASE Ends(p)
      BY <2>2, EndKeepsLock
    <2>3. CASE PollNext(p)
      <3>1. proc[p].attempt + 1 \in Attempt
        BY <1>8, BootAssumption DEF FirstDenied, Attempt
      <3> QED BY <2>3, <3>1, <1>7, <1>0
    <2> QED BY <1>8, <2>1, <2>2, <2>3 DEF FirstDenied
  <1>9. CASE PollDenied(p)
    <2>1. CASE PollNext(p)
      <3>1. proc[p].attempt + 1 \in Attempt
        BY <1>9, BootAssumption DEF PollDenied, Attempt
      <3> QED BY <2>1, <3>1, <1>7, <1>0
    <2> QED BY <1>9, <2>1, EndKeepsLock DEF PollDenied
  <1>10. CASE DeleteStale(p)
    <2> DEFINE r == [proc[p] EXCEPT !.pc = "ready", !.attempt = MaxPolls]
    <2>1. r \in ProcShape /\ r.pc = "ready"
      BY <1>0, Attempts DEF ProcShape, Pc
    <2>2. proc' = [proc EXCEPT ![p] = r]
      BY <1>10, <1>0 DEF DeleteStale
    <2> HIDE DEF r
    <2>3. CASE UNCHANGED lockFile
      BY <1>0, <2>1, <2>2, <2>3, Moves
    <2>4. CASE /\ \A q \in Process : ~HasOpen(q)
               /\ recorded' = NoProcess /\ UNCHANGED holder
      <3>1. \A q \in Process : ~HasLock(q)
        BY <2>4 DEF HasOpen, HasLock
      <3>2. /\ proc' \in [Process -> ProcShape]
            /\ \A q \in Process : ~HasLock(q)'
        BY <1>0, <2>1, <2>2, <3>1 DEF HasLock
      <3> QED BY <2>4, <1>0, <3>2 DEF UiOwnsLock, HasLock, At
    <2> QED BY <1>10, <2>3, <2>4 DEF DeleteStale
  <1>11. CASE At(p, "denied") /\ proc[p].attempt = MaxPolls /\ LastDenied(p)
    BY <1>11, EndKeepsLock DEF LastDenied
  <1> QED
    BY <1>2, <1>3, <1>4, <1>5, <1>6, <1>8, <1>9, <1>10, <1>11 DEF LockStep

------------------------------------------------------------------------------

LEMMA InitIInv == Init => IInv
  <1> SUFFICES ASSUME Init PROVE IInv
    OBVIOUS
  <1>1. TypeOK
    BY OffShape DEF Init, TypeOK, GuardShape, PastShape, NothingPast
  <1>2. UiOwnsLock
    BY DEF Init, UiOwnsLock, HasLock, At, Off
  <1>3. Counters
    BY DEF Init, Counters, GuardCounts, GuardRemembers, NothingPast
  <1> QED
    BY <1>1, <1>2, <1>3 DEF IInv

LEMMA NextIInv == IInv /\ [Next]_vars => IInv'
  <1> SUFFICES ASSUME IInv, [Next]_vars PROVE IInv'
    OBVIOUS
  <1> USE DEF IInv
  <1>a. CASE UNCHANGED vars
    BY <1>a DEF vars, lockFile, TypeOK, UiOwnsLock, HasLock, At, Counters, GuardCounts, GuardRemembers
  <1>b. CASE TenMinutesPass
    <2>1. TypeOK'
      <3>1. guard' \in GuardShape
        BY <1>b DEF TenMinutesPass, TypeOK, GuardShape
      <3>2. past' \in PastShape
        <4> DEFINE b == past.begun > 0
        <4>1. past' = [past EXCEPT !.gap = b]
          BY <1>b DEF TenMinutesPass
        <4>2. b \in BOOLEAN /\ past \in PastShape
          BY DEF TypeOK
        <4> HIDE DEF b
        <4> QED BY <4>1, <4>2 DEF PastShape
      <3> QED BY <1>b, <3>1, <3>2 DEF TenMinutesPass, lockFile, TypeOK
    <2>2. UiOwnsLock'
      BY <1>b DEF TenMinutesPass, lockFile, UiOwnsLock, HasLock, At
    <2>3. Counters'
      BY <1>b DEF TenMinutesPass, Counters, GuardCounts, GuardRemembers, TypeOK,
                  GuardShape, PastShape
    <2> QED BY <2>1, <2>2, <2>3
  <1>c. ASSUME NEW p \in Process, ProcessStep(p) PROVE IInv'
    <2> USE <1>c
    <2>0. /\ proc[p] \in ProcShape /\ guard \in GuardShape /\ past \in PastShape
          /\ Off \in ProcShape /\ Off.pc = "off"
      BY OffShape DEF TypeOK
    <2>1. CASE Start(p)
      <3>1. PICK arg \in {"none", "autostart", "postUpdate"} :
              proc' = [proc EXCEPT ![p] = [Off EXCEPT !.pc = "boot", !.arg = arg]]
        BY <2>1 DEF Start
      <3>2. [Off EXCEPT !.pc = "boot", !.arg = arg] \in ProcShape
        BY OffShape DEF ProcShape, Pc
      <3>3. [Off EXCEPT !.pc = "boot", !.arg = arg].pc = "boot"
        BY DEF Off
      <3>4. proc' \in [Process -> ProcShape] /\ UiOwnsLock'
        BY <2>1, <3>1, <3>2, <3>3, Moves DEF Start
      <3>5. Counters'
        BY <2>1, CountsUnaffected DEF Start
      <3> QED BY <2>1, <3>4, <3>5 DEF Start, lockFile, TypeOK
    <2>2. CASE BeginLaunch(p)
      <3> DEFINE failed == FailedAtBegin(guard)
                 begun  == [inProgress |-> TRUE, failed |-> failed, recent |-> TRUE]
                 place  == IF InCrashLoop(AutoStarted(p), failed)
                           THEN "crashLoop" ELSE "validation"
      <3>1. failed \in Nat /\ begun \in GuardShape
        BY <2>0, GuardWrites DEF GuardShape
      <3>2. /\ [proc[p] EXCEPT !.pc = place] \in ProcShape
            /\ [proc[p] EXCEPT !.pc = place].pc \notin {"locked", "cleared", "ui"}
        BY <2>0 DEF ProcShape, Pc
      <3>3. proc' = [proc EXCEPT ![p] = [proc[p] EXCEPT !.pc = place]]
        BY <2>2, <2>0 DEF BeginLaunch, Goto, TypeOK
      <3>4. proc' \in [Process -> ProcShape] /\ UiOwnsLock'
        BY <2>2, <3>2, <3>3, Moves DEF BeginLaunch
      <3>5. CASE InCrashLoop(AutoStarted(p), failed)
        <4>1. guard' = Completed(begun) /\ past' = NothingPast /\ autostart' = FALSE
          BY <2>2, <3>5 DEF BeginLaunch
        <4>2. guard' \in GuardShape /\ ~guard'.inProgress
          BY <4>1, <3>1, GuardWrites DEF Completed, GuardShape
        <4>3. past' \in PastShape /\ past'.begun = 0
          BY <4>1 DEF NothingPast, PastShape
        <4>4. Counters'
          BY <4>2, <4>3 DEF Counters, GuardCounts, GuardRemembers
        <4> QED BY <2>2, <3>4, <4>1, <4>2, <4>3, <4>4 DEF BeginLaunch, lockFile, TypeOK
      <3>6. CASE ~InCrashLoop(AutoStarted(p), failed)
        <4>1. /\ guard' = begun /\ autostart' = autostart
              /\ past' = [past EXCEPT !.begun = @ + 1]
          BY <2>2, <3>6 DEF BeginLaunch
        <4>2. /\ past' \in PastShape /\ past'.begun = past.begun + 1
              /\ past'.gap = past.gap /\ past'.errors = past.errors
          BY <4>1, <2>0 DEF PastShape
        <4>3. past.begun \in Nat /\ past.gap \in BOOLEAN /\ guard.failed \in Nat
          BY <2>0 DEF PastShape, GuardShape
        <4>4. failed <= past.begun
          BY <2>0, <4>3 DEF FailedAtBegin, Counters, GuardCounts, GuardShape
        <4>5. ~past.gap /\ past.errors = 0 => failed = past.begun
          <5> SUFFICES ASSUME ~past.gap, past.errors = 0 PROVE failed = past.begun
            OBVIOUS
          <5>1. CASE past.begun = 0
            BY <5>1, <4>4, <3>1
          <5>2. CASE past.begun > 0
            BY <5>2, <4>3, <2>0
            DEF FailedAtBegin, Counters, GuardCounts, GuardRemembers, GuardShape
          <5> QED BY <5>1, <5>2, <4>3
        <4>6. guard'.inProgress /\ guard'.recent /\ guard'.failed = failed
          BY <4>1
        <4> HIDE DEF failed, begun
        <4>7. Counters'
          BY <4>2, <4>3, <4>4, <4>5, <4>6, <3>1
          DEF Counters, GuardCounts, GuardRemembers
        <4> QED BY <2>2, <3>1, <3>4, <4>1, <4>2, <4>7 DEF BeginLaunch, lockFile, TypeOK
      <3> QED BY <3>5, <3>6
    <2>3. CASE AutoRecover(p) \/ Retry(p)
      <3>1. /\ MarkLaunchCompleted /\ UNCHANGED <<autostart, registered, lockFile>>
            /\ proc' = [proc EXCEPT ![p] = [proc[p] EXCEPT !.pc = "boot"]]
        BY <2>3, <2>0 DEF AutoRecover, Retry, Goto, TypeOK
      <3>2. [proc[p] EXCEPT !.pc = "boot"] \in ProcShape
        BY <2>0 DEF ProcShape, Pc
      <3>3. [proc[p] EXCEPT !.pc = "boot"].pc \notin {"locked", "cleared", "ui"}
        BY <2>0 DEF ProcShape
      <3>4. proc' \in [Process -> ProcShape] /\ UiOwnsLock'
        BY <3>1, <3>2, <3>3, Moves
      <3>5. guard' \in GuardShape /\ past' \in PastShape /\ Counters'
        BY <3>1, CompletionCounts
      <3> QED BY <3>1, <3>4, <3>5 DEF lockFile, TypeOK
    <2>4. CASE Configure(p) \/ PhaseFails(p) \/ LifecycleCompletes(p)
      <3>1. PICK r \in ProcShape :
              proc' = [proc EXCEPT ![p] = r] /\ r.pc \notin {"locked", "cleared", "ui"}
        <4>1. CASE Configure(p)
          <5>1. [proc[p] EXCEPT !.pc = "database"] \in ProcShape
            BY <2>0 DEF ProcShape, Pc
          <5> QED BY <4>1, <5>1, <2>0 DEF Configure, Goto, ProcShape
        <4>2. CASE PhaseFails(p)
          <5>1. [proc[p] EXCEPT !.pc = "failed"] \in ProcShape
            BY <2>0 DEF ProcShape, Pc
          <5> QED BY <4>2, <5>1, <2>0 DEF PhaseFails, Goto, ProcShape
        <4>3. CASE LifecycleCompletes(p)
          <5> DEFINE arg == IF AutoStarted(p) THEN "none" ELSE proc[p].arg
                     q == [proc[p] EXCEPT !.pc = "ready", !.completed = TRUE, !.arg = arg]
          <5>0. arg \in {"none", "autostart", "postUpdate"}
            BY <2>0 DEF ProcShape
          <5>1. q \in ProcShape /\ q.pc \notin {"locked", "cleared", "ui"}
            <6> HIDE DEF arg
            <6> QED BY <5>0, <2>0 DEF ProcShape, Pc
          <5>2. proc' = [proc EXCEPT ![p] = q]
            BY <4>3, <2>0 DEF LifecycleCompletes, TypeOK
          <5> HIDE DEF q
          <5> QED BY <5>1, <5>2
        <4> QED BY <2>4, <4>1, <4>2, <4>3
      <3>2. UNCHANGED <<guard, registered, lockFile>> /\ autostart' \in BOOLEAN
        BY <2>4 DEF Configure, PhaseFails, LifecycleCompletes, TypeOK
      <3>3. proc' \in [Process -> ProcShape] /\ UiOwnsLock'
        BY <3>1, <3>2, Moves
      <3>4. /\ past' \in PastShape /\ past'.begun = past.begun
            /\ past'.gap = past.gap /\ past'.errors = past.errors
        BY <2>4, <2>0 DEF Configure, PhaseFails, LifecycleCompletes, PastShape
      <3>5. Counters'
        BY <3>2, <3>4, CountsUnaffected
      <3> QED BY <3>2, <3>3, <3>4, <3>5 DEF lockFile, TypeOK
    <2>5. CASE LockStep(p)
      <3>1. /\ proc' \in [Process -> ProcShape]
            /\ holder' \in Process \cup {NoProcess}
            /\ recorded' \in Process \cup {NoProcess, Gone}
            /\ UiOwnsLock'
        BY <2>5, LockStepKeepsLock
      <3>2. UNCHANGED <<guard, autostart, registered, past>>
        BY <2>5 DEF LockStep
      <3>3. Counters'
        BY <3>2, CountsUnaffected
      <3> QED BY <3>1, <3>2, <3>3 DEF TypeOK
    <2>6. CASE Register(p) \/ IdleScreen(p)
      <3>1. /\ MarkLaunchCompleted /\ UNCHANGED <<lockFile, proc>>
            /\ autostart' \in BOOLEAN /\ registered' \in BOOLEAN
        BY <2>6 DEF Register, IdleScreen, TypeOK
      <3>2. guard' \in GuardShape /\ past' \in PastShape /\ Counters'
        BY <3>1, CompletionCounts
      <3>3. UiOwnsLock'
        BY <3>1 DEF lockFile, UiOwnsLock, HasLock, At
      <3> QED BY <3>1, <3>2, <3>3 DEF lockFile, TypeOK
    <2>7. CASE UnhandledError(p)
      <3>1. /\ guard' \in GuardShape /\ autostart' \in BOOLEAN /\ past' \in PastShape
            /\ Counters'
        BY <2>7, ErrorCounts DEF UnhandledError
      <3>2. UiOwnsLock'
        BY <2>7 DEF UnhandledError, lockFile, UiOwnsLock, HasLock, At
      <3> QED BY <2>7, <3>1, <3>2 DEF UnhandledError, lockFile, TypeOK
    <2>8. CASE ProcessEnds(p) \/ FactoryReset(p)
      <3>1. /\ Ends(p) /\ UNCHANGED <<guard, autostart, past>>
            /\ registered' \in BOOLEAN
        BY <2>8 DEF ProcessEnds, FactoryReset, TypeOK
      <3>2. /\ proc' \in [Process -> ProcShape]
            /\ holder' \in Process \cup {NoProcess}
            /\ recorded' \in Process \cup {NoProcess, Gone}
            /\ UiOwnsLock'
        BY <3>1, EndKeepsLock
      <3>3. Counters'
        BY <3>1, CountsUnaffected
      <3> QED BY <3>1, <3>2, <3>3 DEF TypeOK
    <2> QED
      BY <2>1, <2>2, <2>3, <2>4, <2>5, <2>6, <2>7, <2>8
      DEF ProcessStep, StartupStep
  <1> QED
    BY <1>a, <1>b, <1>c DEF Next

------------------------------------------------------------------------------

\* Every reachable state satisfies the inductive invariant.
LEMMA Invariance == Spec => []IInv
  BY InitIInv, NextIInv, PTL DEF Spec

\* Type correctness.
THEOREM TypeCorrect == Spec => []TypeOK
  <1>1. IInv => TypeOK
    BY DEF IInv
  <1> QED BY Invariance, <1>1, PTL

\* However many processes are started, and wherever each of them is cut off between
\* opening the lock file and recording its PID, at most one shows the UI, and the
\* file records that one.
THEOREM OneInstanceAtATime == Spec => []OneInstance
  <1>1. IInv => OneInstance
    BY DEF IInv, UiOwnsLock, HasLock, At, OneInstance
  <1> QED BY Invariance, <1>1, PTL

\* The registry guard counts the launches in progress.
THEOREM GuardCountsLaunches == Spec => []GuardCounts
  <1>1. IInv => GuardCounts
    BY DEF IInv, Counters
  <1> QED BY Invariance, <1>1, PTL

\* Only BeginLaunch moves a process from boot to another place than off.
LEMMA LeavesBoot ==
    ASSUME IInv, [Next]_vars, NEW p \in Process,
           At(p, "boot"), proc'[p].pc \notin {"boot", "off"}
    PROVE  BeginLaunch(p)
  <1>1. ~UNCHANGED vars /\ ~TenMinutesPass
    BY DEF vars, TenMinutesPass, At
  <1>2. PICK q \in Process : ProcessStep(q)
    BY <1>1 DEF Next
  <1>3. \A r : proc' = [proc EXCEPT ![q] = r] => p = q
    BY DEF IInv, TypeOK, At
  <1>4. CASE Start(q) \/ AutoRecover(q) \/ Retry(q) \/ PhaseFails(q)
             \/ Configure(q) \/ LifecycleCompletes(q)
    <2>1. p = q
      BY <1>4, <1>3 DEF Start, AutoRecover, Retry, PhaseFails, Configure,
                        LifecycleCompletes, Goto, IInv, TypeOK, At
    <2> QED
      BY <1>4, <2>1 DEF Start, AutoRecover, Retry, PhaseFails, Configure,
                        LifecycleCompletes, At
  <1>9. CASE LockStep(q)
    <2>1. ~At(q, "boot")
      BY <1>9 DEF LockStep, OpenLock, TakeLock, ClearLock, RecordPid, WriteFails,
                  FirstDenied, PollDenied, DeleteStale, At
    <2>2. \E r : proc' = [proc EXCEPT ![q] = r]
      BY <1>9 DEF LockStep, OpenLock, TakeLock, ClearLock, RecordPid, WriteFails,
                  FirstDenied, PollDenied, DeleteStale, LastDenied, PollNext, Ends,
                  Goto, IInv, TypeOK
    <2> QED BY <2>1, <2>2, <1>3
  <1>5. CASE Register(q) \/ IdleScreen(q)
    BY <1>5 DEF Register, IdleScreen, At
  <1>6. CASE FactoryReset(q) \/ ProcessEnds(q)
    BY <1>6 DEF FactoryReset, ProcessEnds, Ends, IInv, TypeOK, At, Off
  <1>7. CASE UnhandledError(q)
    BY <1>7 DEF UnhandledError, At
  <1>8. CASE BeginLaunch(q)
    BY <1>8, <1>3 DEF BeginLaunch, Goto, IInv, TypeOK, At
  <1> QED
    BY <1>2, <1>4, <1>5, <1>6, <1>7, <1>8, <1>9 DEF ProcessStep, StartupStep

\* A crash loop is detected only after MaxFailed launches that began and of which
\* none reported: no healthy sequence of launches disables the auto-start.
THEOREM SoundDetection == Spec => DetectionSound
  <1>1. IInv /\ [Next]_vars =>
          [\A p \in Process : Detects(p) => past.begun >= MaxFailed]_vars
    <2> SUFFICES ASSUME IInv, [Next]_vars, NEW p \in Process, Detects(p)
                 PROVE  past.begun >= MaxFailed
      OBVIOUS
    <2>1. BeginLaunch(p)
      BY LeavesBoot DEF Detects
    <2>2. proc'[p].pc = "crashLoop"
      BY DEF Detects
    <2>3. InCrashLoop(AutoStarted(p), FailedAtBegin(guard))
      <3>1. Goto(p, "validation") => proc'[p].pc = "validation"
        BY DEF Goto, IInv, TypeOK, ProcShape
      <3> QED BY <2>1, <2>2, <3>1 DEF BeginLaunch
    <2>4. /\ guard.failed \in Nat /\ past.begun \in Nat
          /\ MaxFailed \in Nat /\ MaxFailed > 0
      BY BootAssumption DEF IInv, TypeOK, GuardShape, PastShape
    <2>5. FailedAtBegin(guard) >= MaxFailed
      BY <2>3 DEF InCrashLoop
    <2> QED
      BY <2>4, <2>5 DEF FailedAtBegin, IInv, Counters, GuardCounts
  <1> QED BY Invariance, <1>1, PTL DEF Spec, DetectionSound

\* The other direction: MaxFailed launches that never reported, in quick
\* succession and without a caught error, are noticed at the next auto-start.
THEOREM CompleteDetection == Spec => CrashLoopCaught
  <1> DEFINE Caught(p) ==
        /\ At(p, "boot") /\ ~(At(p, "boot"))'
        /\ proc'[p].pc # "off"
        /\ AutoStarted(p) /\ past.begun >= MaxFailed /\ ~past.gap /\ past.errors = 0
        => Detects(p)
  <1>1. IInv /\ [Next]_vars => [\A p \in Process : Caught(p)]_vars
    <2> SUFFICES ASSUME IInv, [Next]_vars, NEW p \in Process,
                        At(p, "boot"), ~(At(p, "boot"))', proc'[p].pc # "off",
                        AutoStarted(p), past.begun >= MaxFailed, ~past.gap,
                        past.errors = 0
                 PROVE  Detects(p)
      OBVIOUS
    <2>1. BeginLaunch(p)
      BY LeavesBoot DEF At
    <2>2. /\ guard.failed \in Nat /\ past.begun \in Nat
          /\ MaxFailed \in Nat /\ MaxFailed > 0
      BY BootAssumption DEF IInv, TypeOK, GuardShape, PastShape
    <2>3. guard.inProgress /\ guard.recent /\ guard.failed = past.begun - 1
      BY <2>2 DEF IInv, Counters, GuardCounts, GuardRemembers
    <2>4. FailedAtBegin(guard) = past.begun
      BY <2>2, <2>3 DEF FailedAtBegin
    <2>5. InCrashLoop(AutoStarted(p), FailedAtBegin(guard))
      BY <2>2, <2>4 DEF InCrashLoop
    <2>6. Goto(p, "crashLoop")
      BY <2>1, <2>5 DEF BeginLaunch
    <2>7. proc'[p].pc = "crashLoop"
      BY <2>6 DEF Goto, IInv, TypeOK, ProcShape
    <2> QED BY <2>7 DEF Detects
  <1> QED BY Invariance, <1>1, PTL DEF Spec, CrashLoopCaught
==============================================================================
