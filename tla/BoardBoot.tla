------------------------------ MODULE BoardBoot ------------------------------
(***************************************************************************)
(* Starting the smart board: the registry guard that detects an auto-start *)
(* crash loop (StartupService), the phases of the lifecycle                *)
(* (AppLifecycleManager), the recovery screen (RecoveryManager) and the    *)
(* single-instance lock (main.dart), whose file is opened, locked, emptied *)
(* and given a PID in steps of their own.                                  *)
(*                                                                         *)
(* The guard, the Run value that makes Windows start the board, and the    *)
(* lock file are shared by every process of the board: a second process is *)
(* started by a double click, by Windows at sign-in or by the update agent *)
(* while the first one still runs.  A process may end at any step.         *)
(***************************************************************************)
EXTENDS Integers, FiniteSets

CONSTANTS
    Process,      \* process slots
    NoProcess,    \* "nobody": a free lock, an empty lock file
    Gone,         \* a process that has ended
    MaxFailed,    \* StartupService._maxFailedAutoStarts
    MaxPolls,     \* polls of the lock that fit into the wait after an update
    MaxLaunches,  \* bound: launches begun since the last completed one
    MaxErrors     \* bound: unhandled errors since the last completed launch

ASSUME BootAssumption ==
    /\ NoProcess \notin Process
    /\ Gone \notin Process \cup {NoProcess}
    /\ MaxFailed \in Nat \ {0}
    /\ MaxPolls \in Nat \ {0}
    /\ MaxLaunches \in Nat
    /\ MaxErrors \in Nat

VARIABLES
    guard,       \* HKCU\...\StartupGuard
    autostart,   \* the Run value exists: Windows starts the board at sign-in
    registered,  \* the board has a registration in Isar
    holder,      \* the running process that has the lock on the lock file
    recorded,    \* whose PID the lock file contains
    proc,        \* the processes
    past         \* history: what happened since the last completed launch

lockFile == <<holder, recorded>>
vars == <<guard, autostart, registered, lockFile, proc, past>>

GuardShape == [inProgress : BOOLEAN,   \* LaunchInProgress
               failed : Nat,           \* FailedLaunches
               recent : BOOLEAN]       \* LastStartedAt is at most ten minutes ago

\* Where main() of a process is; the second row is _acquireSingleInstanceLock.
Pc == {"off", "boot", "crashLoop", "validation", "database", "failed", "ui"}
        \cup {"ready", "opened", "locked", "cleared", "denied", "stale"}

\* The attempts of tryAcquire: 0 is the first, MaxPolls the last.
Attempt == 0 .. MaxPolls

ProcShape == [pc : Pc,
              arg : {"none", "autostart", "postUpdate"},  \* of main
              completed : BOOLEAN,      \* AppLifecycleManager._completed
              attempt : Attempt]

PastShape == [begun : Nat,        \* launches that began
              gap : BOOLEAN,      \* ten minutes passed with one of them begun
              errors : Nat]       \* unhandled errors

TypeOK ==
    /\ guard \in GuardShape
    /\ autostart \in BOOLEAN
    /\ registered \in BOOLEAN
    /\ holder \in Process \cup {NoProcess}
    /\ recorded \in Process \cup {NoProcess, Gone}
    /\ proc \in [Process -> ProcShape]
    /\ past \in PastShape

------------------------------------------------------------------------------

Off == [pc |-> "off", arg |-> "none", completed |-> FALSE, attempt |-> 0]

NothingPast == [begun |-> 0, gap |-> FALSE, errors |-> 0]

\* An installed board before its first start; the installer wrote the Run value.
Init ==
    /\ guard = [inProgress |-> FALSE, failed |-> 0, recent |-> FALSE]
    /\ autostart = TRUE
    /\ registered = FALSE
    /\ holder = NoProcess
    /\ recorded = NoProcess
    /\ proc = [p \in Process |-> Off]
    /\ past = NothingPast

At(p, pc) == proc[p].pc = pc

AutoStarted(p) == proc[p].arg = "autostart"

Goto(p, pc) == proc' = [proc EXCEPT ![p].pc = pc]

\* markLaunchCompleted: the launch in progress, whoever began it, is over.
Completed_KeepsGuard(g) == g
Completed(g) == [g EXCEPT !.inProgress = FALSE, !.failed = 0]

MarkLaunchCompleted ==
    /\ guard' = Completed(guard)
    /\ past' = NothingPast

\* beginLaunch, the count of failed launches.
FailedAtBegin_NoReset(g) == IF g.inProgress /\ g.recent THEN g.failed + 1 ELSE g.failed
FailedAtBegin_Decrement(g) ==
    IF g.inProgress /\ g.recent THEN g.failed - 1 ELSE IF ~g.inProgress THEN 0 ELSE g.failed
FailedAtBegin(g) ==
    IF g.inProgress THEN IF g.recent THEN g.failed + 1 ELSE g.failed ELSE 0

InCrashLoop_OffByOne(auto, failed) == auto /\ failed > MaxFailed
InCrashLoop(auto, failed) == auto /\ failed >= MaxFailed

------------------------------------------------------------------------------

Booting == {p \in Process : At(p, "boot")}

\* Somebody starts a process: the user or, with --intelliattend-autostart, Windows
\* at sign-in (if the Run value is there) and the update agent.  main reads
\* --post-update too, which no program of the repository passes.
Start(p) ==
    /\ At(p, "off")
    /\ past.begun + Cardinality(Booting) < MaxLaunches
    /\ \E arg \in {"none", "autostart", "postUpdate"} :
         proc' = [proc EXCEPT ![p] = [Off EXCEPT !.pc = "boot", !.arg = arg]]
    /\ UNCHANGED <<guard, autostart, registered, lockFile, past>>

\* The RECOVERY phase: beginLaunch.  A crash loop disables the auto-start, ends
\* the launch and shows the recovery screen instead of the other phases.
BeginLaunch(p) ==
    /\ At(p, "boot")
    /\ LET failed == FailedAtBegin(guard)
           begun  == [inProgress |-> TRUE, failed |-> failed, recent |-> TRUE]
       IN  \/ /\ InCrashLoop(AutoStarted(p), failed)
              /\ autostart' = FALSE
              /\ guard' = Completed(begun)
              /\ past' = NothingPast
              /\ Goto(p, "crashLoop")
           \/ /\ ~InCrashLoop(AutoStarted(p), failed)
              /\ guard' = begun
              /\ past' = [past EXCEPT !.begun = @ + 1]
              /\ Goto(p, "validation")
              /\ UNCHANGED autostart
    /\ UNCHANGED <<registered, lockFile>>

\* Automatic recovery of a crash loop marks the launch completed and, two
\* seconds later, calls main() again with the arguments of the first call.
AutoRecover(p) ==
    /\ At(p, "crashLoop")
    /\ MarkLaunchCompleted
    /\ Goto(p, "boot")
    /\ UNCHANGED <<autostart, registered, lockFile>>

\* VALIDATION and then CONFIGURATION, which writes the Run value.
Configure(p) ==
    /\ At(p, "validation")
    /\ autostart' = TRUE
    /\ Goto(p, "database")
    /\ UNCHANGED <<guard, registered, lockFile, past>>

\* VALIDATION finds altered files, or DATABASE throws: the recovery screen, which
\* leaves the launch in progress.
PhaseFails(p) ==
    /\ proc[p].pc \in {"validation", "database"}
    /\ Goto(p, "failed")
    /\ UNCHANGED <<guard, autostart, registered, lockFile, past>>

\* RecoveryManager.retry, from a button of the recovery screen.
Retry(p) ==
    /\ At(p, "failed")
    /\ MarkLaunchCompleted
    /\ Goto(p, "boot")
    /\ UNCHANGED <<autostart, registered, lockFile>>

\* DATABASE, WINDOW, and the end of the lifecycle; whether Windows started the
\* process is not asked again.
LifecycleCompletes(p) ==
    /\ At(p, "database")
    /\ proc' = [proc EXCEPT ![p].pc = "ready", ![p].completed = TRUE,
                            ![p].arg = IF AutoStarted(p) THEN "none" ELSE @]
    /\ UNCHANGED <<guard, autostart, registered, lockFile, past>>

------------------------------------------------------------------------------
(* onReady: _acquireSingleInstanceLock *)

\* tryAcquire opens the file in append mode, which keeps the PID in it, ...
PidAfterOpen_Truncated(pid) == NoProcess
PidAfterOpen(pid) == pid

OpenLock(p) ==
    /\ At(p, "ready")
    /\ \/ Goto(p, "opened") /\ recorded' = PidAfterOpen(recorded)
       \/ Goto(p, "denied") /\ UNCHANGED recorded
    /\ UNCHANGED holder

\* ... asks the operating system for the exclusive lock without waiting for it
\* (refused while another process has it, or while the lock of a dead one is not
\* released yet), ...
TakeLock(p) ==
    /\ At(p, "opened")
    /\ \/ holder = NoProcess /\ holder' = p /\ Goto(p, "locked")
       \/ Goto(p, "denied") /\ UNCHANGED holder
    /\ UNCHANGED recorded

\* ... empties the file ...
ClearLock(p) ==
    /\ At(p, "locked")
    /\ Goto(p, "cleared")
    /\ recorded' = NoProcess
    /\ UNCHANGED holder

\* ... and writes its own PID; what follows is the UI, and nothing reads the
\* arguments of the start any more.
RecordPid(p) ==
    /\ At(p, "cleared")
    /\ proc' = [proc EXCEPT ![p] = [Off EXCEPT !.pc = "ui", !.completed = TRUE]]
    /\ recorded' = p
    /\ UNCHANGED holder

\* One of the writes to the locked file throws: closing the file gives up the lock.
WriteFails(p) ==
    /\ proc[p].pc \in {"locked", "cleared"}
    /\ recorded' \in {recorded} \cup (IF At(p, "cleared") THEN {p} ELSE {})
    /\ holder' = NoProcess
    /\ Goto(p, "denied")

\* The process is over.  What it recorded is now the PID of a dead process.
Ends(p) ==
    /\ proc' = [proc EXCEPT ![p] = Off]
    /\ holder' = IF holder = p THEN NoProcess ELSE holder
    /\ recorded' = IF recorded = p THEN Gone ELSE recorded

PollNext(p) ==
    /\ proc' = [proc EXCEPT ![p].pc = "ready", ![p].attempt = @ + 1]
    /\ UNCHANGED lockFile

\* The first attempt failed.  A PID that is read and that tasklist finds (or cannot
\* ask for, or another program has by now) is of a running board: exit, or wait
\* for it after an update.  A file that cannot be read, holds no PID or that of a
\* dead process is stale.
FirstDenied(p) ==
    /\ At(p, "denied") /\ proc[p].attempt = 0
    /\ \/ Goto(p, "stale") /\ UNCHANGED lockFile
       \/ recorded # NoProcess /\ proc[p].arg # "postUpdate" /\ Ends(p)
       \/ recorded # NoProcess /\ proc[p].arg = "postUpdate" /\ PollNext(p)

\* After an update the lock is polled every half second, for eight seconds.
PollDenied(p) ==
    /\ At(p, "denied") /\ proc[p].attempt \in 1 .. MaxPolls - 1
    /\ PollNext(p) \/ Ends(p)

\* A stale file is deleted before the last attempt.  Windows deletes no file that a
\* running process has open; a failure is logged.
HasOpen(p) == proc[p].pc \in {"opened", "locked", "cleared", "ui"}

DeleteStale(p) ==
    /\ At(p, "stale")
    /\ proc' = [proc EXCEPT ![p].pc = "ready", ![p].attempt = MaxPolls]
    /\ \/ UNCHANGED lockFile
       \/ /\ \A q \in Process : ~HasOpen(q)
          /\ recorded' = NoProcess
          /\ UNCHANGED holder

\* Without the lock there is no UI.
LastDenied_Continues(p) == Goto(p, "ui") /\ UNCHANGED lockFile
LastDenied(p) == Ends(p)

LockStep(p) ==
    /\ \/ OpenLock(p) \/ TakeLock(p) \/ ClearLock(p) \/ RecordPid(p) \/ WriteFails(p)
       \/ FirstDenied(p) \/ PollDenied(p) \/ DeleteStale(p)
       \/ At(p, "denied") /\ proc[p].attempt = MaxPolls /\ LastDenied(p)
    /\ UNCHANGED <<guard, autostart, registered, past>>

------------------------------------------------------------------------------
(* The UI *)

\* The registration screen binds the board, writes the Run value and starts the
\* background protocols, which report the launch.
Register(p) ==
    /\ At(p, "ui") /\ ~registered
    /\ registered' = TRUE
    /\ autostart' = TRUE
    /\ MarkLaunchCompleted
    /\ UNCHANGED <<lockFile, proc>>

\* The idle screen of a registered board is shown, at boot and again after every
\* session: startBackgroundProtocols reports the launch whatever it met.
IdleScreen(p) ==
    /\ At(p, "ui") /\ registered
    /\ MarkLaunchCompleted
    /\ UNCHANGED <<autostart, registered, lockFile, proc>>

\* An error nobody caught, before the lifecycle is complete: markLaunchFailed.
MarkLaunchFailed ==
    /\ guard' = [guard EXCEPT !.inProgress = FALSE, !.failed = @ + 1]
    /\ autostart' = (autostart /\ guard.failed + 1 < MaxFailed)
    /\ past' = [past EXCEPT !.errors = @ + 1]

UnhandledError(p) ==
    /\ ~At(p, "off") /\ ~proc[p].completed
    /\ past.errors < MaxErrors
    /\ MarkLaunchFailed
    /\ UNCHANGED <<registered, lockFile, proc>>

\* The process ends, by a crash, a power cut, an exit or its window being closed.
ProcessEnds(p) ==
    /\ ~At(p, "off")
    /\ Ends(p)
    /\ UNCHANGED <<guard, autostart, registered, past>>

TenMinutesPass ==
    /\ guard.recent
    /\ guard' = [guard EXCEPT !.recent = FALSE]
    /\ past' = [past EXCEPT !.gap = past.begun > 0]
    /\ UNCHANGED <<autostart, registered, lockFile, proc>>

\* Factory reset, from the settings screen: the registration is deleted and the
\* process exits.
FactoryReset(p) ==
    /\ At(p, "ui") /\ registered
    /\ registered' = FALSE
    /\ Ends(p)
    /\ UNCHANGED <<guard, autostart, past>>

StartupStep(p) ==
    \/ BeginLaunch(p)
    \/ AutoRecover(p)
    \/ Configure(p)
    \/ LifecycleCompletes(p)
    \/ LockStep(p)

ProcessStep(p) ==
    \/ StartupStep(p)
    \/ Start(p)
    \/ PhaseFails(p)
    \/ Retry(p)
    \/ Register(p)
    \/ IdleScreen(p)
    \/ UnhandledError(p)
    \/ FactoryReset(p)
    \/ ProcessEnds(p)

Next == TenMinutesPass \/ \E p \in Process : ProcessStep(p)

Spec == Init /\ [][Next]_vars

\* The steps of a startup follow each other without waiting for anyone (for the
\* lock they wait with a deadline).
FairSpec == Spec /\ \A p \in Process : WF_vars(StartupStep(p))

------------------------------------------------------------------------------
(* Properties that hold *)

\* Only one process of the board ever shows the UI (two would share the Isar
\* database, the secure storage and the kiosk window), and its PID stays in the
\* lock file for the next start to find: wherever earlier starts were cut off,
\* however stale the file they left, and whatever later starts do to it.
OneInstance ==
    /\ \A p, q \in Process : At(p, "ui") /\ At(q, "ui") => p = q
    /\ \A p \in Process : At(p, "ui") => recorded = p

\* Two facts about the guard: while a launch is in progress its failure count is
\* below the launches begun, and equal to one less if nothing disturbed them.
GuardCounts ==
    guard.inProgress =>
        /\ guard.failed < past.begun
        /\ ~past.gap /\ past.errors = 0 => guard.failed = past.begun - 1

Detects(p) == At(p, "boot") /\ proc'[p].pc = "crashLoop"

\* A crash loop is reported, and the auto-start disabled for it, only when at
\* least MaxFailed launches began since the last one that reported completion.
DetectionSound ==
    [][\A p \in Process : Detects(p) => past.begun >= MaxFailed]_vars

\* MaxFailed launches that began and never reported, within ten minutes of each
\* other and without a caught error, are always noticed at the next auto-start.
CrashLoopCaught ==
    [][\A p \in Process :
         /\ At(p, "boot") /\ ~(At(p, "boot"))'
         /\ proc'[p].pc # "off"
         /\ AutoStarted(p) /\ past.begun >= MaxFailed /\ ~past.gap /\ past.errors = 0
         => Detects(p)]_vars

\* The recovery of a crash loop ends in the UI, an exit or the screen of a failed
\* phase; it does not detect itself and recover for ever (unless another process
\* of the board is started meanwhile).
RecoveryEnds ==
    \A p \in Process :
        At(p, "crashLoop") ~> \/ proc[p].pc \in {"ui", "failed", "off"}
                              \/ \E q \in Process \ {p} : ~At(q, "off")

------------------------------------------------------------------------------
(* A claim of the sources that the code does not keep *)

\* beginLaunch "detects the auto-start crash loop where Windows keeps reopening a
\* build that dies before kiosk mode can recover", also when it dies of an error
\* that reached the zone handler.
ErrorLoopCaught ==
    [][\A p \in Process :
         /\ At(p, "boot") /\ proc'[p].pc = "validation"
         /\ AutoStarted(p) /\ past.begun >= MaxFailed /\ ~past.gap
         => Detects(p)]_vars
==============================================================================
