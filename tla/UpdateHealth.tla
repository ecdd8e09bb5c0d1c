---------------------------- MODULE UpdateHealth ----------------------------
(***************************************************************************)
(* UpdateHealthMonitor: the backup taken before an update, the observation *)
(* window of a new version and the count of successful starts that closes  *)
(* it, together with the parts of the update pipeline and of the           *)
(* background protocols that call it.                                      *)
(*                                                                         *)
(* The record is kept in memory and in update_health.json.  Both are       *)
(* changed by startBackgroundProtocols, which the idle screen runs each    *)
(* time it is shown, and by the update pipeline; their awaits interleave.  *)
(* A version is written to the file without its build number.  Writing the *)
(* file succeeds here; the code logs and ignores a failure.                *)
(***************************************************************************)
EXTENDS Integers

CONSTANTS
    RequiredStarts,   \* _requiredStableStarts
    MaxVersion,       \* bound: versions ever installed, numbered from 1
    MaxProtocols      \* bound: startBackgroundProtocols calls at the same time

ASSUME HealthAssumption ==
    /\ RequiredStarts \in Nat \ {0}
    /\ MaxVersion \in Nat \ {0}
    /\ MaxProtocols \in Nat \ {0}

VARIABLES
    tagged,      \* the running version carries a build number
    installed,   \* the version in the application directory
    up,          \* the application runs
    mem,         \* the record in memory
    file,        \* update_health.json
    dir,         \* the backup directory of each version
    pipe,        \* what the update pipeline does
    protocols,   \* startBackgroundProtocols calls between init and the mark
    marks,       \* history: marks, of any run, since the last backup or version change
    launches     \* history: launches among those marks, and whether this one is

vars == <<tagged, installed, up, mem, file, dir, pipe, protocols, marks, launches>>

Version == 1..MaxVersion

\* Version.zero and "no backup path" are 0.  "rollingBack" and "failed" are not among
\* the statuses: handleCrashLoopDetected, which would set the first, has no caller.
Record == [previous : 0..MaxVersion, status : {"stable", "pending"},
           starts : 0..RequiredStarts, backup : 0..MaxVersion]
NoRecord == [previous |-> 0, status |-> "stable", starts |-> 0, backup |-> 0]

NoLaunch == [n |-> 0, counted |-> FALSE]

TypeOK ==
    /\ tagged \in BOOLEAN
    /\ installed \in Version
    /\ up \in BOOLEAN
    /\ mem \in Record
    /\ file \in Record
    /\ dir \in [Version -> {"none", "partial", "complete"}]
    /\ pipe \in {"idle", "copy", "copied", "download", "handoff", "installing"}
    /\ protocols \in 0..MaxProtocols
    /\ marks \in 0..RequiredStarts
    /\ launches \in [n : 0..RequiredStarts, counted : BOOLEAN]

Init ==
    /\ tagged \in BOOLEAN
    /\ installed = 1
    /\ up = FALSE
    /\ mem = NoRecord /\ file = NoRecord
    /\ dir = [v \in Version |-> "none"]
    /\ pipe = "idle"
    /\ protocols = 0
    /\ marks = 0 /\ launches = NoLaunch

\* The code counts on; from RequiredStarts it compares no two counts any more, and
\* the model stops there.
UpTo(n) == IF n < RequiredStarts THEN n + 1 ELSE n

\* _cleanupBackup, on the record r.
DirAfterCleanup(r) ==
    IF r.backup = 0 THEN dir ELSE [dir EXCEPT ![r.backup] = "none"]

------------------------------------------------------------------------------
(* The process *)

Start ==
    /\ ~up /\ pipe # "installing"
    /\ up' = TRUE
    /\ launches' = [launches EXCEPT !.counted = FALSE]
    /\ UNCHANGED <<tagged, installed, mem, file, dir, pipe, protocols, marks>>

Dies(next) ==
    /\ up' = FALSE
    /\ mem' = NoRecord
    /\ pipe' = next
    /\ protocols' = 0
    /\ UNCHANGED <<tagged, installed, file, dir, marks, launches>>

Crash == up /\ Dies("idle")

------------------------------------------------------------------------------
(* startBackgroundProtocols *)

\* The record was saved without the build number of the version.
IsNewVersion_Never(r) == FALSE
IsNewVersion(r) == r.previous # 0 /\ (tagged \/ r.previous # installed)

\* init: the record is loaded; a version change restarts the observation window; a
\* backup left by a stable version is deleted (which is not saved here).
InitHealth ==
    /\ up /\ protocols < MaxProtocols
    /\ protocols' = protocols + 1
    /\ \/ /\ IsNewVersion(file)
          /\ file' = [file EXCEPT !.status = "pending", !.starts = 0]
          /\ mem' = file'
          /\ marks' = 0
          /\ UNCHANGED dir
       \/ /\ ~IsNewVersion(file)
          /\ IF file.status = "stable"
                THEN mem' = [file EXCEPT !.backup = 0] /\ dir' = DirAfterCleanup(file)
                ELSE mem' = file /\ UNCHANGED dir
          /\ UNCHANGED <<file, marks>>
    /\ UNCHANGED <<tagged, installed, up, pipe, launches>>

\* markStartupSuccessful.
ReachesStable_OneShort(n) == n + 1 >= RequiredStarts
ReachesStable(n) == n >= RequiredStarts

MarkStartup ==
    LET starts == UpTo(mem.starts) IN
    /\ protocols > 0
    /\ protocols' = protocols - 1
    /\ IF ReachesStable(starts)
          THEN /\ mem' = [mem EXCEPT !.starts = starts, !.status = "stable", !.backup = 0]
               /\ dir' = DirAfterCleanup(mem)
          ELSE /\ mem' = [mem EXCEPT !.starts = starts]
               /\ UNCHANGED dir
    /\ file' = mem'
    /\ marks' = UpTo(marks)
    /\ launches' = IF launches.counted THEN launches
                   ELSE [n |-> UpTo(launches.n), counted |-> TRUE]
    /\ UNCHANGED <<tagged, installed, up, pipe>>

\* One of the services started in between throws, or the call was made by the
\* recovery screen, which does not mark anything.
ProtocolsFail ==
    /\ protocols > 0
    /\ protocols' = protocols - 1
    /\ UNCHANGED <<tagged, installed, up, mem, file, dir, pipe, marks, launches>>

------------------------------------------------------------------------------
(* The update pipeline *)

\* preserveCurrentInstall: a backup of this version that is already there is deleted
\* and the copying starts.
BeginBackup ==
    /\ up /\ pipe = "idle" /\ installed < MaxVersion
    /\ pipe' = "copy"
    /\ dir' = [dir EXCEPT ![installed] = "partial"]
    /\ UNCHANGED <<tagged, installed, up, mem, file, protocols, marks, launches>>

\* The last file was copied, or an error ends the update.  When the directory was
\* deleted meanwhile, copying a file fails, and copying a subdirectory creates it
\* again.
EndCopy ==
    /\ pipe = "copy"
    /\ \/ /\ pipe' = "copied"
          /\ dir' = [dir EXCEPT ![installed] = IF @ = "partial" THEN "complete" ELSE "partial"]
       \/ pipe' = "idle" /\ UNCHANGED dir
    /\ UNCHANGED <<tagged, installed, up, mem, file, protocols, marks, launches>>

\* The record of a backup that was made.
Preserved_RollingBack(v) ==
    [previous |-> v, status |-> "rollingBack", starts |-> 0, backup |-> v]
Preserved(v) == [previous |-> v, status |-> "pending", starts |-> 0, backup |-> v]

RecordBackup ==
    /\ pipe = "copied"
    /\ pipe' = "download"
    /\ mem' = Preserved(installed)
    /\ file' = mem'
    /\ marks' = 0 /\ launches' = NoLaunch
    /\ UNCHANGED <<tagged, installed, up, dir, protocols>>

EndDownload ==
    /\ pipe = "download"
    /\ pipe' \in {"handoff", "idle"}
    /\ UNCHANGED <<tagged, installed, up, mem, file, dir, protocols, marks, launches>>

\* The agent was launched; the process exits two seconds later.
Leave == pipe = "handoff" /\ Dies("installing")

\* What UpdateAgent.tla is about.
Install ==
    /\ pipe = "installing"
    /\ pipe' = "idle"
    /\ \/ /\ installed' = installed + 1
          /\ marks' = 0 /\ launches' = NoLaunch
       \/ UNCHANGED <<installed, marks, launches>>
    /\ UNCHANGED <<tagged, up, mem, file, dir, protocols>>

Next ==
    \/ Start \/ Crash
    \/ InitHealth \/ MarkStartup \/ ProtocolsFail
    \/ BeginBackup \/ EndCopy \/ RecordBackup \/ EndDownload \/ Leave \/ Install

Spec == Init /\ [][Next]_vars

------------------------------------------------------------------------------
(* Properties that hold *)

\* The observation window closes, and the rollback backup is given up, only after
\* RequiredStarts calls of markStartupSuccessful that came after the backup was made
\* or the version changed: none of an earlier window counts, whatever crashed or
\* overlapped.  Calls, not launches: each display of the idle screen makes one.
StableEarned ==
    [][file.status = "pending" /\ file'.status = "stable" => marks' >= RequiredStarts]_vars

\* phase1_validation_test.dart, "version change is detected for crash-loop
\* monitoring": the first start of a new version opens its observation window.
NewVersionObserved ==
    protocols > 0 /\ file.previous # 0 /\ file.previous # installed /\ marks = 0
        => file.status = "pending"

------------------------------------------------------------------------------
(* Claims of the sources that the code does not keep *)

\* update_health_monitor.dart: "After 3 successful starts of the new version, the
\* backup is deleted and the version is marked stable".
StableAfterStarts ==
    file.previous \notin {0, installed} /\ launches.n = RequiredStarts
        => file.status = "stable"

\* update_health_monitor.dart: "requires N consecutive successful launches before
\* marking a version as "stable" and deleting the backup".
StableByLaunches ==
    [][file.status = "pending" /\ file'.status = "stable" => launches'.n >= RequiredStarts]_vars

\* update_health_monitor.dart: "never update without a recoverable backup".
HandoffBackedUp == pipe = "handoff" => dir[installed] = "complete"
==============================================================================
