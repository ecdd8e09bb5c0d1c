------------------------- MODULE UpdateHealth_proofs -------------------------
(***************************************************************************)
(* Proofs about UpdateHealth, for any number of required starts, versions  *)
(* and overlapping runs of the background protocols.                       *)
(*                                                                         *)
(* StableEarned rests on three facts that no single method establishes:    *)
(*   - MemIsFile: once a run of the protocols has loaded the record, the   *)
(*     memory and the file agree on the window, whatever interleaves;      *)
(*   - UpdateRecorded: from the backup to the installation the file names  *)
(*     the version that is being replaced;                                 *)
(*   - StartsMarked: the starts in the file were all marked in the current *)
(*     window, unless the version changed and no run has noticed yet.      *)
(***************************************************************************)
EXTENDS UpdateHealth, TLAPS

MemIsFile ==
    protocols > 0 =>
        /\ up
        /\ mem.previous = file.previous
        /\ mem.status = file.status
        /\ mem.starts = file.starts

UpdateRecorded ==
    /\ pipe \in {"download", "handoff", "installing"} => file.previous = installed
    /\ pipe = "installing" => ~up
    /\ pipe # "idle" => installed < MaxVersion

Unnoticed == file.previous # 0 /\ file.previous # installed /\ protocols = 0

StartsMarked ==
    file.status = "pending" => file.starts <= marks \/ Unnoticed

IInv ==
    /\ TypeOK
    /\ MemIsFile
    /\ UpdateRecorded
    /\ StartsMarked
    /\ NewVersionObserved

------------------------------------------------------------------------------

\* The values at which everything starts are in range.
LEMMA Zeros ==
    /\ 0 \in 0..RequiredStarts /\ 0 \in 0..MaxVersion /\ 0 \in 0..MaxProtocols
    /\ \A v \in Version : v \in 0..MaxVersion /\ v # 0
    /\ NoRecord \in Record
    /\ NoLaunch \in [n : 0..RequiredStarts, counted : BOOLEAN]
  <1>1. /\ 0 \in 0..RequiredStarts /\ 0 \in 0..MaxVersion /\ 0 \in 0..MaxProtocols
        /\ \A v \in Version : v \in 0..MaxVersion /\ v # 0
    BY HealthAssumption DEF Version
  <1> QED
    BY <1>1 DEF NoRecord, Record, NoLaunch

\* Counts stay in range, grow, and keep their order.
LEMMA Counting ==
    ASSUME NEW m \in 0..RequiredStarts, NEW n \in 0..RequiredStarts
    PROVE  /\ UpTo(n) \in 0..RequiredStarts
           /\ UpTo(n) # 0
           /\ m <= n => UpTo(m) <= UpTo(n)
  BY HealthAssumption DEF UpTo

\* Deleting the backup of a record keeps the directories well-formed.
LEMMA CleanupType ==
    ASSUME TypeOK, NEW r \in Record
    PROVE  DirAfterCleanup(r) \in [Version -> {"none", "partial", "complete"}]
  <1>1. CASE r.backup = 0
    BY <1>1 DEF TypeOK, DirAfterCleanup
  <1>2. CASE r.backup # 0
    <2>1. r.backup \in Version
      BY <1>2, HealthAssumption DEF Record, Version
    <2> QED
      BY <1>2, <2>1 DEF TypeOK, DirAfterCleanup
  <1> QED
    BY <1>1, <1>2

\* The process ends and its memory is lost.
LEMMA DeathKeeps ==
    ASSUME IInv, NEW next \in {"idle", "installing"}, Dies(next),
           next = "installing" => pipe = "handoff"
    PROVE  IInv'
  <1>2. TypeOK'
    BY Zeros DEF IInv, Dies, TypeOK
  <1>3. MemIsFile' /\ UpdateRecorded' /\ NewVersionObserved'
    BY DEF IInv, Dies, MemIsFile, UpdateRecorded, NewVersionObserved
  <1>4. StartsMarked'
    BY DEF IInv, Dies, StartsMarked, Unnoticed, TypeOK
  <1> QED
    BY <1>2, <1>3, <1>4 DEF IInv

\* A step that leaves the record, the counts and the versions alone.
LEMMA RecordStays ==
    ASSUME IInv, TypeOK', UNCHANGED <<installed, mem, file, marks>>,
           protocols' = protocols \/ (up' /\ up /\ protocols' < protocols),
           up' = up \/ protocols = 0,
           pipe' \in {"download", "handoff", "installing"}
               => pipe \in {"download", "handoff", "installing"},
           pipe' = "installing" => ~up',
           pipe' # "idle" => pipe # "idle" \/ installed < MaxVersion
    PROVE  IInv'
  <1>0. protocols \in Nat /\ protocols' \in Nat
    BY HealthAssumption DEF IInv, TypeOK
  <1>1. MemIsFile'
    BY <1>0 DEF IInv, MemIsFile
  <1>2. UpdateRecorded'
    BY DEF IInv, UpdateRecorded
  <1>3. StartsMarked'
    BY <1>0 DEF IInv, StartsMarked, Unnoticed
  <1>4. NewVersionObserved'
    BY <1>0 DEF IInv, NewVersionObserved
  <1> QED
    BY <1>1, <1>2, <1>3, <1>4 DEF IInv

------------------------------------------------------------------------------

LEMMA InitIInv == Init => IInv
  <1> SUFFICES ASSUME Init PROVE IInv
    OBVIOUS
  <1>1. 1 \in Version
    BY HealthAssumption DEF Version
  <1>2. TypeOK
    BY <1>1, Zeros DEF Init, TypeOK
  <1>3. MemIsFile /\ UpdateRecorded /\ StartsMarked
    BY DEF Init, MemIsFile, UpdateRecorded, StartsMarked, NoRecord
  <1>4. NewVersionObserved
    BY DEF Init, NewVersionObserved, NoRecord
  <1> QED
    BY <1>2, <1>3, <1>4 DEF IInv

LEMMA StartKeeps ==
    ASSUME IInv, Start PROVE IInv'
  <1>1. launches' \in [n : 0..RequiredStarts, counted : BOOLEAN]
    BY DEF IInv, TypeOK, Start
  <1>2. protocols = 0
    BY HealthAssumption DEF IInv, TypeOK, MemIsFile, Start
  <1>3. TypeOK'
    BY <1>1 DEF IInv, TypeOK, Start
  <1> QED
    BY <1>2, <1>3, RecordStays DEF Start

\* A run that loads the record either opens the window of a new version or finds
\* the version it already knows, whose starts were marked.
LEMMA InitHealthKeeps ==
    ASSUME IInv, InitHealth PROVE IInv'
  <1>1. file \in Record /\ protocols' \in 0..MaxProtocols /\ up /\ up' = up /\ marks \in Nat
    BY HealthAssumption DEF IInv, TypeOK, InitHealth
  <1>2. pipe' = pipe /\ installed' = installed
    BY DEF InitHealth
  <1>3. CASE /\ IsNewVersion(file)
             /\ file' = [file EXCEPT !.status = "pending", !.starts = 0]
             /\ mem' = file' /\ marks' = 0 /\ dir' = dir
    <2>1. /\ file' \in Record /\ file'.status = "pending" /\ file'.starts = 0
          /\ file'.previous = file.previous /\ file'.backup = file.backup
      BY <1>1, <1>3, Zeros DEF Record
    <2>2. TypeOK'
      BY <1>1, <1>3, <2>1, HealthAssumption DEF IInv, TypeOK, InitHealth
    <2>3. MemIsFile' /\ StartsMarked'
      BY <1>1, <1>3, <2>1 DEF MemIsFile, StartsMarked
    <2>4. UpdateRecorded' /\ NewVersionObserved'
      BY <1>1, <1>2, <2>1 DEF IInv, UpdateRecorded, NewVersionObserved
    <2> QED
      BY <2>2, <2>3, <2>4 DEF IInv
  <1>4. CASE ~IsNewVersion(file) /\ file' = file /\ marks' = marks
    <2>1. /\ mem' \in Record
          /\ mem'.previous = file.previous /\ mem'.status = file.status
          /\ mem'.starts = file.starts /\ mem'.backup \in {0, file.backup}
      BY <1>1, <1>4, HealthAssumption DEF InitHealth, Record
    <2>2. dir' \in [Version -> {"none", "partial", "complete"}]
      BY <1>1, <1>4, CleanupType DEF IInv, InitHealth, TypeOK
    <2>3. file.previous = 0 \/ file.previous = installed
      BY <1>4 DEF IsNewVersion
    <2>4. TypeOK'
      BY <1>1, <1>4, <2>1, <2>2 DEF IInv, TypeOK, InitHealth
    <2>5. MemIsFile' /\ UpdateRecorded'
      BY <1>1, <1>2, <1>4, <2>1 DEF IInv, MemIsFile, UpdateRecorded
    <2>6. StartsMarked' /\ NewVersionObserved'
      BY <1>2, <1>4, <2>3 DEF IInv, StartsMarked, Unnoticed, NewVersionObserved
    <2> QED
      BY <2>4, <2>5, <2>6 DEF IInv
  <1> QED
    BY <1>3, <1>4 DEF InitHealth

\* A mark counts in the record and in the history alike.
LEMMA MarkStartupCounts ==
    ASSUME IInv, MarkStartup
    PROVE  /\ mem'.starts = UpTo(mem.starts) /\ marks' = UpTo(marks)
           /\ mem.status = "pending" => mem'.starts <= marks'
           /\ mem' \in Record /\ mem'.previous = mem.previous
           /\ mem'.backup \in {0, mem.backup}
           /\ mem'.status = IF ReachesStable(UpTo(mem.starts)) THEN "stable" ELSE mem.status
  <1>1. mem \in Record /\ mem.starts \in 0..RequiredStarts /\ marks \in 0..RequiredStarts
    BY DEF IInv, TypeOK, Record
  <1> DEFINE s == UpTo(mem.starts)
  <1>2. s \in 0..RequiredStarts /\ (mem.starts <= marks => s <= UpTo(marks))
    BY <1>1, Counting
  <1>3. marks' = UpTo(marks)
    BY DEF MarkStartup
  <1>4. /\ mem' = IF ReachesStable(s)
                    THEN [mem EXCEPT !.starts = s, !.status = "stable", !.backup = 0]
                    ELSE [mem EXCEPT !.starts = s]
    BY DEF MarkStartup
  <1>5. mem.status = "pending" => mem.starts <= marks
    BY HealthAssumption DEF IInv, TypeOK, MarkStartup, MemIsFile, StartsMarked, Unnoticed
  <1> HIDE DEF s
  <1>6. /\ mem' \in Record /\ mem'.starts = s /\ mem'.previous = mem.previous
        /\ mem'.backup \in {0, mem.backup}
        /\ mem'.status = IF ReachesStable(s) THEN "stable" ELSE mem.status
    <2>1. CASE ReachesStable(s)
      BY <1>1, <1>2, <1>4, <2>1, Zeros DEF Record
    <2>2. CASE ~ReachesStable(s)
      BY <1>1, <1>2, <1>4, <2>2 DEF Record
    <2> QED
      BY <2>1, <2>2
  <1> QED
    BY <1>2, <1>3, <1>5, <1>6 DEF s

LEMMA MarkStartupKeeps ==
    ASSUME IInv, MarkStartup PROVE IInv'
  <1>1. /\ mem'.starts = UpTo(mem.starts) /\ marks' = UpTo(marks)
        /\ mem.status = "pending" => mem'.starts <= marks'
        /\ mem' \in Record /\ mem'.previous = mem.previous
        /\ mem'.backup \in {0, mem.backup}
        /\ mem'.status = "pending" => mem.status = "pending"
    BY MarkStartupCounts
  <1>2. /\ file' = mem' /\ protocols > 0 /\ protocols' \in 0..MaxProtocols
        /\ UNCHANGED <<tagged, installed, up, pipe>>
    BY HealthAssumption DEF IInv, TypeOK, MarkStartup
  <1>3. marks' \in 0..RequiredStarts /\ marks' # 0
    BY <1>1, Counting DEF IInv, TypeOK
  <1>4. dir' \in [Version -> {"none", "partial", "complete"}]
    BY CleanupType DEF IInv, TypeOK, MarkStartup
  <1>5. launches' \in [n : 0..RequiredStarts, counted : BOOLEAN]
    BY Counting DEF IInv, TypeOK, MarkStartup
  <1>6. TypeOK'
    BY <1>1, <1>2, <1>3, <1>4, <1>5 DEF IInv, TypeOK
  <1>7. MemIsFile' /\ UpdateRecorded'
    BY <1>1, <1>2 DEF IInv, MemIsFile, UpdateRecorded
  <1>8. StartsMarked' /\ NewVersionObserved'
    BY <1>1, <1>2, <1>3 DEF StartsMarked, NewVersionObserved
  <1> QED
    BY <1>6, <1>7, <1>8 DEF IInv

LEMMA ProtocolsFailKeeps ==
    ASSUME IInv, ProtocolsFail PROVE IInv'
  <1>1. TypeOK'
    BY HealthAssumption DEF IInv, TypeOK, ProtocolsFail
  <1>2. protocols' < protocols /\ up
    BY HealthAssumption DEF IInv, TypeOK, MemIsFile, ProtocolsFail
  <1> QED
    BY <1>1, <1>2, RecordStays DEF IInv, ProtocolsFail, UpdateRecorded

\* The pipeline's steps that only copy or download.
LEMMA PipeKeeps ==
    ASSUME IInv, BeginBackup \/ EndCopy \/ EndDownload PROVE IInv'
  <1>1. CASE BeginBackup
    <2>1. TypeOK'
      BY <1>1 DEF IInv, TypeOK, BeginBackup
    <2> QED
      BY <1>1, <2>1, RecordStays DEF BeginBackup
  <1>2. CASE EndCopy
    <2>1. TypeOK'
      BY <1>2 DEF IInv, TypeOK, EndCopy
    <2> QED
      BY <1>2, <2>1, RecordStays DEF EndCopy
  <1>3. CASE EndDownload
    <2>1. TypeOK'
      BY <1>3 DEF IInv, TypeOK, EndDownload
    <2> QED
      BY <1>3, <2>1, RecordStays DEF EndDownload
  <1> QED
    BY <1>1, <1>2, <1>3

\* The record of the backup opens the window of the next version.
LEMMA RecordBackupKeeps ==
    ASSUME IInv, RecordBackup PROVE IInv'
  <1>1. /\ mem' = Preserved(installed) /\ file' = mem' /\ marks' = 0
        /\ installed' = installed /\ installed \in Version /\ pipe' = "download"
        /\ installed < MaxVersion
        /\ UNCHANGED <<up, protocols>>
    BY DEF IInv, TypeOK, RecordBackup, UpdateRecorded
  <1>2. Preserved(installed) \in Record
    BY <1>1, HealthAssumption DEF Preserved, Record, Version
  <1>3. NoLaunch \in [n : 0..RequiredStarts, counted : BOOLEAN]
    BY HealthAssumption DEF NoLaunch
  <1>4. TypeOK'
    BY <1>1, <1>2, <1>3, HealthAssumption DEF IInv, TypeOK, RecordBackup
  <1>5. /\ mem'.previous = installed /\ mem'.status = "pending"
        /\ mem'.starts = 0 /\ mem'.backup = installed
    BY <1>1 DEF Preserved
  <1>6. MemIsFile' /\ UpdateRecorded'
    BY <1>1, <1>5 DEF IInv, MemIsFile, UpdateRecorded
  <1>7. StartsMarked' /\ NewVersionObserved'
    BY <1>1, <1>5 DEF StartsMarked, NewVersionObserved
  <1> QED
    BY <1>4, <1>6, <1>7 DEF IInv

\* A new version is installed under a record that names the old one.
LEMMA InstallKeeps ==
    ASSUME IInv, Install PROVE IInv'
  <1>1. /\ ~up /\ protocols = 0 /\ file.previous = installed
        /\ installed \in 1..MaxVersion /\ installed < MaxVersion
    BY HealthAssumption DEF IInv, TypeOK, MemIsFile, UpdateRecorded, Install, Version
  <1>2. CASE installed' = installed + 1 /\ marks' = 0 /\ launches' = NoLaunch
    <2>1. NoLaunch \in [n : 0..RequiredStarts, counted : BOOLEAN]
      BY HealthAssumption DEF NoLaunch
    <2>2. installed' \in Version
      BY <1>1, <1>2, HealthAssumption DEF Version
    <2>3. TypeOK'
      BY <1>2, <2>1, <2>2, HealthAssumption DEF IInv, TypeOK, Install
    <2>4. MemIsFile' /\ UpdateRecorded' /\ NewVersionObserved'
      BY <1>1 DEF Install, MemIsFile, UpdateRecorded, NewVersionObserved
    <2>5. StartsMarked'
      BY <1>1, <1>2 DEF Install, StartsMarked, Unnoticed
    <2> QED
      BY <2>3, <2>4, <2>5 DEF IInv
  <1>3. CASE UNCHANGED <<installed, marks, launches>>
    <2>1. TypeOK'
      BY <1>3 DEF IInv, TypeOK, Install
    <2> QED
      BY <1>3, <2>1, RecordStays DEF Install
  <1> QED
    BY <1>2, <1>3 DEF Install

------------------------------------------------------------------------------

LEMMA NextIInv == IInv /\ [Next]_vars => IInv'
  <1> SUFFICES ASSUME IInv, [Next]_vars PROVE IInv'
    OBVIOUS
  <1>1. CASE UNCHANGED vars
    BY <1>1
    DEF vars, IInv, TypeOK, MemIsFile, UpdateRecorded, StartsMarked, Unnoticed,
        NewVersionObserved
  <1>2. CASE Start
    BY <1>2, StartKeeps
  <1>3. CASE Crash
    BY <1>3, DeathKeeps DEF Crash
  <1>4. CASE InitHealth
    BY <1>4, InitHealthKeeps
  <1>5. CASE MarkStartup
    BY <1>5, MarkStartupKeeps
  <1>6. CASE ProtocolsFail
    BY <1>6, ProtocolsFailKeeps
  <1>7. CASE BeginBackup \/ EndCopy \/ EndDownload
    BY <1>7, PipeKeeps
  <1>8. CASE RecordBackup
    BY <1>8, RecordBackupKeeps
  <1>9. CASE Leave
    BY <1>9, DeathKeeps DEF Leave
  <1>10. CASE Install
    BY <1>10, InstallKeeps
  <1> QED
    BY <1>1, <1>2, <1>3, <1>4, <1>5, <1>6, <1>7, <1>8, <1>9, <1>10 DEF Next

LEMMA Invariance == Spec => []IInv
  <1>1. Init => IInv
    BY InitIInv
  <1>2. IInv /\ [Next]_vars => IInv'
    BY NextIInv
  <1> QED
    BY <1>1, <1>2, PTL DEF Spec

\* Every variable keeps its shape, for any number of versions and runs.
THEOREM TypeCorrect == Spec => []TypeOK
  <1>1. IInv => TypeOK
    BY DEF IInv
  <1> QED
    BY <1>1, Invariance, PTL

\* UpdateHealthMonitor.init opens the observation window of a new version before any
\* start of it is marked.
THEOREM NewVersionIsObserved == Spec => []NewVersionObserved
  <1>1. IInv => NewVersionObserved
    BY DEF IInv
  <1> QED
    BY <1>1, Invariance, PTL

\* Only a mark closes the window, and the starts it finds were all made in it.
LEMMA StableStep ==
    ASSUME IInv, [Next]_vars, file.status = "pending", file'.status = "stable"
    PROVE  marks' >= RequiredStarts
  <1>1. CASE MarkStartup
    <2>1. /\ mem.status = "pending" /\ file' = mem'
      BY <1>1 DEF IInv, TypeOK, MarkStartup, MemIsFile
    <2>2. ReachesStable(UpTo(mem.starts)) /\ mem'.starts <= marks' /\ mem'.starts = UpTo(mem.starts)
      BY <1>1, <2>1, MarkStartupCounts
    <2>3. mem.starts \in 0..RequiredStarts /\ marks \in 0..RequiredStarts /\ marks' = UpTo(marks)
      BY <1>1 DEF IInv, TypeOK, Record, MarkStartup
    <2>4. UpTo(mem.starts) \in 0..RequiredStarts /\ marks' \in 0..RequiredStarts
      BY <2>3, Counting
    <2> QED
      BY <2>2, <2>4, HealthAssumption DEF ReachesStable
  <1>2. CASE InitHealth
    <2>1. file'.status = "pending"
      BY <1>2 DEF IInv, TypeOK, Record, InitHealth
    <2> QED
      BY <2>1
  <1>3. CASE RecordBackup
    BY <1>3 DEF RecordBackup, Preserved
  <1>4. CASE UNCHANGED file
    BY <1>4
  <1> QED
    BY <1>1, <1>2, <1>3, <1>4
    DEF Next, Start, Crash, Leave, Dies, ProtocolsFail, BeginBackup, EndCopy, EndDownload,
        Install, vars

\* markStartupSuccessful closes the observation window, and gives up the rollback
\* backup, only at its RequiredStarts-th call since that window opened: memory and
\* file never carry the calls of one window, or of one process, into the next.
THEOREM StableIsEarned == Spec => StableEarned
  <1>1. IInv /\ [Next]_vars
          => [file.status = "pending" /\ file'.status = "stable" => marks' >= RequiredStarts]_vars
    BY StableStep
  <1> QED
    BY <1>1, Invariance, PTL DEF Spec, StableEarned
==============================================================================
