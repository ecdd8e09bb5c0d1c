# IntelliAttend SmartBoard: a TLA+ verification project

This directory models the parts of IntelliAttend SmartBoard that are hardest to
test. On the board: how it starts, detects that it cannot start, updates itself
and takes over from its update agent. On the server: how a board is registered, what
the hydration cache serves, how commands and updates reach a board, and how a class
session and its attendance are kept. Each module is translated from the source
files named in the `map` of `PROJECT.json`; TLC checks small instances and TLAPS
proves the central invariants for every value of the constants.

Contents: [the system](#the-system), [modules](#modules-and-code),
[runs](#runs), [divergences](#what-the-runs-found), [proofs](#proofs),
[abstractions](#abstractions-and-bounds), [not modelled](#not-modelled-and-plan).

## The system

The board is a Flutter application for Windows (`lib/`), a C++ update agent
(`windows/update_agent/`), an Inno Setup installer and a FastAPI backend
(`backend/python/`). A Dart handler runs without interruption up to its next
`await`, so the unit of interleaving in the application is the code between two
awaits; the agent and several instances of the application are separate
processes that share files, registry values, a mutex and a file lock. The backend
is one asyncio process: a handler runs up to its next `await`, and a database
session sees what others committed when it reads and is committed or rolled back by
`get_db` when the handler returns or raises.

| Part | State it keeps | Operations | Talks to | What is hard, what must hold |
|---|---|---|---|---|
| Startup guard (`startup_service.dart`) | registry: launch in progress, failed launches, last start; the Run value | begin, completed, failed, register, unregister | every process of the board | One record for all processes; crashes between begin and completion. A crash loop is detected when, and only when, launches went unreported. |
| Lifecycle, recovery, instance lock (`app_lifecycle_manager.dart`, `recovery_manager.dart`, `main.dart`) | phase, completed flag, lock file | the six phases, recovery, retry, relaunch inside the process | guard, UI | Opening, locking, emptying and signing the lock file are separate steps, and a process may end between any two. One instance shows the UI; recovery ends. |
| Update pipeline (`auto_updater.dart`) | fingerprint, breaker, in-flight and dismissal flags, progress, available update | check, backup, download, verify, launch, dismiss | heartbeat, WebSocket, Settings screen, health monitor, agent | Three callers interleave around awaits. One pipeline at a time, only verified bytes are handed over, a dismissal is honoured. |
| Remote configuration (`remote_config_service.dart`, backend `main.py`) | configuration version applied; manifest and version published | apply, deploy, release | pipeline | Versions are compared, then consumed. |
| Update agent (`windows/update_agent`) and handover (`update_agent_launcher.dart`, `lifecycle_recover.dart`) | `update_state.json`, mutex, running marker, executable | hand over, wait, install with retries, verify, restart, clean up, fail | application, setup | No channel but files; either program may die or be started at any time, and setup may outlive the agent that started it. One agent at a time, never beside the instance it watches; it comes to an end. |
| Update health (`update_health_monitor.dart`) | previous version, status, starts, backup path; the backup directories | init, mark start, preserve, clean up | pipeline, background protocols | Two writers across awaits, crashes. A new version is observed, and its observation ends only after the required marks. |
| Pre-flight warm-up (`pre_flight_service.dart`) | per slot: generation, retries, timers | run, force, poll | API client | Stale callbacks of superseded warm-ups. |
| Token manager, API client, circuit breaker | token cache, pending refresh, breaker state | get, refresh, clear, call | backend | Single-flight refresh against logout; late successes. |
| SyncManager, SessionManager | offline queue and sessions in Isar | enqueue, flush, submit, delete | backend | At-least-once submission; lost updates. |
| Board WebSocket, session lifecycle, heartbeat | connection, event sequence, buffered events | connect, receive, resync, end session | backend | Reordered and lost events, reconnects, timeouts. |
| Backend registration (`auth_service.py`, `rate_limit_middleware.py`) | rows of `users` and `pending_registrations`, limiter buckets | login, verify, complete, deregister, suspend | boards | Checks before an await, writes after it; rollback when a handler raises. Who is served was verified, identities are unique, guesses are bounded; that a deregistered board stays out does not hold. |
| Hydration and caches (`hydration_service.py`, `cache_service.py`) | Redis and the in-memory fallback | hydrate, invalidate, expire | boards, Redis | Two layers that change places in outages. An invalidation holds, the cache catches up. |
| Command channel (`BoardConnectionManager`, board WebSocket) | connection and queue of each board | ticket, connect, flush, send, queue, disconnect | administrators, boards | Sockets that replace each other, sends that fail. At most once, nothing lost without a fault. |
| Update endpoints (backend `main.py`) | `board_versions`, `release_manifests` | push, rollback, report, heartbeat, upload, fleet rollback | command channel | Overlapping transactions that write only changed columns. The newest manifest stays in service. |
| Class sessions (`session_service.py`, `ConnectionManager`, session WebSocket) | `active_sessions`, `session_attendees`, connections of a session | create, preflight, initiate, terminate, submit, connect, broadcast | faculty, boards | Submissions that overlap each other and the connecting boards. No board misses one. |
| Kiosk, window orchestrator, configuration, observability, UI | little | | operating system | Calls outward; handlers that change the state above are actions of its modules. |

How an update travels: the backend publishes a manifest with a configuration
version; a heartbeat delivers it; `AutoUpdater.checkForUpdate` decides; the
pipeline asks `UpdateHealthMonitor` for a backup, downloads, verifies, writes
`update_state.json` and starts the agent; the process exits; the agent installs
and starts the new version; its startup passes the guard and the health monitor
observes it. The modules cut this chain where one part hands over to the next; the server's
half of it, the manifests and the pushed commands, is `FleetUpdates` over
`BoardCommands`.

## Modules and code

| Module | Models | State and actions |
|---|---|---|
| `UpdatePipeline` | `AutoUpdater`, its callers, the overlay, the server's configuration | `call[c]` is one activation of `checkForUpdate`, suspended at the disk probe (`disk`), the backup, the download or the agent launch. `Check` is everything before the first await; `DiskProbe`, `Backup`, `Chunk`, `DownloadDone`, `DownloadFailed`, `DownloadDismissed` and `Launch` are what follows each one, including the bookkeeping of `_startUpdate` (`PipelineThrew`, `PipelineReturned`). `Heartbeat`, `WebSocketPush`, `SettingsTap`, `Dismiss` are the entries; `Deploy` and `Release` the server. |
| `MCUpdatePipeline` | instances | five kinds of manifest: optional, forced, without hash, denied by policy, already installed. |
| `BoardBoot` | `StartupService`, `AppLifecycleManager`, `RecoveryManager`, the lock of `main.dart` | `proc[p].pc` is how far `main()` of a process came. `BeginLaunch` is the RECOVERY phase with `beginLaunch`; `Configure`, `LifecycleCompletes`, `Register`, `IdleScreen` the way to a reported launch. `LockStep` is `_acquireSingleInstanceLock`, one file operation at a time: `OpenLock`, `TakeLock`, `ClearLock`, `RecordPid`, `WriteFails`, and after a refusal `FirstDenied`, `PollDenied`, `DeleteStale`, `LastDenied`; `holder` is the operating system's lock, `recorded` the PID in the file; `AutoRecover`, `Retry`, `PhaseFails` the recovery screen; `UnhandledError`, `ProcessEnds`, `TenMinutesPass` the environment. `past` is history. |
| `UpdateAgent` | `update_agent.exe`, `UpdateAgentLauncher`, `LifecycleRecover` | `agent[a].at` is the state of `wWinMain`; each action ends where the agent saves the state file or waits for another program. Setup is a process of its own: `SetupWrites` is one of its writes, `SetupExits` and `SetupTimesOut` what ends the agent's wait; when the agent dies or the ten minutes are over, setup may go on as one of the `strays` (`StrayWrites`, `StrayEnds`). `HandOver` and `BootApp` are the application's two writes of the file. `tampered` is history. |
| `UpdateHealth` | `UpdateHealthMonitor`, its callers in the pipeline and in `startBackgroundProtocols` | `mem` and `file` are the record in memory and on disk. `InitHealth` and `MarkStartup` are the two ends of the background protocols, `BeginBackup`, `EndCopy`, `RecordBackup` the three parts of `preserveCurrentInstall` that other handlers can come between. `marks` and `launches` are history. |
| `Registration`, `MCRegistration` | `auth_service.py`, the routes of `main.py`, the rate limiter, `get_db`, `get_current_board_pg` | `req[r]` is a suspended request: `Login`, `Verify`, `Complete` are admitted, read and decide; `Finish` writes what was decided, where a unique constraint may refuse it (`Conflict`), and the session commits or is rolled back (`EndSession`). `Deregister`, `SuspendBoard`, `Restart` and `Tick` come in between. `verifiedAt`, `guesses` and `admitted` are history. |
| `Revocation` | `Registration` with a memory of deregistered boards | `revoked` is history: boards deregistered while they were served, until another OTP of their identity is accepted. |
| `HydrationCache` | `BoardHydrationService` and `CacheService` for one room | `build[p]` goes through the queries, each a step: `BuildProfile`, `BuildSchedule`, `RosterSlots`, then `RosterOfPair` as often as the loop asks; then `Store`. `parts` keeps the revisions that each kind of query saw. `cache` has the two layers; a call to Redis works, fails, or works without a reply (`Reached`). `Change` is a write of the profile by a registration, or an edit of the timetable or the enrolments outside this code; `Invalidate` is the deletion. `floor` and `tainted` are history. |
| `SafeUpdate` | what the update pipeline promises | abstract: one update at a time is begun, secured, verified, handed over; it may fail or be cancelled. The instance `S` of `UpdatePipeline` is the mapping: an update is a suspended call, its stage what its record has accumulated (`Stage`). |
| `Installation` | what the handover to an agent promises | abstract: one installation, begun when the instance it replaces is gone; only its installer changes the executable, or a stray, an installer that outlived its installation. Instance `I` of `UpdateAgent`: an installation is an agent past its wait (`InstallOf`). |
| `Enrolment` | what registration promises | abstract: a board claims an identity, the identity is proven, an activation is asked for in time and carried out later or never. It says what is not promised, too: `Overrun` is an activation that overrides a suspension, and taking a board out of service takes back neither its proof nor what it asked for. Instance `E` of `Registration`: an activation is asked for while a request is about to write it (`Asked`). |
| `Mailbox` | what a command channel promises | abstract: a command is accepted, then delivered at most once, and lost only by a `Fault`. |
| `BoardCommands` | tickets, `BoardConnectionManager`, the board WebSocket, the sending endpoints | `sock[w]` is a handler and its client, `cmd[c]` a request. `Connect` registers a connection and takes the queue, `Flush` sends from it; `Send`, `Sent`, `SendFails` are the two sides of the await in `send_command`. The instance `M` of `Mailbox` is its refinement mapping. |
| `FleetUpdates` | the update endpoints, composed with `BoardCommands` | `txn[t]` is a transaction with the row it read; `Write` merges only the changed columns (`Merge`). `FSend` sends from the middle of a transaction; the other steps of the channel are those of `BoardCommands`. |
| `ClassSession`, `MCClassSession` | one session: its row, attendance, connected boards | `job[j]` is a request. `Submit`, `Lookup`, `SubmitCommit` are a submission over WebSocket or REST, `Broadcast` and `Deliver` its announcement; `Accept`, `ReadState`, `Die`, `End` the session WebSocket; `CreateCache`/`CreateCommit`, `PreflightRead`/`PreflightCommit`, `FindByOtp`/`Ignite`, `TerminateRead`/`TerminateCommit` the other requests. `sheet` and `overlapped` are history. |
| `*_proofs` | theorems | see [Proofs](#proofs). |

A definition called `Op_Variant` is a plausible bug in `Op`, used only to show
that a property would notice it (`mutants` in `PROJECT.json`).

## Runs

| Run | Checks | Instance |
|---|---|---|
| `pipeline` | `SingleFlight`, `CancelHonoured`, `BreakerOvershoot`; `IsSafeUpdate` (refinement of `SafeUpdate`), `DismissReleases` (liveness) | two concurrent calls, four kinds of manifest over two fingerprints (a sound optional one, a forced one without hash, a denied and a current one), two configuration versions, breaker limit 2, one dismissal, one restart: 497 801 states |
| `boot` | `OneInstance`, `GuardCounts`, `DetectionSound`, `CrashLoopCaught`; `RecoveryEnds` (liveness) | two processes, three unreported launches, one error, two polls of the lock after an update: 438 832 states |
| `agent` | `OneAgent`, `RestartsVerified`; `IsInstallation` (refinement of `Installation`), `AgentEnds` (liveness) | two agents, four application processes, two install attempts, two strays: 64 085 states |
| `health` | `StableEarned`, `NewVersionObserved` | three versions, two overlapping runs of the protocols, with and without build numbers: 4 590 states |
| `registration` | `ActiveWasVerified`, `IdentitiesUnique`, `WindowBound`, `GuessesBounded`; `IsEnrolment` (refinement of `Enrolment`) | two boards, two identities, two overlapping requests, one limiter key, clock up to 4, one restart: 616 221 states |
| `cache` | `PartsInOrder`, `InvalidationHolds`; `CatchesUp` (liveness) | two overlapping hydrations with any number of pairs, two revisions: 530 702 states |
| `commands` | `IsMailbox` (refinement of `Mailbox`), `DeadUnregistered` (liveness) | three connections that replace each other, two commands, one restart: 108 575 states |
| `fleet` | `NewestIsActive` | one push, one rollback, one report, one upload, one fleet rollback, one connection, one restart: 4 158 287 states |
| `class` | `LastSubmissionWins`, `NoMissedSubmission` | two submissions for one student, two connections, one request of each other kind: 1 292 796 states up to symmetry |
| `boot_error_loop`, `registration_lockout`, `registration_revoked` | one sentence of the sources each, which the code does not keep | as small as the counterexample allows |

Each of these runs that pass also checks a type invariant (that of `BoardCommands` is part
of `FTypeOK` in `fleet`). Further
configurations in this directory, which are not runs of the project, reproduce more
divergences: `UpdatePipeline_Overlay`, `_Retry`, `_BootWindow` (with
`MCUpdatePipeline`), `UpdateAgent_Stale`, `_Marker`, `_Stray`, `UpdateHealth_Stable`,
`_Backup`, `_Launches`, `BoardCommands_Queue`, `FleetUpdates_Torn` and
`ClassSession_Ignition`; TLC finds each of them violated.

Why the bounds suffice. `SingleFlight` needs two calls to be violated and the theorem covers
any number. A breaker limit of 2 has a closed, a nearly open and an open state. Detection
needs `MaxFailed` (2) unreported launches, one more to be detected at, and a second process
that disturbs them; that process also finds the lock file at every step of the first one,
and two polls are one that fails and a last one. One error is enough to disturb a count, and
with a second one the run takes too long; the error loop has a run of its own. With two
strays, one is left of each of two attempts or agents. Two agents give the mutex both of its
answers; a third would only repeat the second. In `UpdateHealth` three versions make two
updates, so that a record left by one update is found by the next, and two overlapping
protocol runs are what the idle screen and the registration screen can produce. In
`Registration` two requests overlap in every pair of kinds, and a clock of 4 with lifetimes
and a window of 2 reaches both sides of each expiry. The properties of `HydrationCache`
compare revisions pair by pair, so two of them and two builds, which store in either order,
show every order; the three invariants were also checked with three revisions (11 127 970
states, too many for the liveness property), and the theorems cover any number. Two
connections replace each other; the third ends late. One manifest is uploaded while another
withdraws it. Two submissions see each other or not; the students of `ClassSession` do not
interact, so one is enough, and the theorems cover any number.

Fairness. `UpdatePipeline`: every await is answered except the body of a download,
of which the code bounds only the first answer; once `dismiss()` has closed the
client, the download must end. `BoardBoot`: the steps of a startup follow one
another; nothing forces a user, an error or a crash. `UpdateAgent`: each wait of
the agent has a timeout (60 s, 10 min, 10 s, 100 ms), so its steps are weakly
fair; nothing forces the application. `UpdateHealth`,
`Registration`, `FleetUpdates` and `ClassSession` have no liveness property.
`HydrationCache`: a request that was started goes on, and keys in Redis expire;
nothing forces Redis to answer, so `CatchesUp` assumes that it does from some time on.
`BoardCommands`: a handler that flushes goes on, and one whose client is dead ends,
because its send raises or its receive times out after five minutes
(`backend/python/main.py:724-741`). Deadlock checking is off except in the
runs of `Registration`, `HydrationCache` and `UpdateHealth`: a bounded board, channel or
session has reached its bound when nothing more can be started, and the real one may
simply be switched off.

## What the runs found

The first three are runs that TLC must find violated; `findings` in `PROJECT.json`
quotes the sentence. The others are reproduced by the further configurations.

- A wrong OTP is counted with a flush and then answered with an exception, which makes
  `get_db` roll the session back: neither the count nor the lockout is ever stored
  (`registration_lockout`; `PRODUCTION_READINESS_AUDIT.md:63` lists the lockout). What
  bounds the guesses is the rate limiter with the expiry: `GuessesBounded`.
- A board that is deregistered while its completion is under way, or that has a
  verification token, is active again and served without another login or OTP, although
  `main.py:1468-1470` says that it must register again (`registration_revoked`). Neither
  the token nor the request is taken back, and the completion does not look again at the
  status it read (`auth_service.py:248-259`); a suspension is overwritten the same way.
- `markLaunchFailed` clears the in-progress flag, so the next `beginLaunch` sets the
  failure count back to 0: launches that die of an unhandled error are never counted
  as a crash loop (`boot_error_loop`).
- A connection that dies while its queue is flushed loses the commands that are left,
  although `main.py:1537-1539` promises their delivery on reconnection
  (`BoardCommands_Queue`).

- A silent download that fails leaves `progress` at `downloading` with no pipeline
  behind it; the overlay stays and optional updates are refused (`UpdatePipeline_Overlay`).
- Every session that an OTP finds has the key `error`, with the value `None`, and the
  caller tests for the key: no session is ever ignited (`ClassSession_Ignition`).
- Dismissing the overlay of an update that already failed leaves
  `_dismissRequested` set; the next attempt ends as cancelled (`UpdatePipeline_Retry`).
- A configuration applied in the thirty seconds after `AutoUpdater.init` is recorded
  as applied while its update is refused, and is not tried again
  (`UpdatePipeline_BootWindow`).
- An agent does not look at the `state` field. When the agent before it saves its
  failure after a new handover, the new agent installs from the failed record
  (`UpdateAgent_Stale`).
- Setup is not in a job object, the installer has no mutex, and the agent terminates only
  the process it created. A setup that outlives its agent, or its ten minutes, still writes
  while the next agent verifies and restarts (`UpdateAgent_Stray`). What does hold is
  `RestartsVerified`: what is started was verified, unless such a stray wrote since.
- A second handover deletes the marker of an agent that is running the installer
  (`UpdateAgent_Marker`).
- A new version never becomes stable: `previous_version` stays the old one, so every
  start of the new version counts as a version change (`UpdateHealth_Stable`).
- Every display of the idle screen counts as a start; three of them during a download
  delete the backup before the handover (`UpdateHealth_Backup`), and three of them in one
  launch make a version stable that the documentation wants to see in three
  (`UpdateHealth_Launches`). `StableEarned` therefore counts calls of
  `markStartupSuccessful`, and says nothing of launches.
- A report that read its row before a push writes `completed` beside the target of the
  push (`FleetUpdates_Torn`); no line of the repository promises that the two agree.

Met while modelling, and not made into runs:

- Two submissions that overlap both insert a row for a student; `limit(1)` then
  updates either of the two, so the audit's "upsert" (`PRODUCTION_READINESS_AUDIT.md:49`)
  holds only while submissions see each other (`LastSubmissionWins`). An unchanged
  status is not written, so a submission that overlaps another may be lost entirely.
- Submissions are accepted after the session ended, and preflight answers "ready" for a
  session that ended earlier on the same day.
- The OTP is cached before the session row commits and stays when the commit fails. The
  end of a session is broadcast, and an update command is sent, before the transaction
  that records it commits.
- `disconnect` removes whatever connection the board has, so the late end of an old socket
  unregisters a newer one (`main.py:336`).
- `admin_rollback_all` says that it sends update commands to all connected boards
  (1744-1745) and sends none. The comment on `update_status` lists `rolled_back`, which a
  board reports, but not `rolling_back`, which the administrators' endpoints write.
- The stale-board monitor compares room ids with board ids and looks for active sessions,
  which there never are.
- `main.py:534` uses `api_router` 328 lines before its definition. The migrations create no
  `board_versions`, `update_events` or `release_manifests`, and store the values of the
  enumerations where the models store their names. The models read as the program means
  them.
- The comments at `main.py:377-378` and 929-931 say that the hydration payload contains the
  state of the session; it contains none. Its key names the room while the payload holds the
  profile of the board that built it.
- `sync_vault` stores the scans of a repeated delivery again.

- The breaker (`auto_updater.dart:338-346`) is read before the disk-space await only.
  How far it can be overrun is the property `BreakerOvershoot`.
- The Settings button and an administrator's push cannot retry a manifest whose
  fingerprint is on record (304-308), although 339-340 promise it; nor does the push
  reset the breaker, as 817 says.
- The in-flight guard (354) comes before the branch that would let a forced manifest
  replace a pipeline stuck for five minutes (359-374).
- `ci_upload` records a release without changing the configuration version, so boards
  that applied the running version do not evaluate it (backend `main.py:1376-1426`).
- A crash loop disables the auto-start; the relaunch that automatic recovery starts
  two seconds later enables it again (`app_lifecycle_manager.dart:129`). Two unhandled
  errors of one launch disable it as if two launches had failed
  (`startup_service.dart:174`).
- Launches that only reach the registration screen, resume a session or find another
  instance running are never reported and count as failed.
- The sixty-second watchdog (`main.dart:313-340`) is armed after the flag it tests
  has been set.
- Every failure of the agent after the application has exited ends without starting
  the application again. A starting board deletes the state file even when an agent
  owns it, against the one-writer rule of `docs/phase1_update_agent_spec.md:78`.
- Nothing passes `--post-update`, so the eight seconds a start waits for the lock after
  an update (`main.dart:404-426`) never run.
- `handleCrashLoopDetected` has no caller: a crash loop of a new version is never
  rolled back. `_copyDirectory` names a subdirectory by the last segment of its URI,
  which is empty, so its files land in the root of the backup. Backups of earlier
  versions stay on the disk, since only a stable version deletes one. A crash while a
  backup is made anew leaves a record that points to half a copy.

## Proofs

TLAPS proves, for every value of the constants:

| Theorem | Says |
|---|---|
| `UpdatePipeline_proofs!TypeCorrect` | `[]TypeOK` |
| `OneUpdateAtATime` | `[](SingleFlight /\ InFlightIsPipeline)` for any number of concurrent checks |
| `OnlyVerifiedHandoff` | what reaches the agent is backed up, allowed, needed, and matches its hash |
| `DismissedNeverInstalls` | a pipeline dismissed before its download ended is never handed over |
| `ImplementsSafeUpdate` | the pipeline implements `SafeUpdate` under the mapping of the instance `S` |
| `BoundedOvershoot` | failures stay at most `MaxFailures - 1 + Cardinality(Call)` |
| `BoardBoot_proofs!TypeCorrect` | `[]TypeOK` |
| `OneInstanceAtATime` | one process shows the UI, whatever other starts do to the lock file and wherever processes end |
| `GuardCountsLaunches` | the guard's count against the launches begun |
| `SoundDetection`, `CompleteDetection` | a crash loop is detected only, and always, after `MaxFailed` unreported launches |
| `UpdateAgent_proofs!TypeCorrect` | `[]TypeOK` |
| `OneAgentHolds` | only the holder of the mutex works, for any number of agents |
| `InstallsAfterExit` | setup never runs beside the instance the agent watches |
| `ImplementsInstallation` | the agents, the application and their files implement `Installation` under the mapping of the instance `I` |
| `RestartsOnlyVerified` | an agent starts only what it verified and a "restarting" file is true of the executable, unless a stray wrote since the verification |
| `UpdateHealth_proofs!TypeCorrect` | `[]TypeOK` |
| `StableIsEarned` | the action property: a window closes only at the `RequiredStarts`-th call of `markStartupSuccessful` since it opened |
| `NewVersionIsObserved` | a new version's first start opens its observation window |
| `Registration_proofs!TypeCorrect` | `[]TypeOK` |
| `ServedWasVerified` | a board that is served had an OTP of its own identity accepted |
| `IdentitiesStayUnique` | no identity is shared, no board has two pending registrations |
| `WindowStaysBounded` | the sliding window admits at most its limit |
| `RationInvariance`, `GuessesStayBounded` | the OTPs tried on one registration stay within the budget of the windows and server runs it lived through |
| `ActivationsAreFresh` | the action property: an activation was asked for within a token's life of an accepted OTP |
| `ImplementsEnrolment` | registration implements `Enrolment` under the mapping of the instance `E` |
| `HydrationCache_proofs!TypeCorrect` | `[]TypeOK` |
| `PayloadsInOrder`, `InvalidationIsKept` | a cached payload is a whole build, read in order; an entry older than an invalidation was stored by a build it overtook |
| `FleetUpdates_proofs!ChannelTypeCorrect`, `FleetTypeCorrect` | `[]TypeOK`, `[]FTypeOK` |
| `ImplementsMailbox` | the command channel implements `Mailbox` under the mapping of the instance `M` |
| `FleetUsesChannel` | the composition implements the channel, `FSpec => Spec`, so `ImplementsMailbox` holds below it |
| `NewestStaysActive` | the newest manifest stays active |
| `ClassSession_proofs!TypeCorrect` | `[]TypeOK` |
| `NothingIsMissed` | a synchronised board misses no submission |
| `LastWins` | submissions that see each other leave one row per student with the last mark |

Assumptions: those named in the modules. `ManifestAssumption` (a fingerprint
determines `force`, which is part of it), `CallAssumption` (finitely many
suspended calls, used only for the cardinality in `BoundedOvershoot`),
`BoundAssumption`, `BootAssumption`, `AgentAssumption` and `HealthAssumption`
(bounds are natural numbers, thresholds are positive, the null value is nobody),
`RegistrationAssumption` (the same, and finitely many limiter keys),
`HydrationAssumption`, `CommandsAssumption`, `FleetAssumption` and
`SessionAssumption` (the kinds of request are disjoint, the null value is none of them).

Arguments.

*Update pipeline.* The safety properties are not inductive: what is handed over
rests on what was established at earlier awaits. `SuspendedValid` says, for each
place where a call is suspended, what has been established there, and that a
cancelled pipeline still finds `_dismissRequested` set. The latter needs
`SingleFlight`, since a second pipeline could consume the flag, and
`SingleFlight` needs `InFlightIsPipeline`. The conjunction `IInv` is inductive. The
lemmas are about the shapes of a step: a check (`CheckType`, `CheckFlight`), a
pipeline that ended (`EndedFlight`, `ThrewType`), one that advanced
(`AdvancedFlight`), and a step that touches no call (`Unaffected`). For the
breaker, `BreakerBudget` says that once it is open, failures plus the calls
still held for that fingerprint stay within the bound: each failure beyond the
limit uses up a held call and an open breaker admits no new one.
The refinement of `SafeUpdate` rests on both halves of this: by `SingleFlight` the
mapping's set has at most one update (`LoneUpdate`, `NoUpdate`), and by `SuspendedValid` what a
call's record has accumulated agrees with where it is suspended, so that
each step is one stage (`MovedUpdate`), an end (`EndIsStop`) or a stutter
(`SameUpdates`). A cancelled update stays cancelled until it ends, since its flag does.

*Startup guard.* `GuardCounts` bounds the failure count by the launches begun;
`GuardRemembers` says that only an error clears the in-progress flag and only ten
idle minutes make it stale. Together they give both directions of detection.
For `OneInstance`, `UiOwnsLock` follows the lock and the
file apart: a process that got the lock keeps it until it ends or its write fails, since only the
holder empties the file or writes its PID, and a file that a process has open is not deleted.
That the lock file may be found empty, or with the PID of a dead process, changes who is
refused, and never who holds the lock.

*Update agent.* `InstallAfterExit` compares the application with a process id that
reached the agent through a file several programs write. The invariant follows the
ids: those in the file, in a working agent and in the application are `Spent` (given
out, and past the recovery phase). A process that becomes the application is not
spent, so it never has an id that an agent has seen gone. `NoneStarts` (setup leaves
no process of the executable it replaces) keeps the version of a new application
well defined. `AgentEnd` and `AgentGoes` are the shapes of an agent's step,
`EndingKeeps` serves every early return. The refinement of `Installation` uses the same
facts: the mutex leaves at most one agent past its wait (`LoneInstall`), so what an agent
does before it is a stutter (`UnseenStep`); that no process starts with the id of an
instance being replaced is `Spent` again; and the executable changes only in
`SetupWrites`, a step of the one installation, and in `StrayWrites`, where both sides
remember it (`tampered`). `NotRestarting` keeps the state file from telling of an earlier
verification while the next setup writes.

*Health monitor.* `StableEarned` needs the starts in memory, in the file and in the
history to stay in step. `MemIsFile` says that once a run of the protocols has loaded
the record, memory and file agree on the window; `StartsMarked` that the starts in the
file were marked in the current window, except between an installation and the first
run that notices it; `UpdateRecorded` that during an update the file names the version
being replaced, so that this run does notice.

*Registration.* A suspended request is about to write what it decided from rows that
others may have changed meanwhile. `Earned` says that tokens, and completions on their
way, stand for an OTP accepted recently enough for the identity they name; `ReadsLive`
that a row which a request read is still there unless it was marked gone; `Named` that
users and requests name identities; `LimiterKeeps` that the bucket of the limiter still
has what it admitted in the window. `GuessesBounded` compares a count of attempts on a row,
which later windows and restarts keep increasing, with a count of admissions, which they
forget. `Rationed` splits the life of the OTP at every time of the last window: the attempts are at
most what was admitted after that time, plus one budget for each window that began before
it and each earlier run of the server. When the clock moves past a window, its admissions
become one budget; the expiry of the OTP bounds the number of windows. The cardinality of the admissions
follows from an injection into their places in the bucket. In the refinement of
`Enrolment` a request that lost its registration is an activation abandoned, `Earned` gives
the guard of `Ask`, and a completion that finds the board suspended is `Overrun`.

*Hydration cache.* The invariant relates each layer's entry, and what each build holds, to the
revision at the last invalidation of that layer: a build that read before it has that layer
in `over`, so its store taints the layer. `ReadSoFar` says which queries a build has not asked
yet, so that each answer is newer than all that came before it.

*Command channel.* The refinement needs that the places where a command can be, its
request, the queue and the flush of one connection, exclude each other, and that a
delivered command is in none of them. Each step of the channel is then one step of the mailbox or a
stutter; deaths and restarts are its `Fault`.

*Update endpoints.* For `NewestStaysActive`, the manifests that a
transaction deactivates are among those it saw, and what it saw was created before its own (`InOrder`).

*Class session.* `NothingIsMissed` rests on `Reaching`: a board that is connected is a member,
and a submission under way has reached it or still has it in its list. `LastWins` rests
on `Sequential`: what a submission has seen stays true until another one commits, and
rows belong to submissions that committed.

Only model-checked are the five liveness properties, `DismissReleases`, `RecoveryEnds`,
`AgentEnds`, `CatchesUp` and `DeadUnregistered`: fairness and `ENABLED` are out of the prover's
reach. Every safety invariant, action property and refinement of the passing runs is a
theorem. `HandoffVerified`, `InstallAfterExit` and `ActivationFresh` are theorems that no run
checks any more, because the refinement a run checks in their place says as much.
No module uses recursion.

## Abstractions and bounds

- Versions, URLs and hashes are what the guards tell apart: a manifest is allowed,
  needed, forced, hashed, and has a fingerprint. An installer's bytes are good or
  bad. An executable is old, new or damaged. Versions in `UpdateHealth` are numbers;
  `tagged` says whether the running version carries a build number that the record
  drops.
- Awaits between which nothing relevant changes are folded into one action: the
  deletion of a partial file after a failed download, `ensureDirectories`, the
  preferences write of `applyConfig`, the one-second delay of a factory reset, the
  registry reads and writes of `beginLaunch`.
- Writing the registry, the preferences, `update_state.json` and `update_health.json`
  succeeds; the code logs and ignores most such failures. Temporary files and the
  rename of `WriteUpdateState` are one write.
- Process ids are not reused. Setup closes the application before it replaces a file
  (`CloseApplications=force` in `setup.iss`). Windows does not delete a file that a
  running process has open (`DeleteStale` of `BoardBoot`), and releases the lock of a
  process that ended at its end or, seen by others, a moment later (`TakeLock` may be
  refused without a holder). At most `MaxStrays` setups run on without an agent.
- Time is what happens: thirty seconds, five minutes, ten minutes and the agent's
  timeouts are steps that may occur whenever their timer runs.
- The server's database reads see what is committed at that moment (READ COMMITTED, the
  default of PostgreSQL); locks are left to the order of commits, and of two submissions
  in a deadlock one fails. Payloads are the revisions of their parts (an object that SQLAlchemy
  already loaded in the same request is read again), an OTP is right
  or wrong, a Firebase token is valid. Boards other than the modelled ones share no state
  with them.
- `BoardCommands` leaves the order of queued commands out, `ClassSession` the restart of the
  server, which ends every connection and request and changes no table.
- `WindowBound` and `GuessesBounded` are per key of the rate limiter and run of the
  server: the buckets are in memory, and the key contains the device id, which the board
  sends, so a client that changes it has as many budgets as it takes ids
  (`rate_limit_middleware.py:51-52` speaks of the address).
- Bounds are constants named `Max...` with the comment `bound` at their declaration,
  and the sets `Call`, `Process` and `Agent`. Counters that only compare with a
  threshold stop there (`UpTo` in `UpdateHealth`).

## Not modelled, and plan

`components` in `PROJECT.json` lists every part with its reason. What would come next,
each with the hazards listed for it there:

1. `PreFlight`: one slot, its generation counter, retries and the recovery poll. A
   superseded warm-up must change nothing.
2. `TokenManager` with the circuit breaker: single-flight refresh, logout, late answers.
3. `SyncManager`: the offline queue against `ClassSession`, where a repeated submission is
   applied twice.
4. `BoardSocket`: the board's side of `BoardCommands` and `ClassSession`; abstract
   specification: an ordered event log with resynchronisation.
5. `UpdateChain`: `SafeUpdate` and `Installation` composed into one abstract update from
   manifest to running version, implemented by `UpdatePipeline` and `UpdateAgent` composed.

Kiosk and window handling, configuration parsing, observability and the screens stay
out: they keep little state, or none that the properties depend on.
