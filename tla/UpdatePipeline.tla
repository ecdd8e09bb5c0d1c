---------------------------- MODULE UpdatePipeline ----------------------------
(***************************************************************************)
(* AutoUpdater (lib/services/auto_updater.dart) inside one run of the      *)
(* application, with the three things that call it: the heartbeat's remote *)
(* configuration, the WebSocket `update_available` push and the Settings   *)
(* screen, and the overlay through which the user dismisses an update.     *)
(*                                                                         *)
(* A Dart handler runs without interruption up to its next `await`, so an  *)
(* action is the code between two awaits.  What an HTTP answer, a hash, a  *)
(* file copy or a process launch yields is chosen nondeterministically.    *)
(*                                                                         *)
(* A definition named Op_Variant is a plausible bug in Op; no              *)
(* specification uses it, the mutation runs put it in the place of Op.     *)
(***************************************************************************)
EXTENDS Naturals, FiniteSets

CONSTANTS
  Manifest,     \* the update manifests a server may publish, see ManifestShape
  Fingerprint,  \* values of minimumVersion|force|rolloutPercentage
  Call,         \* bound: calls of checkForUpdate suspended at the same time
  None,         \* null
  MaxFailures,  \* _maxConsecutiveFailures, 3 in the code
  MaxConfig,    \* bound: the highest CONFIG_VERSION deployed
  MaxDismiss,   \* bound: taps on Dismiss
  MaxRestart    \* bound: process restarts and returns to the idle screen

(***************************************************************************)
(* What checkForUpdate tells apart in a manifest: the fingerprint it       *)
(* deduplicates on, whether ManifestValidator allows it, whether it is     *)
(* newer than the installed version and has a URL, whether it is forced    *)
(* (force is part of the fingerprint), whether it carries a SHA-256.       *)
(***************************************************************************)
ManifestShape ==
  [fp : Fingerprint, allowed : BOOLEAN, needed : BOOLEAN,
   force : BOOLEAN, hash : BOOLEAN]

ASSUME ManifestAssumption ==
  /\ Manifest \subseteq ManifestShape
  /\ \A m, n \in Manifest : m.fp = n.fp => m.force = n.force
  /\ None \notin Manifest /\ None \notin Fingerprint
ASSUME CallAssumption == IsFiniteSet(Call)
ASSUME BoundAssumption ==
  /\ MaxFailures \in Nat \ {0}
  /\ MaxConfig \in Nat \ {0} /\ MaxDismiss \in Nat /\ MaxRestart \in Nat

VARIABLES
  ready,      \* AutoUpdater.init ran more than 30 seconds ago
  lastFp,     \* _lastCheckedManifestFingerprint
  failures,   \* _consecutiveFailures
  failedFp,   \* _failedVersionFingerprint
  inFlight,   \* _updatePipelineInFlight
  dismissReq, \* _dismissRequested
  progress,   \* the state of progress.value, "none" for null
  stuck,      \* progress.value was created more than five minutes ago
  available,  \* availableUpdate.value
  call,       \* the suspended calls of checkForUpdate and their pipelines
  server,     \* the configuration the backend answers heartbeats with
  applied,    \* RemoteConfigService._lastVersion
  handoff,    \* the installer given to the update agent, exit(0) is next
  dismissals, \* bound: how often Dismiss was tapped
  restarts    \* bound: process restarts and returns to the idle screen

breaker  == <<failures, failedFp>>
overlay  == <<progress, stuck>>
delivery == <<server, applied>>
bounds   == <<dismissals, restarts>>
vars == <<ready, lastFp, breaker, inFlight, dismissReq, overlay, available,
          call, handoff, delivery, bounds>>

(***************************************************************************)
(* A suspended call waits at one await of checkForUpdate or of its         *)
(* pipeline.  cancelled and closed are history: the user dismissed the     *)
(* overlay after this pipeline began, and while its download ran.          *)
(***************************************************************************)
Running == {"backup", "download", "launch"}
IdleCall == [at |-> "idle", m |-> None, silent |-> FALSE, backedUp |-> FALSE,
             content |-> "none", cancelled |-> FALSE, closed |-> FALSE]
CallShape ==
  [at : {"idle", "disk"} \cup Running, m : Manifest \cup {None},
   silent : BOOLEAN, backedUp : BOOLEAN, content : {"none", "good", "bad"},
   cancelled : BOOLEAN, closed : BOOLEAN]

Overlay == {"none", "downloading", "installing", "failed", "completed"}

TypeOK ==
  /\ ready \in BOOLEAN /\ inFlight \in BOOLEAN /\ dismissReq \in BOOLEAN
  /\ stuck \in BOOLEAN
  /\ lastFp \in Fingerprint \cup {None}
  /\ failedFp \in Fingerprint \cup {None}
  /\ failures \in Nat
  /\ progress \in Overlay
  /\ available \in Manifest \cup {None}
  /\ call \in [Call -> CallShape]
  /\ server \in [ver : 1..MaxConfig, m : Manifest \cup {None}]
  /\ applied \in 0..MaxConfig
  /\ handoff \in {r \in CallShape : r.at = "launch"} \cup {None}
  /\ dismissals \in 0..MaxDismiss
  /\ restarts \in 0..MaxRestart

\* The static fields at the start of a process.
FreshProcess ==
  /\ ready = FALSE /\ inFlight = FALSE /\ dismissReq = FALSE
  /\ stuck = FALSE /\ lastFp = None /\ failedFp = None /\ failures = 0
  /\ progress = "none" /\ available = None
  /\ call = [c \in Call |-> IdleCall]
  /\ applied = 0 /\ handoff = None

Init ==
  /\ FreshProcess
  /\ server = [ver |-> 1, m |-> None]
  /\ dismissals = 0 /\ restarts = 0

SetProgress(p) == progress' = p /\ stuck' = FALSE
Alive == handoff = None

-----------------------------------------------------------------------------
(***************************************************************************)
(* checkForUpdate                                                          *)
(***************************************************************************)

\* The deduplication key; the URL and the SHA-256 are not part of it.
FingerprintOf_Manifest(m) == m
FingerprintOf(m) == m.fp

\* The breaker guard, on the counters the caller leaves behind.
BreakerOpen_OffByOne(m, fails, ffp) ==
  fails > MaxFailures /\ FingerprintOf(m) = ffp
BreakerOpen(m, fails, ffp) == fails >= MaxFailures /\ FingerprintOf(m) = ffp

\* progress.value is in a state that blocks a manifest that is not forced.
Busy == progress \in {"downloading", "installing"}

(***************************************************************************)
(* From the entry of checkForUpdate to the disk-space await.  fails and    *)
(* ffp are the breaker's counters on entry, which the Settings button has  *)
(* just reset.  The fingerprint is recorded before every other guard.      *)
(***************************************************************************)
Check(c, m, silent, fails, ffp) ==
  /\ call[c].at = "idle"
  /\ failures' = fails /\ failedFp' = ffp
  /\ \/ /\ ~ready \/ FingerprintOf(m) = lastFp
        /\ UNCHANGED <<lastFp, overlay, available, call>>
     \/ /\ ready /\ FingerprintOf(m) # lastFp
        /\ lastFp' = FingerprintOf(m)
        /\ \/ /\ ~m.allowed
              /\ UNCHANGED <<overlay, available, call>>
           \/ /\ m.allowed /\ BreakerOpen(m, fails, ffp)
              /\ available' = m
              /\ UNCHANGED <<overlay, call>>
           \/ /\ m.allowed /\ ~BreakerOpen(m, fails, ffp)
              /\ inFlight \/ (Busy /\ ~m.force)
              /\ UNCHANGED <<overlay, available, call>>
           \/ /\ m.allowed /\ ~BreakerOpen(m, fails, ffp)
              /\ ~inFlight /\ ~(Busy /\ ~m.force)
              /\ IF Busy /\ stuck THEN SetProgress("none")
                                  ELSE UNCHANGED overlay
              /\ call' = IF m.needed
                           THEN [call EXCEPT ![c].at = "disk", ![c].m = m,
                                             ![c].silent = silent]
                           ELSE call
              /\ UNCHANGED available
  /\ UNCHANGED <<ready, inFlight, dismissReq, handoff, bounds>>

\* A heartbeat answer carries the configuration; only a newer one is applied
\* and has its manifest checked.
Heartbeat(c) ==
  /\ Alive /\ server.ver > applied
  /\ applied' = server.ver
  /\ IF server.m = None
       THEN UNCHANGED <<ready, lastFp, breaker, inFlight, dismissReq, overlay,
                        available, call, handoff, bounds>>
       ELSE Check(c, server.m, TRUE, failures, failedFp)
  /\ UNCHANGED server

\* The admin pushes update_available over the WebSocket.
WebSocketPush(c, m) ==
  /\ Alive
  /\ Check(c, m, FALSE, failures, failedFp)
  /\ UNCHANGED delivery

\* The Settings button (UPDATE AVAILABLE or RETRY UPDATE).
SettingsTap(c) ==
  /\ Alive /\ available # None /\ progress \in {"none", "failed"}
  /\ Check(c, available, FALSE, 0, None)
  /\ UNCHANGED delivery

\* The second in-flight check, made with the claim and without an await between.
ClaimRefused_Never == FALSE
ClaimRefused == inFlight

\* The disk-space probe answered; the single-flight claim follows at once.
DiskProbe(c, enough) ==
  /\ Alive /\ call[c].at = "disk"
  /\ IF enough
       THEN /\ available' = call[c].m
            /\ inFlight' = TRUE
            /\ call' = [call EXCEPT ![c] = IF ClaimRefused THEN IdleCall
                                         ELSE [@ EXCEPT !.at = "backup"]]
            /\ UNCHANGED overlay
       ELSE /\ SetProgress("failed")
            /\ call' = [call EXCEPT ![c] = IdleCall]
            /\ UNCHANGED <<inFlight, available>>
  /\ UNCHANGED <<ready, lastFp, breaker, dismissReq, handoff, delivery,
                 bounds>>

-----------------------------------------------------------------------------
(***************************************************************************)
(* _startUpdate and _startUpdatePipeline                                   *)
(***************************************************************************)

\* The finally of _startUpdate.
Finished_NoRelease(c) ==
  call' = [call EXCEPT ![c] = IdleCall] /\ UNCHANGED inFlight
Finished(c) ==
  call' = [call EXCEPT ![c] = IdleCall] /\ inFlight' = FALSE

\* _startUpdate after the pipeline threw: allow a re-check, count the failure.
PipelineThrew(c) ==
  /\ lastFp' = None
  /\ failedFp' = FingerprintOf(call[c].m)
  /\ failures' = IF failedFp = FingerprintOf(call[c].m) THEN failures + 1 ELSE 1
  /\ Finished(c)

\* _startUpdate after the pipeline returned without exiting the process.
PipelineReturned(c) ==
  /\ failures' = 0 /\ failedFp' = None
  /\ Finished(c)
  /\ UNCHANGED lastFp

\* preserveCurrentInstall answered; without a backup the update is aborted.
Backup(c, ok) ==
  /\ Alive /\ call[c].at = "backup"
  /\ IF ok
       THEN /\ SetProgress("downloading")
            /\ call' = [call EXCEPT ![c].at = "download", ![c].backedUp = TRUE]
            /\ UNCHANGED <<lastFp, breaker, inFlight>>
       ELSE SetProgress("failed") /\ PipelineThrew(c)
  /\ UNCHANGED <<ready, dismissReq, available, handoff, delivery, bounds>>

\* What the download loop and its two exits look at.
DismissSeen_Never == FALSE
DismissSeen == dismissReq

\* The mandatory SHA-256 verification.
HashAccepted_Optional(m, content) == m.hash => content = "good"
HashAccepted(m, content) == m.hash /\ content = "good"

\* The download was dismissed: the pipeline returns as if it had succeeded.
DownloadDismissed(c) ==
  /\ Alive /\ call[c].at = "download" /\ DismissSeen
  /\ dismissReq' = FALSE
  /\ PipelineReturned(c)
  /\ UNCHANGED <<ready, overlay, available, handoff, delivery, bounds>>

\* A chunk arrived: the overlay says downloading, and is young again.
Chunk(c) ==
  /\ Alive /\ call[c].at = "download" /\ ~DismissSeen
  /\ SetProgress("downloading")
  /\ UNCHANGED <<ready, lastFp, breaker, inFlight, dismissReq, available, call,
                 handoff, delivery, bounds>>

\* The download failed; a silent caller leaves the overlay as it is.
DownloadFailed(c) ==
  /\ Alive /\ call[c].at = "download" /\ ~DismissSeen
  /\ IF call[c].silent THEN UNCHANGED overlay
                       ELSE SetProgress("failed")
  /\ PipelineThrew(c)
  /\ UNCHANGED <<ready, dismissReq, available, handoff, delivery, bounds>>

\* The bytes arrived; the hash is verified without another await.
DownloadDone(c, content) ==
  /\ Alive /\ call[c].at = "download" /\ ~DismissSeen
  /\ IF HashAccepted(call[c].m, content)
       THEN /\ SetProgress("installing")
            /\ call' = [call EXCEPT ![c].at = "launch",
                                    ![c].content = content]
            /\ UNCHANGED <<lastFp, breaker, inFlight>>
       ELSE SetProgress("failed") /\ PipelineThrew(c)
  /\ UNCHANGED <<ready, dismissReq, available, handoff, delivery, bounds>>

\* The update agent was started, or could not be.
Launch(c, ok) ==
  /\ Alive /\ call[c].at = "launch"
  /\ IF ok
       THEN /\ SetProgress("completed")
            /\ handoff' = call[c]
            /\ UNCHANGED <<lastFp, breaker, inFlight, call>>
       ELSE /\ SetProgress("failed") /\ PipelineThrew(c)
            /\ UNCHANGED handoff
  /\ UNCHANGED <<ready, dismissReq, available, delivery, bounds>>

-----------------------------------------------------------------------------
(***************************************************************************)
(* The user, time, the server and the process                              *)
(***************************************************************************)

\* dismiss(): the overlay is shown unless progress is null, and has the
\* button unless the update completed.
Dismiss ==
  /\ Alive /\ progress \notin {"none", "completed"}
  /\ dismissals < MaxDismiss /\ dismissals' = dismissals + 1
  /\ dismissReq' = TRUE
  /\ SetProgress("none")
  /\ lastFp' = None
  /\ call' = [c \in Call |->
               [call[c] EXCEPT
                  !.cancelled = @ \/ call[c].at \in {"backup", "download"},
                  !.closed    = @ \/ call[c].at = "download"]]
  /\ UNCHANGED <<ready, breaker, inFlight, available, handoff, delivery,
                 restarts>>

\* Thirty seconds after AutoUpdater.init.
StartupGuardEnds ==
  /\ ~ready /\ ready' = TRUE
  /\ UNCHANGED <<lastFp, breaker, inFlight, dismissReq, overlay, available,
                 call, handoff, delivery, bounds>>

FiveMinutesPass ==
  /\ Busy /\ ~stuck /\ stuck' = TRUE
  /\ UNCHANGED <<ready, lastFp, breaker, inFlight, dismissReq, progress,
                 available, call, handoff, delivery, bounds>>

\* The backend is deployed again with a higher CONFIG_VERSION and with
\* manifest m, or none, in its environment.
Deploy(m) ==
  /\ server.ver < MaxConfig
  /\ server' = [ver |-> server.ver + 1, m |-> m]
  /\ UNCHANGED <<ready, lastFp, breaker, inFlight, dismissReq, overlay,
                 available, call, handoff, applied, bounds>>

\* ci_upload records a release.  It stores no SHA-256 and the configuration
\* version, which comes from the environment, stays what it was.
Release(m) ==
  /\ ~m.hash /\ server' = [server EXCEPT !.m = m]
  /\ UNCHANGED <<ready, lastFp, breaker, inFlight, dismissReq, overlay,
                 available, call, handoff, applied, bounds>>

\* The idle screen is built again after a session: startBackgroundProtocols
\* runs once more, and AutoUpdater.init restarts the 30 seconds.
ProtocolsRestart ==
  /\ Alive /\ restarts < MaxRestart /\ restarts' = restarts + 1
  /\ ready' = FALSE
  /\ UNCHANGED <<lastFp, breaker, inFlight, dismissReq, overlay, available,
                 call, handoff, delivery, dismissals>>

\* exit(0) after the handoff, or a crash at any moment; the operating system
\* or the update agent starts the application again with its old version when
\* the update did not take.
Restart ==
  /\ restarts < MaxRestart /\ restarts' = restarts + 1
  /\ ready' = FALSE /\ inFlight' = FALSE /\ dismissReq' = FALSE
  /\ stuck' = FALSE /\ lastFp' = None /\ failedFp' = None /\ failures' = 0
  /\ progress' = "none" /\ available' = None
  /\ call' = [c \in Call |-> IdleCall]
  /\ applied' = 0 /\ handoff' = None
  /\ UNCHANGED <<server, dismissals>>

PipelineStep(c) ==
  \/ \E ok \in BOOLEAN : DiskProbe(c, ok) \/ Backup(c, ok) \/ Launch(c, ok)
  \/ DownloadDismissed(c)
  \/ DownloadFailed(c) \/ Chunk(c)
  \/ \E content \in {"good", "bad"} : DownloadDone(c, content)

Next ==
  \/ \E c \in Call :
       \/ Heartbeat(c)
       \/ \E m \in Manifest : WebSocketPush(c, m)
       \/ SettingsTap(c)
       \/ PipelineStep(c)
  \/ Dismiss
  \/ StartupGuardEnds
  \/ FiveMinutesPass
  \/ \E m \in Manifest \cup {None} : Deploy(m)
  \/ \E m \in Manifest : Release(m)
  \/ ProtocolsRestart
  \/ Restart

Spec == Init /\ [][Next]_vars

(***************************************************************************)
(* Fairness.  Every await of the pipeline is answered, except the body of  *)
(* a download: only its first answer has a timeout, so a stalled stream    *)
(* may stay open for ever unless dismiss() closed its client, which makes  *)
(* it fail.  The startup guard ends with time and heartbeats are periodic. *)
(***************************************************************************)
PipelineFairness ==
  \A c \in Call :
    /\ WF_vars(\E ok \in BOOLEAN : DiskProbe(c, ok) \/ Backup(c, ok)
                                     \/ Launch(c, ok))
    /\ WF_vars(call[c].closed /\ (DownloadDismissed(c) \/ DownloadFailed(c)))
BoardFairness ==
  /\ PipelineFairness
  /\ WF_vars(StartupGuardEnds)
  /\ WF_vars(\E c \in Call : Heartbeat(c))

PipelineSpec == Spec /\ PipelineFairness
FairSpec == Spec /\ BoardFairness

-----------------------------------------------------------------------------
(***************************************************************************)
(* Properties that hold                                                    *)
(***************************************************************************)

\* Two updates never run at the same time, however the heartbeat, the push
\* and the Settings button interleave around the disk-space await.
SingleFlight ==
  \A c, d \in Call :
    call[c].at \in Running /\ call[d].at \in Running => c = d

\* _updatePipelineInFlight is set exactly while a pipeline runs: no exit of
\* the pipeline leaves it set, which would block every later update.
InFlightIsPipeline ==
  inFlight <=> \E c \in Call : call[c].at \in Running

\* An installer reaches the update agent only with a backup to roll back to,
\* for a manifest the policy allows, with bytes that match its SHA-256.
HandoffVerified ==
  handoff # None =>
    /\ handoff.backedUp /\ handoff.m.allowed /\ handoff.m.needed
    /\ handoff.m.hash /\ handoff.content = "good"

\* A pipeline the user dismissed before its download ended never installs,
\* whatever the download yields afterwards.
CancelHonoured == handoff # None => ~handoff.cancelled

\* The breaker is read before the disk-space await and not again, so it can be
\* overrun, but by no more than the checks that were suspended at that moment.
BreakerOvershoot == failures <= MaxFailures - 1 + Cardinality(Call)

\* Dismissing a running download releases the pipeline for the next manifest.
DismissReleases == (\E c \in Call : call[c].closed) ~> ~inFlight

-----------------------------------------------------------------------------
(***************************************************************************)
(* The pipeline implements SafeUpdate: a call that runs is the update, its *)
(* stage read from what its record has accumulated, not from its await.    *)
(***************************************************************************)
Stage(r) ==
  IF r.cancelled THEN "cancelled"
  ELSE IF ~r.backedUp THEN "begun"
  ELSE IF r.at = "launch" /\ r.m.hash /\ r.content = "good" THEN "verified"
  ELSE "secured"
UpdateOf(c, r) == [by |-> c, m |-> r.m, stage |-> Stage(r)]

Eligible == {m \in Manifest : m.allowed /\ m.needed}
Updates == {UpdateOf(c, call[c]) : c \in {d \in Call : call[d].at \in Running}}
Handed == IF handoff = None THEN {} ELSE {handoff.m}

S == INSTANCE SafeUpdate WITH Workers <- Call, updates <- Updates, handed <- Handed

\* Whatever interleaves around its awaits, the pipeline takes only the steps of a
\* safe update: one at a time, nothing handed over unsecured, unverified or
\* cancelled, and nothing begun, cancelled or ended after the hand-over.
IsSafeUpdate == S!SSpec

(***************************************************************************)
(* Claims of the sources that the code does not keep                       *)
(***************************************************************************)

\* auto_updater.dart: progress is "null when idle, populated during active
\* update".
OverlayMeansActive == Busy => inFlight

\* availableUpdate "survives dismiss so user can retry later": a pipeline ends
\* as dismissed only if the user dismissed it, not an earlier overlay.
RetrySurvivesDismiss ==
  [][\A c \in Call : DownloadDismissed(c) => call[c].cancelled]_vars

\* main.dart: a pending update "is caught within seconds of launch".
PendingCaught ==
  \A m \in Manifest : server.m = m /\ server.ver > applied ~> lastFp = m.fp
=============================================================================
