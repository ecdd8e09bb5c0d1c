------------------------ MODULE UpdatePipeline_proofs ------------------------
(***************************************************************************)
(* Theorems about UpdatePipeline for every set of manifests, fingerprints  *)
(* and concurrent calls, and every value of the bounds.                    *)
(*                                                                         *)
(* SuspendedValid says what has been established where a call is           *)
(* suspended; SingleFlight and InFlightIsPipeline make it inductive.  They *)
(* are also what the refinement of SafeUpdate needs: at most one update,   *)
(* at the stage its record shows.                                          *)
(***************************************************************************)
EXTENDS UpdatePipeline, FiniteSetTheorems, TLAPS

\* A step of Check, whatever breaker counters its caller leaves, keeps the types.
LEMMA CheckType ==
  ASSUME TypeOK,
         NEW c \in Call, NEW m \in Manifest, NEW silent \in BOOLEAN,
         NEW fails \in Nat, NEW ffp \in Fingerprint \cup {None},
         Check(c, m, silent, fails, ffp),
         server' = server, applied' \in 0..MaxConfig
  PROVE  TypeOK'
<1>1. m.fp \in Fingerprint
  BY ManifestAssumption DEF ManifestShape
<1>2. /\ lastFp' \in Fingerprint \cup {None} /\ available' \in Manifest \cup {None}
      /\ progress' \in Overlay /\ stuck' \in BOOLEAN
      /\ failures' \in Nat /\ failedFp' \in Fingerprint \cup {None}
  BY <1>1 DEF Check, TypeOK, Overlay, overlay, SetProgress, FingerprintOf
<1>3. call' \in [Call -> CallShape]
  <2>1. CASE call' = call
    BY <2>1 DEF TypeOK
  <2>2. CASE call' = [call EXCEPT ![c].at = "disk", ![c].m = m, ![c].silent = silent]
    <3>1. [call[c] EXCEPT !.at = "disk", !.m = m, !.silent = silent] \in CallShape
      <4>1. call[c] \in CallShape
        BY DEF TypeOK
      <4> QED
        BY <4>1 DEF CallShape
    <3> QED
      BY <2>2, <3>1 DEF TypeOK
  <2> QED
    BY <2>1, <2>2 DEF Check
<1> QED
  BY <1>2, <1>3 DEF TypeOK, Check, bounds

\* The pipeline's bookkeeping after an exception keeps the types.
LEMMA ThrewType ==
  ASSUME TypeOK, NEW c \in Call, call[c].m \in Manifest, PipelineThrew(c)
  PROVE  /\ lastFp' \in Fingerprint \cup {None}
         /\ failedFp' \in Fingerprint \cup {None}
         /\ failures' \in Nat
         /\ inFlight' \in BOOLEAN
         /\ call' \in [Call -> CallShape]
<1>1. call[c].m.fp \in Fingerprint
  BY ManifestAssumption DEF ManifestShape
<1>2. IdleCall \in CallShape
  BY DEF IdleCall, CallShape, Running
<1>3. call \in [Call -> CallShape] /\ failures \in Nat
  BY DEF TypeOK
<1>4. call' \in [Call -> CallShape]
  BY <1>2, <1>3 DEF PipelineThrew, Finished
<1>5. failures' \in Nat
  BY <1>3 DEF PipelineThrew
<1> QED
  BY <1>1, <1>4, <1>5 DEF PipelineThrew, Finished, FingerprintOf

(***************************************************************************)
(* The inductive invariant.  TypeOK and the two in-flight properties are   *)
(* not inductive: what a pipeline hands over rests on what was established *)
(* at each of its earlier awaits, and that a cancelled pipeline stops rests *)
(* on _dismissRequested still being set, which another pipeline could clear *)
(* if two of them ran.                                                     *)
(***************************************************************************)
SuspendedValid ==
  \A c \in Call :
    /\ call[c].at # "idle" =>
         call[c].m \in Manifest /\ call[c].m.allowed /\ call[c].m.needed
    /\ call[c].backedUp <=> call[c].at \in {"download", "launch"}
    /\ call[c].at = "launch" => call[c].m.hash /\ call[c].content = "good"
    /\ call[c].cancelled => dismissReq /\ call[c].at \in {"backup", "download"}

IInv ==
  /\ TypeOK
  /\ SuspendedValid
  /\ SingleFlight /\ InFlightIsPipeline
  /\ HandoffVerified /\ CancelHonoured

\* The initial states satisfy the invariant.
LEMMA InitIInv == Init => IInv
<1> SUFFICES ASSUME Init PROVE IInv
  OBVIOUS
<1> USE DEF Init, FreshProcess
<1>1. IdleCall \in CallShape
  BY DEF IdleCall, CallShape, Running
<1>2. TypeOK
  <2>1. call \in [Call -> CallShape]
    BY <1>1
  <2>2. server \in [ver : 1..MaxConfig, m : Manifest \cup {None}]
    BY BoundAssumption
  <2>3. applied \in 0..MaxConfig /\ dismissals \in 0..MaxDismiss
        /\ restarts \in 0..MaxRestart
    BY BoundAssumption
  <2>4. handoff \in {r \in CallShape : r.at = "launch"} \cup {None}
    OBVIOUS
  <2>5. progress \in Overlay
    BY DEF Overlay
  <2> HIDE DEF FreshProcess
  <2>6. available = None /\ lastFp = None /\ failedFp = None /\ failures = 0
        /\ ~ready /\ ~inFlight /\ ~dismissReq /\ ~stuck
        /\ ready = FALSE /\ inFlight = FALSE /\ dismissReq = FALSE /\ stuck = FALSE
    BY DEF FreshProcess
  <2> QED
    BY <2>1, <2>2, <2>3, <2>4, <2>5, <2>6 DEF TypeOK
<1>3. \A c \in Call : call[c].at = "idle" /\ ~call[c].cancelled /\ ~call[c].backedUp
  BY DEF IdleCall
<1> QED
  BY <1>2, <1>3
  DEF IInv, SuspendedValid, SingleFlight, InFlightIsPipeline, HandoffVerified,
      CancelHonoured, Running

\* Every entry into checkForUpdate is a Check by some caller.
LEMMA Callers ==
  ASSUME TypeOK, NEW c \in Call,
         Heartbeat(c) \/ (\E m \in Manifest : WebSocketPush(c, m)) \/ SettingsTap(c)
  PROVE  /\ Alive /\ server' = server /\ applied' \in 0..MaxConfig
         /\ \/ UNCHANGED <<ready, lastFp, breaker, inFlight, dismissReq,
                           overlay, available, call, handoff, bounds>>
            \/ \E m \in Manifest, silent \in BOOLEAN, fails \in Nat,
                  ffp \in Fingerprint \cup {None} :
                  /\ fails = 0 \/ (fails = failures /\ ffp = failedFp)
                  /\ Check(c, m, silent, fails, ffp)
<1>1. CASE Heartbeat(c)
  <2>1. server.m = None \/ server.m \in Manifest
    BY DEF TypeOK
  <2>2. server.ver \in 0..MaxConfig
    BY DEF TypeOK
  <2>3. failures \in Nat /\ failedFp \in Fingerprint \cup {None}
    BY DEF TypeOK
  <2>4. CASE server.m = None
    BY <1>1, <2>2, <2>4 DEF Heartbeat
  <2>5. CASE server.m # None
    BY <1>1, <2>1, <2>2, <2>3, <2>5 DEF Heartbeat
  <2> QED
    BY <2>4, <2>5
<1>2. ASSUME NEW m \in Manifest, WebSocketPush(c, m)
      PROVE  /\ Alive /\ server' = server /\ applied' \in 0..MaxConfig
             /\ Check(c, m, FALSE, failures, failedFp)
             /\ failures \in Nat /\ failedFp \in Fingerprint \cup {None}
  BY <1>2 DEF WebSocketPush, delivery, TypeOK
<1>3. CASE SettingsTap(c)
  BY <1>3 DEF SettingsTap, delivery, TypeOK
<1> QED
  BY <1>1, <1>2, <1>3

\* The part of IInv that is about the calls, the flag and the handoff.
Flight ==
  SuspendedValid /\ SingleFlight /\ InFlightIsPipeline
    /\ HandoffVerified /\ CancelHonoured

\* A step that leaves the calls, the flags and the handoff alone keeps Flight.
LEMMA Unaffected ==
  ASSUME Flight, UNCHANGED <<call, inFlight, dismissReq, handoff>>
  PROVE  Flight'
BY DEF Flight, SuspendedValid, SingleFlight, InFlightIsPipeline,
       HandoffVerified, CancelHonoured

\* However a pipeline ends, Flight holds afterwards: nothing else was running,
\* so no other call is cancelled and the flag may be cleared.
LEMMA EndedFlight ==
  ASSUME TypeOK, Flight, Alive, NEW c \in Call, call[c].at \in Running,
         Finished(c), handoff' = handoff
  PROVE  Flight'
<1>1. call' = [d \in Call |-> IF d = c THEN IdleCall ELSE call[d]]
  BY DEF Finished, TypeOK
<1>2. IdleCall.at = "idle" /\ ~IdleCall.cancelled /\ ~IdleCall.backedUp
  BY DEF IdleCall
<1>3. \A d \in Call : call'[d].at \notin Running
  BY <1>1, <1>2 DEF Flight, SingleFlight, Running
<1>4. \A d \in Call : ~call'[d].cancelled
  BY <1>1, <1>2, <1>3 DEF Flight, SuspendedValid, Running
<1>5. SuspendedValid'
  BY <1>1, <1>2, <1>3, <1>4 DEF Flight, SuspendedValid, Running
<1>6. SingleFlight' /\ InFlightIsPipeline'
  BY <1>3 DEF Finished, SingleFlight, InFlightIsPipeline
<1> QED
  BY <1>5, <1>6 DEF Flight, Alive, HandoffVerified, CancelHonoured

\* A pipeline that moves from one await to the next, or a call that claims the
\* pipeline while nothing runs, keeps Flight if the next await's record is valid.
LEMMA AdvancedFlight ==
  ASSUME TypeOK, Flight, Alive, NEW c \in Call, NEW r \in CallShape,
         call' = [call EXCEPT ![c] = r], inFlight' = TRUE,
         UNCHANGED <<dismissReq, handoff>>,
         call[c].at \in Running \/ ~inFlight,
         r.at \in Running,
         r.m \in Manifest /\ r.m.allowed /\ r.m.needed,
         r.backedUp <=> r.at \in {"download", "launch"},
         r.at = "launch" => r.m.hash /\ r.content = "good",
         r.cancelled => dismissReq /\ r.at \in {"backup", "download"}
  PROVE  Flight'
<1>1. call' = [d \in Call |-> IF d = c THEN r ELSE call[d]]
  BY DEF TypeOK
<1>2. \A d \in Call : d # c => call[d].at \notin Running
  BY DEF Flight, SingleFlight, InFlightIsPipeline
<1>3. SuspendedValid'
  <2> SUFFICES ASSUME NEW d \in Call
               PROVE  /\ call'[d].at # "idle" =>
                           /\ call'[d].m \in Manifest
                           /\ call'[d].m.allowed /\ call'[d].m.needed
                      /\ call'[d].backedUp <=> call'[d].at \in {"download", "launch"}
                      /\ call'[d].at = "launch" =>
                           call'[d].m.hash /\ call'[d].content = "good"
                      /\ call'[d].cancelled =>
                           dismissReq' /\ call'[d].at \in {"backup", "download"}
    BY DEF SuspendedValid
  <2>1. CASE d = c
    BY <1>1, <2>1
  <2>2. CASE d # c
    BY <1>1, <2>2 DEF Flight, SuspendedValid
  <2> QED
    BY <2>1, <2>2
<1>4. SingleFlight' /\ InFlightIsPipeline'
  BY <1>1, <1>2 DEF SingleFlight, InFlightIsPipeline
<1> QED
  BY <1>3, <1>4 DEF Flight, Alive, HandoffVerified, CancelHonoured

\* checkForUpdate up to its await may suspend one more call at the disk probe,
\* which is not a running pipeline.
LEMMA CheckFlight ==
  ASSUME TypeOK, Flight, Alive,
         NEW c \in Call, NEW m \in Manifest, NEW silent \in BOOLEAN,
         NEW fails \in Nat, NEW ffp \in Fingerprint \cup {None},
         Check(c, m, silent, fails, ffp)
  PROVE  Flight'
<1>0. UNCHANGED <<inFlight, dismissReq, handoff>>
  BY DEF Check
<1>1. CASE call' = call
  BY <1>0, <1>1, Unaffected
<1>2. CASE call' # call
  <2>1. /\ call[c].at = "idle" /\ m.allowed /\ m.needed
        /\ call' = [call EXCEPT ![c].at = "disk", ![c].m = m, ![c].silent = silent]
    BY <1>2 DEF Check
  <2> DEFINE r == [call[c] EXCEPT !.at = "disk", !.m = m, !.silent = silent]
  <2>2. /\ r.at = "disk" /\ r.m = m /\ r.cancelled = call[c].cancelled
        /\ r.backedUp = call[c].backedUp
        /\ call' = [d \in Call |-> IF d = c THEN r ELSE call[d]]
    BY <2>1 DEF TypeOK, CallShape
  <2>3. ~call[c].cancelled /\ ~call[c].backedUp
    BY <2>1 DEF Flight, SuspendedValid
  <2>4. SuspendedValid'
    BY <1>0, <2>1, <2>2, <2>3 DEF Flight, SuspendedValid
  <2>5. \A d \in Call : call'[d].at \in Running <=> call[d].at \in Running
    BY <2>1, <2>2 DEF Running
  <2>6. SingleFlight' /\ InFlightIsPipeline'
    BY <1>0, <2>5 DEF Flight, SingleFlight, InFlightIsPipeline
  <2> QED
    BY <1>0, <2>4, <2>6 DEF Flight, HandoffVerified, CancelHonoured
<1> QED
  BY <1>1, <1>2

\* Every step keeps the invariant.
LEMMA NextIInv == IInv /\ [Next]_vars => IInv'
<1> SUFFICES ASSUME IInv, [Next]_vars PROVE TypeOK' /\ Flight'
  BY DEF IInv, Flight
<1>0. TypeOK /\ Flight
  BY DEF IInv, Flight
<1> USE <1>0
<1> HIDE DEF IInv
<1>t. /\ call \in [Call -> CallShape] /\ IdleCall \in CallShape
      /\ failures \in Nat /\ available \in Manifest \cup {None}
  BY DEF TypeOK, IdleCall, CallShape, Running
<1>1. ASSUME NEW c \in Call,
             Heartbeat(c) \/ (\E m \in Manifest : WebSocketPush(c, m)) \/ SettingsTap(c)
      PROVE  TypeOK' /\ Flight'
  <2>1. /\ Alive /\ server' = server /\ applied' \in 0..MaxConfig
        /\ \/ UNCHANGED <<ready, lastFp, breaker, inFlight, dismissReq,
                          overlay, available, call, handoff, bounds>>
           \/ \E m \in Manifest, silent \in BOOLEAN, fails \in Nat,
                 ffp \in Fingerprint \cup {None} : Check(c, m, silent, fails, ffp)
    BY <1>1, Callers
  <2>2. CASE UNCHANGED <<ready, lastFp, breaker, inFlight, dismissReq,
                         overlay, available, call, handoff, bounds>>
    BY <2>1, <2>2, Unaffected DEF TypeOK, breaker, overlay, bounds
  <2>3. ASSUME NEW m \in Manifest, NEW silent \in BOOLEAN, NEW fails \in Nat,
               NEW ffp \in Fingerprint \cup {None}, Check(c, m, silent, fails, ffp)
        PROVE  TypeOK' /\ Flight'
    BY <2>1, <2>3, CheckType, CheckFlight
  <2> QED
    BY <2>1, <2>2, <2>3
<1>2. ASSUME NEW c \in Call, NEW ok \in BOOLEAN, DiskProbe(c, ok)
      PROVE  TypeOK' /\ Flight'
  <2>0. call[c].at = "disk" /\ call[c].m \in Manifest /\ ~call[c].cancelled
        /\ ~call[c].backedUp /\ call[c].m.allowed /\ call[c].m.needed
    BY <1>2 DEF DiskProbe, Flight, SuspendedValid
  <2> DEFINE r == [call[c] EXCEPT !.at = "backup"]
  <2>1. r \in CallShape /\ r.at = "backup" /\ r.m = call[c].m
        /\ r.cancelled = call[c].cancelled /\ r.backedUp = call[c].backedUp
    BY <1>t DEF CallShape, Running
  <2>2. CASE ok /\ ~inFlight
    <3>1. call' = [call EXCEPT ![c] = r] /\ inFlight' = TRUE
      BY <1>2, <2>2, <1>t DEF DiskProbe, ClaimRefused
    <3>2. Flight'
      BY <1>2, <2>0, <2>1, <2>2, <3>1, AdvancedFlight DEF DiskProbe, Running
    <3>3. call' \in [Call -> CallShape]
      BY <3>1, <2>1, <1>t
    <3> QED
      BY <1>2, <2>0, <2>2, <3>1, <3>2, <3>3
      DEF DiskProbe, TypeOK, breaker, overlay, delivery, bounds
  <2>3. CASE ~(ok /\ ~inFlight)
    <3>1. call' = [call EXCEPT ![c] = IdleCall] /\ inFlight' = inFlight
      BY <1>2, <2>3 DEF DiskProbe, ClaimRefused, TypeOK
    <3>2. /\ IdleCall.at = "idle" /\ ~IdleCall.cancelled /\ ~IdleCall.backedUp
          /\ call' = [d \in Call |-> IF d = c THEN IdleCall ELSE call[d]]
      BY <3>1, <1>t DEF IdleCall
    <3>3. SuspendedValid'
      BY <1>2, <3>2 DEF Flight, SuspendedValid, DiskProbe
    <3>4. \A d \in Call : call'[d].at \in Running <=> call[d].at \in Running
      BY <2>0, <3>2 DEF Running
    <3>5. SingleFlight' /\ InFlightIsPipeline'
      BY <3>1, <3>4 DEF Flight, SingleFlight, InFlightIsPipeline
    <3>6. Flight'
      BY <1>2, <3>3, <3>5 DEF DiskProbe, Flight, HandoffVerified, CancelHonoured
    <3>7. call' \in [Call -> CallShape]
      BY <3>1, <1>t
    <3>8. progress' \in Overlay /\ stuck' \in BOOLEAN /\ available' \in Manifest \cup {None}
      BY <1>2, <2>0 DEF DiskProbe, TypeOK, Overlay, SetProgress, overlay
    <3>9. UNCHANGED <<ready, lastFp, breaker, dismissReq, handoff, delivery, bounds>>
      BY <1>2 DEF DiskProbe
    <3>10. TypeOK'
      BY <3>1, <3>7, <3>8, <3>9 DEF TypeOK, breaker, delivery, bounds
    <3> QED
      BY <3>6, <3>10
  <2> QED
    BY <2>2, <2>3
<1>3. ASSUME NEW c \in Call, NEW ok \in BOOLEAN, Backup(c, ok)
      PROVE  TypeOK' /\ Flight'
  <2>0. call[c].at = "backup" /\ call[c].m \in Manifest
        /\ call[c].m.allowed /\ call[c].m.needed
    BY <1>3 DEF Backup, Flight, SuspendedValid
  <2>1. CASE ok
    <3> DEFINE r == [call[c] EXCEPT !.at = "download", !.backedUp = TRUE]
    <3>1. /\ r \in CallShape /\ r.at = "download" /\ r.backedUp
          /\ r.m = call[c].m /\ r.cancelled = call[c].cancelled
          /\ call' = [call EXCEPT ![c] = r]
      BY <1>3, <2>1, <1>t DEF Backup, CallShape, Running
    <3>2. inFlight
      BY <2>0 DEF Flight, InFlightIsPipeline, Running
    <3>3. Flight'
      <4>1. r.cancelled => dismissReq
        BY <2>0, <3>1 DEF Flight, SuspendedValid
      <4>2. inFlight' = TRUE /\ UNCHANGED <<dismissReq, handoff>> /\ Alive
        BY <1>3, <2>1, <3>2 DEF Backup, TypeOK
      <4> HIDE DEF r
      <4> QED
        BY <2>0, <3>1, <4>1, <4>2, AdvancedFlight DEF Running
    <3>4. call' \in [Call -> CallShape]
      BY <3>1, <1>t
    <3> QED
      BY <1>3, <2>1, <3>3, <3>4
      DEF Backup, TypeOK, Overlay, SetProgress, breaker, delivery, bounds
  <2>2. CASE ~ok
    BY <1>3, <2>0, <2>2, ThrewType, EndedFlight
    DEF Backup, PipelineThrew, Running, TypeOK, Overlay, SetProgress, delivery, bounds
  <2> QED
    BY <2>1, <2>2
<1>4. ASSUME NEW c \in Call, DownloadDismissed(c)
      PROVE  TypeOK' /\ Flight'
  <2>1. Flight'
    BY <1>4, EndedFlight DEF DownloadDismissed, PipelineReturned, Running
  <2>2. call' \in [Call -> CallShape]
    BY <1>4, <1>t DEF DownloadDismissed, PipelineReturned, Finished
  <2> QED
    BY <1>4, <2>1, <2>2
    DEF DownloadDismissed, PipelineReturned, Finished, TypeOK, overlay, delivery, bounds
<1>5. ASSUME NEW c \in Call, DownloadFailed(c)
      PROVE  TypeOK' /\ Flight'
  <2>0. call[c].at = "download" /\ call[c].m \in Manifest
    BY <1>5 DEF DownloadFailed, Flight, SuspendedValid
  <2>1. Flight'
    BY <1>5, <2>0, EndedFlight DEF DownloadFailed, PipelineThrew, Running
  <2> QED
    BY <1>5, <2>0, <2>1, ThrewType
    DEF DownloadFailed, TypeOK, Overlay, SetProgress, overlay, delivery, bounds
<1>6. ASSUME NEW c \in Call, Chunk(c)
      PROVE  TypeOK' /\ Flight'
  BY <1>6, Unaffected
  DEF Chunk, TypeOK, Overlay, SetProgress, breaker, delivery, bounds
<1>7. ASSUME NEW c \in Call, NEW content \in {"good", "bad"}, DownloadDone(c, content)
      PROVE  TypeOK' /\ Flight'
  <2>0. /\ call[c].at = "download" /\ call[c].m \in Manifest /\ call[c].backedUp
        /\ call[c].m.allowed /\ call[c].m.needed
        /\ ~dismissReq /\ ~call[c].cancelled
    BY <1>7 DEF DownloadDone, DismissSeen, Flight, SuspendedValid
  <2>1. CASE HashAccepted(call[c].m, content)
    <3> DEFINE r == [call[c] EXCEPT !.at = "launch", !.content = content]
    <3>1. /\ r \in CallShape /\ r.at = "launch" /\ r.content = content
          /\ r.backedUp = call[c].backedUp
          /\ r.m = call[c].m /\ r.cancelled = call[c].cancelled
          /\ call' = [call EXCEPT ![c] = r]
      BY <1>7, <2>1, <1>t DEF DownloadDone, CallShape, Running
    <3>2. inFlight
      BY <2>0 DEF Flight, InFlightIsPipeline, Running
    <3>3. inFlight' = TRUE /\ UNCHANGED <<dismissReq, handoff>> /\ Alive
      BY <1>7, <2>1, <3>2 DEF DownloadDone, TypeOK
    <3>4. call[c].m.hash /\ content = "good"
      BY <2>1 DEF HashAccepted
    <3>5. Flight'
      <4> HIDE DEF r
      <4> QED
        BY <2>0, <3>1, <3>3, <3>4, AdvancedFlight DEF Running
    <3>6. call' \in [Call -> CallShape]
      BY <3>1, <1>t
    <3> QED
      BY <1>7, <2>1, <3>5, <3>6
      DEF DownloadDone, TypeOK, Overlay, SetProgress, breaker, delivery, bounds
  <2>2. CASE ~HashAccepted(call[c].m, content)
    <3>1. Flight'
      BY <1>7, <2>0, <2>2, EndedFlight DEF DownloadDone, PipelineThrew, Running
    <3> QED
      BY <1>7, <2>0, <2>2, <3>1, ThrewType
      DEF DownloadDone, TypeOK, Overlay, SetProgress, delivery, bounds
  <2> QED
    BY <2>1, <2>2
<1>8. ASSUME NEW c \in Call, NEW ok \in BOOLEAN, Launch(c, ok)
      PROVE  TypeOK' /\ Flight'
  <2>0. /\ call[c].at = "launch" /\ call[c].m \in Manifest /\ call[c].backedUp
        /\ call[c].m.allowed /\ call[c].m.needed
        /\ call[c].m.hash /\ call[c].content = "good" /\ ~call[c].cancelled
    BY <1>8 DEF Launch, Flight, SuspendedValid
  <2>1. CASE ok
    <3>1. handoff' = call[c] /\ UNCHANGED <<call, inFlight, dismissReq>>
      BY <1>8, <2>1 DEF Launch
    <3>2. Flight'
      BY <2>0, <3>1
      DEF Flight, SuspendedValid, SingleFlight, InFlightIsPipeline,
          HandoffVerified, CancelHonoured
    <3>3. handoff' \in {r \in CallShape : r.at = "launch"} \cup {None}
      BY <2>0, <3>1, <1>t
    <3> QED
      BY <1>8, <2>1, <3>2, <3>3
      DEF Launch, TypeOK, Overlay, SetProgress, breaker, delivery, bounds
  <2>2. CASE ~ok
    <3>1. Flight'
      BY <1>8, <2>0, <2>2, EndedFlight DEF Launch, PipelineThrew, Running
    <3> QED
      BY <1>8, <2>0, <2>2, <3>1, ThrewType
      DEF Launch, TypeOK, Overlay, SetProgress, delivery, bounds
  <2> QED
    BY <2>1, <2>2
<1>9. CASE Dismiss
  <2>1. dismissReq' = TRUE /\ UNCHANGED <<inFlight, handoff>> /\ Alive
    BY <1>9 DEF Dismiss
  <2> DEFINE r(c) == [call[c] EXCEPT
                        !.cancelled = @ \/ call[c].at \in {"backup", "download"},
                        !.closed    = @ \/ call[c].at = "download"]
  <2>2. call' = [c \in Call |-> r(c)]
    BY <1>9 DEF Dismiss
  <2>3. \A c \in Call :
          /\ r(c) \in CallShape
          /\ r(c).at = call[c].at /\ r(c).m = call[c].m
          /\ r(c).backedUp = call[c].backedUp /\ r(c).content = call[c].content
          /\ r(c).cancelled =>
               call[c].cancelled \/ call[c].at \in {"backup", "download"}
    BY <1>t DEF CallShape
  <2> HIDE DEF r
  <2>4. SuspendedValid'
    BY <2>1, <2>2, <2>3 DEF Flight, SuspendedValid
  <2>5. \A c \in Call : call'[c].at = call[c].at
    BY <2>2, <2>3
  <2>6. SingleFlight' /\ InFlightIsPipeline'
    BY <2>1, <2>5 DEF Flight, SingleFlight, InFlightIsPipeline
  <2>7. Flight'
    BY <2>1, <2>4, <2>6 DEF Flight, Alive, HandoffVerified, CancelHonoured
  <2>8. call' \in [Call -> CallShape]
    BY <2>2, <2>3
  <2>9. dismissals' \in 0..MaxDismiss
    <3>1. dismissals \in 0..MaxDismiss
      BY DEF TypeOK
    <3>2. dismissals < MaxDismiss /\ dismissals' = dismissals + 1
      BY <1>9 DEF Dismiss
    <3> QED
      BY <3>1, <3>2, BoundAssumption
  <2>10. progress' \in Overlay /\ stuck' \in BOOLEAN /\ dismissReq' \in BOOLEAN
    BY <1>9, <2>1 DEF Dismiss, SetProgress, Overlay
  <2>11. UNCHANGED <<ready, inFlight, failures, failedFp, available, handoff,
                     server, applied, restarts>> /\ lastFp' = None
    BY <1>9 DEF Dismiss, breaker, delivery
  <2> QED
    BY <2>7, <2>8, <2>9, <2>10, <2>11 DEF TypeOK
<1>10. CASE StartupGuardEnds
  BY <1>10, Unaffected
  DEF StartupGuardEnds, TypeOK, breaker, overlay, delivery, bounds
<1>11. CASE FiveMinutesPass
  BY <1>11, Unaffected
  DEF FiveMinutesPass, TypeOK, breaker, delivery, bounds
<1>12. ASSUME NEW m \in Manifest \cup {None}, Deploy(m)
       PROVE  TypeOK' /\ Flight'
  <2>1. server' \in [ver : 1..MaxConfig, m : Manifest \cup {None}]
    BY <1>12, BoundAssumption DEF Deploy, TypeOK
  <2> QED
    BY <1>12, <2>1, Unaffected DEF Deploy, TypeOK, breaker, overlay, bounds
<1>13. ASSUME NEW m \in Manifest, Release(m)
       PROVE  TypeOK' /\ Flight'
  <2>1. server' \in [ver : 1..MaxConfig, m : Manifest \cup {None}]
    BY <1>13 DEF Release, TypeOK
  <2> QED
    BY <1>13, <2>1, Unaffected DEF Release, TypeOK, breaker, overlay, bounds
<1>14. CASE ProtocolsRestart
  <2>1. restarts' \in 0..MaxRestart
    BY <1>14, BoundAssumption DEF ProtocolsRestart, TypeOK
  <2> QED
    BY <1>14, <2>1, Unaffected
    DEF ProtocolsRestart, TypeOK, breaker, overlay, delivery
<1>15. CASE Restart
  <2>1. restarts' \in 0..MaxRestart
    BY <1>15, BoundAssumption DEF Restart, TypeOK
  <2>2. /\ call' = [c \in Call |-> IdleCall] /\ inFlight' = FALSE /\ handoff' = None
        /\ IdleCall.at = "idle" /\ ~IdleCall.cancelled /\ ~IdleCall.backedUp
    BY <1>15 DEF Restart, IdleCall
  <2>3. Flight'
    BY <2>2 DEF Flight, SuspendedValid, SingleFlight, InFlightIsPipeline,
                HandoffVerified, CancelHonoured, Running
  <2>4. call' \in [Call -> CallShape] /\ handoff' \in {r \in CallShape : r.at = "launch"} \cup {None}
    BY <1>t, <2>2
  <2>5. applied' \in 0..MaxConfig
    BY <1>15, BoundAssumption DEF Restart
  <2> QED
    BY <1>15, <2>1, <2>3, <2>4, <2>5 DEF Restart, TypeOK, Overlay
<1>16. CASE UNCHANGED vars
  BY <1>16, Unaffected DEF vars, TypeOK, breaker, overlay, delivery, bounds
<1> QED
  BY <1>1, <1>2, <1>3, <1>4, <1>5, <1>6, <1>7, <1>8, <1>9, <1>10, <1>11, <1>12,
     <1>13, <1>14, <1>15, <1>16
  DEF Next, PipelineStep

\* The invariant holds in every state, for every set of manifests and calls.
LEMMA Invariance == Spec => []IInv
BY InitIInv, NextIInv, PTL DEF Spec

\* Type correctness.
THEOREM TypeCorrect == Spec => []TypeOK
BY Invariance, PTL DEF IInv

\* However many checks of the heartbeat, the push and the Settings button
\* interleave around their awaits, one update runs at a time, and the
\* single-flight flag is set exactly while one does.
THEOREM OneUpdateAtATime == Spec => [](SingleFlight /\ InFlightIsPipeline)
BY Invariance, PTL DEF IInv

\* Only a backed-up, allowed and verified installer reaches the update agent.
THEOREM OnlyVerifiedHandoff == Spec => []HandoffVerified
BY Invariance, PTL DEF IInv

\* A pipeline dismissed before the end of its download never installs.
THEOREM DismissedNeverInstalls == Spec => []CancelHonoured
BY Invariance, PTL DEF IInv

(***************************************************************************)
(* How far the breaker is overrun.  Each failure past the limit uses up a  *)
(* check that was already suspended when the breaker opened, and an open   *)
(* breaker lets no check for the same fingerprint be suspended.            *)
(***************************************************************************)
Held == {c \in Call : call[c].at # "idle" /\ FingerprintOf(call[c].m) = failedFp}

BreakerBudget ==
  failures >= MaxFailures =>
    failures + Cardinality(Held) <= MaxFailures - 1 + Cardinality(Call)

\* The counters are at rest and no more checks are held: the budget stands.
LEMMA BudgetShrinks ==
  ASSUME TypeOK, BreakerBudget, UNCHANGED <<failures, failedFp>>, Held' \subseteq Held
  PROVE  BreakerBudget'
<1>1. IsFiniteSet(Held)
  BY CallAssumption, FS_Subset DEF Held
<1>2. /\ Cardinality(Held') <= Cardinality(Held)
      /\ Cardinality(Held') \in Nat /\ Cardinality(Held) \in Nat
      /\ Cardinality(Call) \in Nat
  BY <1>1, CallAssumption, FS_Subset, FS_CardinalityType
<1> QED
  BY <1>2, BoundAssumption DEF BreakerBudget, TypeOK

\* A failed pipeline gives back the slot it held.
LEMMA BudgetThrew ==
  ASSUME TypeOK, BreakerBudget, NEW c \in Call, call[c].at # "idle",
         call[c].m \in Manifest, PipelineThrew(c)
  PROVE  BreakerBudget'
<1>1. call' = [d \in Call |-> IF d = c THEN IdleCall ELSE call[d]]
  BY DEF PipelineThrew, Finished, TypeOK
<1>2. c \notin Held' /\ Held' \subseteq Call \ {c}
  BY <1>1 DEF Held, IdleCall
<1>3. /\ IsFiniteSet(Call \ {c}) /\ Cardinality(Call) \in Nat
      /\ Cardinality(Call \ {c}) = Cardinality(Call) - 1
  BY CallAssumption, FS_RemoveElement, FS_CardinalityType
<1>4. /\ IsFiniteSet(Held') /\ Cardinality(Held') \in Nat
      /\ Cardinality(Held') <= Cardinality(Call) - 1
  BY <1>2, <1>3, FS_Subset, FS_CardinalityType
<1>5. failures \in Nat /\ MaxFailures \in Nat \ {0}
  BY BoundAssumption DEF TypeOK
<1>6. CASE failedFp = FingerprintOf(call[c].m)
  <2>1. failures' = failures + 1 /\ failedFp' = failedFp
    BY <1>6 DEF PipelineThrew
  <2>2. CASE failures >= MaxFailures
    <3>1. c \in Held /\ Held' \subseteq Held \ {c}
      BY <1>1, <1>2, <1>6, <2>1 DEF Held, IdleCall
    <3>2. IsFiniteSet(Held) /\ Cardinality(Held) \in Nat
      BY CallAssumption, FS_Subset, FS_CardinalityType DEF Held
    <3>3. /\ IsFiniteSet(Held \ {c})
          /\ Cardinality(Held \ {c}) = Cardinality(Held) - 1
      BY <3>1, <3>2, FS_RemoveElement
    <3>4. Cardinality(Held') <= Cardinality(Held) - 1
      BY <3>1, <3>3, FS_Subset
    <3> QED
      BY <1>3, <1>4, <1>5, <2>1, <2>2, <3>2, <3>4 DEF BreakerBudget
  <2>3. CASE ~(failures >= MaxFailures)
    BY <1>3, <1>4, <1>5, <2>1, <2>3 DEF BreakerBudget
  <2> QED
    BY <2>2, <2>3
<1>7. CASE failedFp # FingerprintOf(call[c].m)
  <2>1. failures' = 1
    BY <1>7 DEF PipelineThrew
  <2> QED
    BY <1>3, <1>4, <1>5, <2>1 DEF BreakerBudget
<1> QED
  BY <1>6, <1>7

\* The breaker's counters are zero: there is nothing to budget.
LEMMA BudgetReset ==
  ASSUME failures' = 0 PROVE BreakerBudget'
BY BoundAssumption DEF BreakerBudget

\* An open breaker admits no check for its own fingerprint.
LEMMA BudgetCheck ==
  ASSUME TypeOK, BreakerBudget,
         NEW c \in Call, NEW m \in Manifest, NEW silent \in BOOLEAN,
         Check(c, m, silent, failures, failedFp)
  PROVE  BreakerBudget'
<1>0. UNCHANGED <<failures, failedFp>>
  BY DEF Check
<1>1. CASE call' = call
  BY <1>0, <1>1, BudgetShrinks DEF Held
<1>2. CASE call' # call
  <2>1. /\ ~BreakerOpen(m, failures, failedFp)
        /\ call' = [call EXCEPT ![c].at = "disk", ![c].m = m, ![c].silent = silent]
    BY <1>2 DEF Check
  <2>2. CASE failures >= MaxFailures
    <3>1. FingerprintOf(m) # failedFp
      BY <2>1, <2>2 DEF BreakerOpen
    <3>2. call'[c].m = m /\ \A d \in Call : d # c => call'[d] = call[d]
      BY <2>1 DEF TypeOK, CallShape
    <3>3. Held' \subseteq Held
      BY <1>0, <3>1, <3>2 DEF Held, FingerprintOf
    <3> QED
      BY <1>0, <3>3, BudgetShrinks
  <2>3. CASE ~(failures >= MaxFailures)
    BY <1>0, <2>3 DEF BreakerBudget
  <2> QED
    BY <2>2, <2>3
<1> QED
  BY <1>1, <1>2

LEMMA NextBudget == IInv /\ BreakerBudget /\ [Next]_vars => BreakerBudget'
<1> SUFFICES ASSUME TypeOK, SuspendedValid, BreakerBudget, [Next]_vars
             PROVE  BreakerBudget'
  BY DEF IInv
<1>t. call \in [Call -> CallShape]
  BY DEF TypeOK
<1>h. ASSUME UNCHANGED <<call, failures, failedFp>> PROVE BreakerBudget'
  BY <1>h, BudgetShrinks DEF Held
<1>1. ASSUME NEW c \in Call,
             Heartbeat(c) \/ (\E m \in Manifest : WebSocketPush(c, m)) \/ SettingsTap(c)
      PROVE  BreakerBudget'
  <2>1. \/ UNCHANGED <<ready, lastFp, breaker, inFlight, dismissReq,
                       overlay, available, call, handoff, bounds>>
        \/ \E m \in Manifest, silent \in BOOLEAN, fails \in Nat,
              ffp \in Fingerprint \cup {None} :
              /\ fails = 0 \/ (fails = failures /\ ffp = failedFp)
              /\ Check(c, m, silent, fails, ffp)
    BY <1>1, Callers
  <2>2. CASE UNCHANGED <<ready, lastFp, breaker, inFlight, dismissReq,
                         overlay, available, call, handoff, bounds>>
    BY <2>2, <1>h DEF breaker
  <2>3. ASSUME NEW m \in Manifest, NEW silent \in BOOLEAN, NEW fails \in Nat,
               NEW ffp \in Fingerprint \cup {None}, Check(c, m, silent, fails, ffp),
               fails = 0 \/ (fails = failures /\ ffp = failedFp)
        PROVE  BreakerBudget'
    <3>1. CASE fails = 0
      BY <2>3, <3>1, BudgetReset DEF Check
    <3>2. CASE fails = failures /\ ffp = failedFp
      BY <2>3, <3>2, BudgetCheck
    <3> QED
      BY <2>3, <3>1, <3>2
  <2> QED
    BY <2>1, <2>2, <2>3
<1>2. ASSUME NEW c \in Call, NEW ok \in BOOLEAN, DiskProbe(c, ok)
      PROVE  BreakerBudget'
  <2>1. /\ UNCHANGED <<failures, failedFp>> /\ call[c].at = "disk"
        /\ \A d \in Call : d # c => call'[d] = call[d]
        /\ call'[c].at = "idle" \/ call'[c].m = call[c].m
    BY <1>2, <1>t DEF DiskProbe, breaker, IdleCall, CallShape
  <2> QED
    BY <2>1, BudgetShrinks DEF Held, FingerprintOf
<1>3. ASSUME NEW c \in Call, NEW ok \in BOOLEAN,
             Backup(c, ok) \/ Launch(c, ok) \/ DownloadFailed(c)
               \/ (\E content \in {"good", "bad"} : DownloadDone(c, content)),
             ~PipelineThrew(c)
      PROVE  BreakerBudget'
  <2>1. /\ UNCHANGED <<failures, failedFp>> /\ call[c].at # "idle"
        /\ \A d \in Call : d # c => call'[d] = call[d]
        /\ call'[c].m = call[c].m
    BY <1>3, <1>t DEF Backup, Launch, DownloadFailed, DownloadDone, breaker, CallShape
  <2> QED
    BY <2>1, BudgetShrinks DEF Held, FingerprintOf
<1>4. ASSUME NEW c \in Call, NEW ok \in BOOLEAN,
             Backup(c, ok) \/ Launch(c, ok) \/ DownloadFailed(c)
               \/ (\E content \in {"good", "bad"} : DownloadDone(c, content)),
             PipelineThrew(c)
      PROVE  BreakerBudget'
  <2>1. call[c].at # "idle"
    BY <1>4 DEF Backup, Launch, DownloadFailed, DownloadDone
  <2> QED
    BY <1>4, <2>1, BudgetThrew DEF SuspendedValid
<1>5. ASSUME NEW c \in Call, DownloadDismissed(c) PROVE BreakerBudget'
  BY <1>5, BudgetReset DEF DownloadDismissed, PipelineReturned
<1>6. ASSUME NEW c \in Call, Chunk(c) PROVE BreakerBudget'
  BY <1>6, <1>h DEF Chunk, breaker
<1>7. CASE Dismiss
  <2>1. /\ UNCHANGED <<failures, failedFp>>
        /\ \A c \in Call : call'[c].at = call[c].at /\ call'[c].m = call[c].m
    BY <1>7, <1>t DEF Dismiss, breaker, CallShape
  <2> QED
    BY <2>1, BudgetShrinks DEF Held, FingerprintOf
<1>8. CASE StartupGuardEnds \/ FiveMinutesPass \/ ProtocolsRestart \/ UNCHANGED vars
           \/ (\E m \in Manifest \cup {None} : Deploy(m)) \/ (\E m \in Manifest : Release(m))
  BY <1>8, <1>h
  DEF StartupGuardEnds, FiveMinutesPass, ProtocolsRestart, Deploy, Release, vars, breaker
<1>9. CASE Restart
  BY <1>9, BudgetReset DEF Restart
<1> QED
  BY <1>1, <1>2, <1>3, <1>4, <1>5, <1>6, <1>7, <1>8, <1>9 DEF Next, PipelineStep

\* Whatever MaxFailures and however many checks may be suspended at once, the
\* count of consecutive failures stays below the limit plus those checks.
THEOREM BoundedOvershoot == Spec => []BreakerOvershoot
<1>1. Init => BreakerBudget
  BY BoundAssumption DEF Init, FreshProcess, BreakerBudget
<1>2. TypeOK /\ BreakerBudget => BreakerOvershoot
  <2> SUFFICES ASSUME TypeOK, BreakerBudget PROVE BreakerOvershoot
    OBVIOUS
  <2>1. Cardinality(Call) \in Nat /\ Cardinality(Held) \in Nat
    BY CallAssumption, FS_Subset, FS_CardinalityType DEF Held
  <2> QED
    BY <2>1, BoundAssumption DEF TypeOK, BreakerBudget, BreakerOvershoot
<1>3. Spec => []BreakerBudget
  BY <1>1, Invariance, NextBudget, PTL DEF Spec
<1> QED
  BY <1>2, <1>3, Invariance, PTL DEF IInv
(***************************************************************************)
(* UpdatePipeline implements SafeUpdate.  At most one call runs, so the    *)
(* updates of the mapping are none or that call's.                         *)
(***************************************************************************)

\* The call that runs is the only update.
LEMMA LoneUpdate ==
  ASSUME IInv, NEW c \in Call, call[c].at \in Running
  PROVE  Updates = {UpdateOf(c, call[c])} /\ inFlight
BY DEF IInv, SingleFlight, InFlightIsPipeline, Updates

\* No update without the flag.
LEMMA NoUpdate ==
  ASSUME IInv, ~inFlight
  PROVE  Updates = {}
BY DEF IInv, InFlightIsPipeline, Updates

\* The calls that run are the same, and what the mapping reads of them is.
LEMMA SameUpdates ==
  ASSUME \A d \in Call : call'[d].at \in Running <=> call[d].at \in Running,
         \A d \in Call : call[d].at \in Running => UpdateOf(d, call'[d]) = UpdateOf(d, call[d])
  PROVE  Updates' = Updates
BY DEF Updates

\* A step that changes neither the calls nor the handoff is a stutter.
LEMMA CallsStutter ==
  ASSUME UNCHANGED <<call, handoff>>
  PROVE  UNCHANGED <<Updates, Handed>>
BY SameUpdates DEF UpdateOf, Handed

\* However a pipeline ends, it was the only one, and its end is Stop.
LEMMA EndIsStop ==
  ASSUME IInv, Alive, NEW c \in Call, call[c].at \in Running,
         Finished(c), UNCHANGED handoff
  PROVE  [S!SNext]_<<Updates, Handed>>
<1>1. call' = [d \in Call |-> IF d = c THEN IdleCall ELSE call[d]]
  BY DEF Finished, IInv, TypeOK
<1>2. \A d \in Call : call'[d].at \notin Running
  BY <1>1 DEF IInv, SingleFlight, IdleCall, Running
<1>3. Updates' = {} /\ Handed = {} /\ Handed' = Handed
  BY <1>2 DEF Updates, Handed, Alive
<1> QED
  BY <1>3 DEF S!SNext, S!Stop

\* A call moves to another stage, or begins one while nothing runs.
LEMMA MovedUpdate ==
  ASSUME IInv, NEW c \in Call, call'[c].at \in Running,
         \A d \in Call : d # c => call'[d].at = call[d].at,
         call[c].at \in Running \/ ~inFlight
  PROVE  Updates' = {UpdateOf(c, call'[c])}
<1>1. \A d \in Call : d # c => call[d].at \notin Running
  BY DEF IInv, SingleFlight, InFlightIsPipeline
<1>2. {d \in Call : call'[d].at \in Running} = {c}
  BY <1>1
<1> QED
  BY <1>2 DEF Updates

\* Every step of the pipeline is a step of a safe update or none.
LEMMA StepIsSafe == IInv /\ [Next]_vars => [S!SNext]_<<Updates, Handed>>
<1> SUFFICES ASSUME IInv, [Next]_vars PROVE [S!SNext]_<<Updates, Handed>>
  OBVIOUS
<1>t. /\ TypeOK /\ SuspendedValid
      /\ call \in [Call -> CallShape] /\ IdleCall \in CallShape
  BY DEF IInv, TypeOK, IdleCall, CallShape, Running
<1>1. ASSUME NEW c \in Call,
             Heartbeat(c) \/ (\E m \in Manifest : WebSocketPush(c, m)) \/ SettingsTap(c)
      PROVE  [S!SNext]_<<Updates, Handed>>
  <2>1. \/ UNCHANGED <<call, handoff>>
        \/ \E m \in Manifest, silent \in BOOLEAN, fails \in Nat,
              ffp \in Fingerprint \cup {None} : Check(c, m, silent, fails, ffp)
    BY <1>1, <1>t, Callers
  <2>2. ASSUME NEW m \in Manifest, NEW silent \in BOOLEAN, NEW fails \in Nat,
               NEW ffp \in Fingerprint \cup {None}, Check(c, m, silent, fails, ffp)
        PROVE  UNCHANGED <<Updates, Handed>>
    <3>0. CASE UNCHANGED call
      BY <2>2, <3>0, CallsStutter DEF Check
    <3> SUFFICES ASSUME ~(UNCHANGED call) PROVE UNCHANGED <<Updates, Handed>>
      BY <3>0
    <3>1. /\ call[c].at = "idle" /\ UNCHANGED handoff
          /\ call' = [call EXCEPT ![c].at = "disk", ![c].m = m, ![c].silent = silent]
      BY <2>2 DEF Check
    <3>2. call'[c].at = "disk" /\ \A d \in Call : d # c => call'[d] = call[d]
      BY <3>1, <1>t DEF CallShape
    <3>3. Updates' = Updates
      BY <3>1, <3>2, SameUpdates DEF Running, UpdateOf
    <3> QED
      BY <3>1, <3>3 DEF Handed
  <2> QED
    BY <2>1, <2>2, CallsStutter
<1>2. ASSUME NEW c \in Call, NEW ok \in BOOLEAN, DiskProbe(c, ok)
      PROVE  [S!SNext]_<<Updates, Handed>>
  <2>0. /\ call[c].at = "disk" /\ Alive /\ UNCHANGED handoff
        /\ call[c].m \in Eligible /\ ~call[c].cancelled
    BY <1>2, <1>t DEF DiskProbe, SuspendedValid, Eligible
  <2>1. CASE ok /\ ~inFlight
    <3>1. /\ call'[c] = [call[c] EXCEPT !.at = "backup"]
          /\ \A d \in Call : d # c => call'[d] = call[d]
      BY <1>2, <2>1, <1>t DEF DiskProbe, ClaimRefused
    <3>2. /\ call'[c].at = "backup" /\ call'[c].m = call[c].m
          /\ ~call'[c].cancelled /\ ~call'[c].backedUp
      BY <3>1, <1>t, <2>0 DEF SuspendedValid, CallShape
    <3>3. Updates' = {UpdateOf(c, call'[c])}
      BY <2>1, <3>1, <3>2, MovedUpdate DEF Running
    <3>4. UpdateOf(c, call'[c]) = [by |-> c, m |-> call[c].m, stage |-> "begun"]
      BY <3>2 DEF UpdateOf, Stage
    <3>5. S!Begin(c, call[c].m)
      BY <2>0, <2>1, <3>3, <3>4, NoUpdate DEF S!Begin, Handed
    <3> QED
      BY <2>0, <3>5 DEF S!SNext, Handed, Alive
  <2>2. CASE ~(ok /\ ~inFlight)
    <3>1. call' = [call EXCEPT ![c] = IdleCall]
      BY <1>2, <2>2 DEF DiskProbe, ClaimRefused, TypeOK
    <3>2. call'[c].at = "idle" /\ \A d \in Call : d # c => call'[d] = call[d]
      BY <3>1, <1>t DEF IdleCall
    <3>3. Updates' = Updates
      BY <2>0, <3>2, SameUpdates DEF Running, UpdateOf
    <3> QED
      BY <2>0, <3>3 DEF Handed
  <2> QED
    BY <2>1, <2>2
<1>3. ASSUME NEW c \in Call, NEW ok \in BOOLEAN, Backup(c, ok)
      PROVE  [S!SNext]_<<Updates, Handed>>
  <2>0. call[c].at = "backup" /\ ~call[c].backedUp /\ Alive /\ UNCHANGED handoff
    BY <1>3, <1>t DEF Backup, SuspendedValid
  <2>1. CASE ok
    <3>1. /\ call'[c] = [call[c] EXCEPT !.at = "download", !.backedUp = TRUE]
          /\ \A d \in Call : d # c => call'[d] = call[d]
      BY <1>3, <2>1, <1>t DEF Backup
    <3>2. /\ call'[c].at = "download" /\ call'[c].m = call[c].m
          /\ call'[c].cancelled = call[c].cancelled /\ call'[c].backedUp
      BY <3>1, <1>t DEF CallShape
    <3>3. Updates' = {UpdateOf(c, call'[c])}
      BY <2>0, <3>1, <3>2, MovedUpdate DEF Running
    <3>4. CASE call[c].cancelled
      <4>1. UpdateOf(c, call'[c]) = UpdateOf(c, call[c])
        BY <3>2, <3>4 DEF UpdateOf, Stage
      <4> QED
        BY <2>0, <3>3, <4>1, LoneUpdate DEF Handed, Running
    <3>5. CASE ~call[c].cancelled
      <4>1. Stage(call'[c]) = "secured" /\ Stage(call[c]) = "begun"
        BY <2>0, <3>2, <3>5 DEF Stage
      <4>2. /\ UpdateOf(c, call'[c]) = [UpdateOf(c, call[c]) EXCEPT !.stage = "secured"]
            /\ UpdateOf(c, call[c]).stage = "begun"
        BY <3>2, <4>1 DEF UpdateOf
      <4>3. S!Secure(UpdateOf(c, call[c]))
        BY <2>0, <3>3, <4>2 DEF S!Secure, S!Move, Handed
      <4> QED
        BY <2>0, <4>3, LoneUpdate DEF S!SNext, Handed, Alive, Running
    <3> QED
      BY <3>4, <3>5
  <2>2. CASE ~ok
    BY <1>3, <2>0, <2>2, EndIsStop DEF Backup, PipelineThrew, Running
  <2> QED
    BY <2>1, <2>2
<1>4. ASSUME NEW c \in Call, DownloadDismissed(c) \/ DownloadFailed(c)
      PROVE  [S!SNext]_<<Updates, Handed>>
  BY <1>4, EndIsStop
  DEF DownloadDismissed, DownloadFailed, PipelineReturned, PipelineThrew, Running
<1>5. ASSUME NEW c \in Call, NEW content \in {"good", "bad"}, DownloadDone(c, content)
      PROVE  [S!SNext]_<<Updates, Handed>>
  <2>0. /\ call[c].at = "download" /\ Alive /\ UNCHANGED handoff
        /\ call[c].backedUp /\ ~call[c].cancelled
    BY <1>5, <1>t DEF DownloadDone, DismissSeen, SuspendedValid
  <2>1. CASE HashAccepted(call[c].m, content)
    <3>1. /\ call'[c] = [call[c] EXCEPT !.at = "launch", !.content = content]
          /\ \A d \in Call : d # c => call'[d] = call[d]
      BY <1>5, <2>1, <1>t DEF DownloadDone
    <3>2. /\ call'[c].at = "launch" /\ call'[c].m = call[c].m
          /\ call'[c].cancelled = call[c].cancelled
          /\ call'[c].backedUp = call[c].backedUp /\ call'[c].content = content
      BY <3>1, <1>t DEF CallShape
    <3>3. Updates' = {UpdateOf(c, call'[c])}
      BY <2>0, <3>1, <3>2, MovedUpdate DEF Running
    <3>4. Stage(call'[c]) = "verified" /\ Stage(call[c]) = "secured"
      BY <2>0, <2>1, <3>2 DEF HashAccepted, Stage
    <3>5. /\ UpdateOf(c, call'[c]) = [UpdateOf(c, call[c]) EXCEPT !.stage = "verified"]
          /\ UpdateOf(c, call[c]).stage = "secured"
      BY <3>2, <3>4 DEF UpdateOf
    <3>6. S!Verify(UpdateOf(c, call[c]))
      BY <2>0, <3>3, <3>5 DEF S!Verify, S!Move, Handed
    <3> QED
      BY <2>0, <3>6, LoneUpdate DEF S!SNext, Handed, Alive, Running
  <2>2. CASE ~HashAccepted(call[c].m, content)
    BY <1>5, <2>0, <2>2, EndIsStop DEF DownloadDone, PipelineThrew, Running
  <2> QED
    BY <2>1, <2>2
<1>6. ASSUME NEW c \in Call, NEW ok \in BOOLEAN, Launch(c, ok)
      PROVE  [S!SNext]_<<Updates, Handed>>
  <2>0. /\ call[c].at = "launch" /\ Alive /\ call[c].backedUp /\ ~call[c].cancelled
        /\ call[c].m.hash /\ call[c].content = "good"
    BY <1>6, <1>t DEF Launch, SuspendedValid
  <2>1. CASE ok
    <3>1. handoff' = call[c] /\ UNCHANGED call
      BY <1>6, <2>1 DEF Launch
    <3>2. Updates' = Updates
      BY <3>1, SameUpdates DEF UpdateOf
    <3>3. UpdateOf(c, call[c]).stage = "verified" /\ UpdateOf(c, call[c]).m = call[c].m
      BY <2>0 DEF UpdateOf, Stage
    <3>4. CASE handoff' = None
      BY <2>0, <3>2, <3>4 DEF Handed, Alive
    <3>5. CASE handoff' # None
      <4>1. Handed = {} /\ Handed' = {UpdateOf(c, call[c]).m}
        BY <2>0, <3>1, <3>3, <3>5 DEF Handed, Alive
      <4> QED
        BY <2>0, <3>2, <3>3, <4>1, LoneUpdate DEF S!SNext, S!HandOver, Running
    <3> QED
      BY <3>4, <3>5
  <2>2. CASE ~ok
    BY <1>6, <2>0, <2>2, EndIsStop DEF Launch, PipelineThrew, Running
  <2> QED
    BY <2>1, <2>2
<1>7. CASE Dismiss
  <2>0. Alive /\ UNCHANGED handoff
    BY <1>7 DEF Dismiss
  <2> DEFINE r(c) == [call[c] EXCEPT
                        !.cancelled = @ \/ call[c].at \in {"backup", "download"},
                        !.closed    = @ \/ call[c].at = "download"]
  <2>1. call' = [c \in Call |-> r(c)]
    BY <1>7 DEF Dismiss
  <2>2. \A c \in Call :
          /\ r(c).at = call[c].at /\ r(c).m = call[c].m
          /\ r(c).backedUp = call[c].backedUp /\ r(c).content = call[c].content
          /\ r(c).cancelled =
               (call[c].cancelled \/ call[c].at \in {"backup", "download"})
          /\ call[c].cancelled \in BOOLEAN
    BY <1>t DEF CallShape
  <2> HIDE DEF r
  <2>3. ASSUME NEW c \in Call, call[c].at \in {"backup", "download"}
        PROVE  [S!SNext]_<<Updates, Handed>>
    <3>1. /\ call'[c].at = call[c].at /\ call'[c].m = call[c].m /\ call'[c].cancelled
          /\ \A d \in Call : call'[d].at = call[d].at
      BY <2>1, <2>2, <2>3
    <3>2. Updates' = {UpdateOf(c, call'[c])}
      BY <2>3, <3>1, MovedUpdate DEF Running
    <3>3. UpdateOf(c, call'[c]) = [UpdateOf(c, call[c]) EXCEPT !.stage = "cancelled"]
      BY <3>1 DEF UpdateOf, Stage
    <3>4. CASE call[c].cancelled
      <4>1. UpdateOf(c, call[c]).stage = "cancelled"
        BY <3>4 DEF UpdateOf, Stage
      <4>2. UpdateOf(c, call'[c]) = UpdateOf(c, call[c])
        BY <3>3, <4>1 DEF UpdateOf
      <4> QED
        BY <2>0, <2>3, <3>2, <4>2, LoneUpdate DEF Handed, Running
    <3>5. CASE ~call[c].cancelled
      <4>1. UpdateOf(c, call[c]).stage \in {"begun", "secured"}
        BY <2>3, <3>5 DEF UpdateOf, Stage
      <4>2. S!Cancel(UpdateOf(c, call[c]))
        BY <2>0, <3>2, <3>3, <4>1 DEF S!Cancel, S!Move, Handed
      <4> QED
        BY <2>0, <2>3, <4>2, LoneUpdate DEF S!SNext, Handed, Alive, Running
    <3> QED
      BY <3>4, <3>5
  <2>4. CASE \A c \in Call : call[c].at \notin {"backup", "download"}
    <3>1. \A c \in Call : UpdateOf(c, call'[c]) = UpdateOf(c, call[c]) /\ call'[c].at = call[c].at
      BY <2>1, <2>2, <2>4 DEF UpdateOf, Stage
    <3>2. Updates' = Updates
      BY <3>1, SameUpdates
    <3> QED
      BY <2>0, <3>2 DEF Handed
  <2> QED
    BY <2>3, <2>4
<1>8. CASE Restart
  <2>1. Updates' = {} /\ Handed' = {}
    BY <1>8 DEF Restart, Updates, Handed, IdleCall, Running
  <2> QED
    BY <2>1 DEF S!SNext, S!Exit
<1>9. CASE \/ \E c \in Call : Chunk(c)
           \/ StartupGuardEnds \/ FiveMinutesPass \/ ProtocolsRestart \/ UNCHANGED vars
           \/ (\E m \in Manifest \cup {None} : Deploy(m)) \/ (\E m \in Manifest : Release(m))
  BY <1>9, CallsStutter
  DEF Chunk, StartupGuardEnds, FiveMinutesPass, ProtocolsRestart, Deploy, Release, vars
<1> QED
  BY <1>1, <1>2, <1>3, <1>4, <1>5, <1>6, <1>7, <1>8, <1>9 DEF Next, PipelineStep

\* For any number of concurrent checks and any manifests, the pipeline does nothing
\* that a safe update does not do.
THEOREM ImplementsSafeUpdate == Spec => IsSafeUpdate
<1>1. Init => S!SInit
  BY DEF Init, FreshProcess, IdleCall, Running, S!SInit, Updates, Handed
<1> QED
  BY <1>1, StepIsSafe, Invariance, PTL DEF Spec, IsSafeUpdate, S!SSpec
=============================================================================
