-------------------------- MODULE UpdateAgent_proofs --------------------------
(***************************************************************************)
(* Proofs about UpdateAgent, for any number of agents, attempts and        *)
(* application processes.                                                  *)
(*                                                                         *)
(* InstallAfterExit is not inductive: an agent watches a process id it     *)
(* read from a file that several programs write, so the invariant follows  *)
(* the ids through the system.  Every id in the file or in an agent is     *)
(* Spent: it was given out, and its process is past its recovery phase.    *)
(* A process that becomes the application comes from the ids that are not  *)
(* spent, so it is never one that an agent waits for.                      *)
(*                                                                         *)
(* The refinement of Installation rests on the same ids, and on the mutex: *)
(* at most one agent is past its wait.                                     *)
(***************************************************************************)
EXTENDS UpdateAgent, TLAPS

Spent == (1..pids) \ starting

Watching == {"wait", "install", "pause", "verify", "restart", "cleanup"}

AppSpent   == app # NoApp => app.pid \in Spent
FileSpent  == file # NoFile => file.pid \in Spent
AgentSpent == \A a \in Agent : agent[a].at \in Watching => agent[a].pid \in Spent

\* A damaged executable leaves no process that could still start up.
NoneStarts == exe = "damaged" => starting = {}

StartsKnown == starting \subseteq 1..pids

\* While an agent tries to install, the file does not say "restarting".
NotRestarting ==
    \A a \in Agent : agent[a].at \in {"install", "pause"} => file.state # "restarting"

FileTrue == RestartsVerified /\ NotRestarting

IInv ==
    /\ TypeOK
    /\ NoneStarts /\ StartsKnown
    /\ AppSpent /\ FileSpent /\ AgentSpent
    /\ OneAgent
    /\ InstallAfterExit
    /\ FileTrue

------------------------------------------------------------------------------
(* What the steps have in common *)

\* An id that is spent stays spent: a new process gets the next id, and a process
\* only leaves its recovery phase.
LEMMA SpentGrows ==
    ASSUME TypeOK,
           Spawn \/ (pids' = pids /\ starting' \subseteq starting)
    PROVE  Spent \subseteq Spent'
  <1>1. pids \in Nat /\ starting \subseteq Pid
    BY AgentAssumption DEF TypeOK
  <1>2. CASE Spawn
    BY <1>1, <1>2 DEF Spawn, Spent
  <1>3. CASE pids' = pids /\ starting' \subseteq starting
    BY <1>3 DEF Spent
  <1> QED
    BY <1>2, <1>3

\* The next process id is not spent and no process is lost.
LEMMA SpawnTypes ==
    ASSUME TypeOK, NoneStarts, StartsKnown, Spawn, exe' = exe
    PROVE  pids' \in 0..MaxPid /\ starting' \subseteq Pid /\ NoneStarts' /\ StartsKnown'
  <1>1. pids \in Nat /\ pids < MaxPid /\ MaxPid \in Nat
    BY AgentAssumption DEF TypeOK, Spawn
  <1>2. pids + 1 \in Pid /\ pids + 1 \in 0..MaxPid
    BY <1>1 DEF Pid
  <1> QED
    BY <1>1, <1>2 DEF Spawn, TypeOK, NoneStarts, StartsKnown

\* An agent that gets a well-formed record leaves the agents well-formed.
LEMMA AgentGets ==
    ASSUME TypeOK, AgentSpent, Spent \subseteq Spent',
           NEW a \in Agent, NEW r \in AgentShape,
           agent' = [agent EXCEPT ![a] = r],
           r.at \in Watching => r.pid \in Spent
    PROVE  agent' \in [Agent -> AgentShape] /\ AgentSpent'
  BY DEF TypeOK, AgentSpent

\* An agent that is past reading the file and goes to its next step keeps the
\* process id it watches.
LEMMA AgentGoes ==
    ASSUME TypeOK, AgentSpent, OneAgent, Spent \subseteq Spent',
           NEW a \in Agent, agent[a].at \in Watching,
           NEW step \in Watching, Goto(a, step), mutex' = mutex
    PROVE  agent' \in [Agent -> AgentShape] /\ AgentSpent' /\ OneAgent'
  <1> DEFINE r == [agent[a] EXCEPT !.at = step]
  <1>1. agent[a] \in AgentShape
    BY DEF TypeOK
  <1>2. r \in AgentShape /\ r.at = step /\ r.pid = agent[a].pid
    BY <1>1 DEF AgentShape, Watching
  <1>3. agent' = [agent EXCEPT ![a] = r]
    BY DEF Goto, TypeOK
  <1>4. r.pid \in Spent
    BY <1>2 DEF AgentSpent
  <1>5. agent' \in [Agent -> AgentShape] /\ AgentSpent'
    BY <1>2, <1>3, <1>4, AgentGets
  <1>6. OneAgent'
    BY <1>3, <1>2 DEF OneAgent, Working, TypeOK, Watching
  <1> QED
    BY <1>5, <1>6

\* The end of an agent, in Exit or by its death.
Ends(a) ==
    /\ agent' = [agent EXCEPT ![a] = AgentOff]
    /\ mutex' = IF mutex = a THEN NoAgent ELSE mutex

\* It releases only its own mutex and disturbs no other agent.
LEMMA AgentEnd ==
    ASSUME TypeOK, AgentSpent, OneAgent, Spent \subseteq Spent',
           NEW a \in Agent, Ends(a)
    PROVE  /\ agent' \in [Agent -> AgentShape]
           /\ mutex' \in Agent \cup {NoAgent}
           /\ AgentSpent' /\ OneAgent'
           /\ \A b \in Agent : agent'[b].at \in Watching => agent'[b] = agent[b]
  <1>1. AgentOff \in AgentShape /\ AgentOff.at = "off"
    BY AgentAssumption DEF AgentOff, AgentShape
  <1>2. agent' \in [Agent -> AgentShape] /\ AgentSpent'
    BY <1>1, AgentGets DEF Ends, Watching
  <1>3. mutex' \in Agent \cup {NoAgent}
    BY DEF TypeOK, Ends
  <1>4. OneAgent'
    BY <1>1 DEF OneAgent, Working, Ends, TypeOK
  <1>5. \A b \in Agent : agent'[b].at \in Watching => agent'[b] = agent[b]
    BY <1>1 DEF Ends, TypeOK, Watching
  <1> QED
    BY <1>2, <1>3, <1>4, <1>5

\* What an agent saves is well-formed and names the process it watches.
LEMMA SaveSpent ==
    ASSUME TypeOK, AgentSpent, Spent \subseteq Spent',
           NEW a \in Agent, agent[a].at \in Watching,
           NEW state \in {"installing", "installed", "restarting", "failed"},
           Save(a, state)
    PROVE  file' \in FileShape /\ file'.state = state /\ FileSpent'
  <1>1. agent[a] \in AgentShape /\ agent[a].pid \in Pid \cup {0}
    BY DEF TypeOK, AgentShape
  <1>2. file' \in FileShape /\ file'.state = state /\ file'.pid = agent[a].pid
    BY <1>1 DEF Save, FileShape
  <1> QED
    BY <1>2 DEF AgentSpent, FileSpent

\* A spent id is a process id that no starting process has.
LEMMA SpentIds ==
    ASSUME TypeOK
    PROVE  Spent \subseteq Pid /\ 0 \notin Spent /\ Spent \cap starting = {}
  BY AgentAssumption DEF TypeOK, Spent, Pid

\* The application goes on or ends.
LEMMA AppTypes ==
    ASSUME TypeOK, AppSpent, Spent \subseteq Spent', app' = app \/ app' = NoApp
    PROVE  app' \in AppShape /\ AppSpent'
  <1>1. NoApp \in AppShape
    BY DEF NoApp, AppShape
  <1>2. CASE app' = app
    BY <1>2 DEF TypeOK, AppSpent
  <1>3. CASE app' = NoApp
    BY <1>1, <1>3 DEF AppSpent
  <1> QED
    BY <1>2, <1>3

\* Steps that leave the application and the agents' progress alone.
LEMMA AgentsWatch ==
    ASSUME TypeOK, AgentSpent, InstallAfterExit,
           app' = app \/ app' = NoApp,
           \A b \in Agent : agent'[b].at \in Watching \ {"wait"} => agent'[b] = agent[b]
    PROVE  InstallAfterExit'
  <1> SUFFICES ASSUME NEW b \in Agent,
                      agent'[b].at \in {"install", "pause", "verify", "restart", "cleanup"}
               PROVE  app'.pid # agent'[b].pid
    BY DEF InstallAfterExit, Installing
  <1>1. agent'[b] = agent[b] /\ agent[b].at \in Watching /\ app.pid # agent[b].pid
    BY DEF Watching, InstallAfterExit, Installing
  <1>2. agent[b].pid # 0
    BY <1>1, SpentIds DEF AgentSpent
  <1> QED
    BY <1>1, <1>2 DEF NoApp

------------------------------------------------------------------------------
(* One lemma for each action *)

LEMMA InitIInv == Init => IInv
  <1> SUFFICES ASSUME Init PROVE IInv
    OBVIOUS
  <1>1. 1 \in Pid /\ 1 \in 0..MaxPid
    BY AgentAssumption DEF Pid
  <1>2. AgentOff \in AgentShape /\ AgentOff.at = "off"
    BY AgentAssumption DEF AgentOff, AgentShape
  <1>3. TypeOK
    <2>1. exe \in Exe /\ app \in AppShape /\ starting \subseteq Pid /\ file \in FileShape
      BY <1>1 DEF Init, Exe, AppShape, FileShape, NoFile
    <2>2. pids \in 0..MaxPid /\ strays \in 0..MaxStrays
      BY <1>1, AgentAssumption DEF Init
    <2>3. agent \in [Agent -> AgentShape]
      BY <1>2 DEF Init
    <2>4. mutex \in Agent \cup {NoAgent} /\ marker \in BOOLEAN /\ tampered \in BOOLEAN
      BY DEF Init
    <2> QED
      BY <2>1, <2>2, <2>3, <2>4 DEF TypeOK
  <1>4. NoneStarts /\ StartsKnown /\ AppSpent /\ FileSpent
    BY DEF Init, NoneStarts, StartsKnown, AppSpent, FileSpent, Spent, NoFile
  <1>5. AgentSpent /\ OneAgent /\ InstallAfterExit /\ FileTrue
    BY <1>2 DEF Init, AgentSpent, OneAgent, Working, InstallAfterExit, Installing, FileTrue, RestartsVerified, NotRestarting,
                Watching, NoFile
  <1> QED
    BY <1>3, <1>4, <1>5 DEF IInv

LEMMA StartAppKeeps ==
    ASSUME IInv, StartApp PROVE IInv'
  <1>1. /\ Spent \subseteq Spent' /\ pids' \in 0..MaxPid /\ starting' \subseteq Pid
        /\ NoneStarts' /\ StartsKnown'
    BY SpentGrows, SpawnTypes DEF IInv, StartApp
  <1>2. TypeOK'
    BY <1>1 DEF IInv, StartApp, TypeOK
  <1>3. AppSpent' /\ FileSpent' /\ AgentSpent'
    BY <1>1 DEF IInv, StartApp, AppSpent, FileSpent, AgentSpent
  <1>4. OneAgent' /\ InstallAfterExit' /\ FileTrue'
    BY DEF IInv, StartApp, OneAgent, Working, InstallAfterExit, Installing, FileTrue, RestartsVerified, NotRestarting
  <1> QED
    BY <1>1, <1>2, <1>3, <1>4 DEF IInv

LEMMA BootAppKeeps ==
    ASSUME IInv, NEW p \in Pid, BootApp(p) PROVE IInv'
  <1>1. Spent \subseteq Spent' /\ p \in Spent' /\ p \notin Spent /\ p # 0
    <2>1. p \in 1..pids'
      BY DEF IInv, StartsKnown, BootApp
    <2> QED
      BY <2>1, SpentGrows DEF IInv, BootApp, Spent, Pid
  <1>2. exe \in {"old", "new"}
    BY DEF IInv, TypeOK, Exe, NoneStarts, BootApp
  <1>3. app' \in AppShape
    BY <1>2 DEF IInv, TypeOK, BootApp, AppShape
  <1>4. TypeOK' /\ NoneStarts'
    BY <1>3 DEF IInv, BootApp, TypeOK, FileShape, NoFile, NoneStarts
  <1>5. AppSpent' /\ FileSpent' /\ AgentSpent'
    BY <1>1 DEF IInv, BootApp, AppSpent, FileSpent, AgentSpent
  <1>6. InstallAfterExit'
    BY <1>1 DEF IInv, BootApp, InstallAfterExit, Installing, AgentSpent, Watching
  <1>7. OneAgent' /\ FileTrue'
    BY DEF IInv, BootApp, OneAgent, Working, FileTrue, RestartsVerified, NotRestarting, NoFile
  <1>8. StartsKnown'
    BY DEF IInv, BootApp, StartsKnown
  <1> QED
    BY <1>4, <1>5, <1>6, <1>7, <1>8 DEF IInv

LEMMA AppEndsKeeps ==
    ASSUME IInv, AppEnds PROVE IInv'
  <1>1. Spent' = Spent
    BY DEF AppEnds, Spent
  <1>2. TypeOK' /\ NoneStarts' /\ StartsKnown'
    BY DEF IInv, AppEnds, TypeOK, AppShape, NoApp, NoneStarts, StartsKnown
  <1>3. AppSpent' /\ FileSpent' /\ AgentSpent'
    BY <1>1 DEF IInv, AppEnds, AppSpent, FileSpent, AgentSpent
  <1>4. InstallAfterExit'
    BY AgentsWatch DEF IInv, AppEnds
  <1>5. OneAgent' /\ FileTrue'
    BY DEF IInv, AppEnds, OneAgent, Working, FileTrue, RestartsVerified, NotRestarting
  <1> QED
    BY <1>2, <1>3, <1>4, <1>5 DEF IInv

\* The agent that is started watches nothing yet; the file names the application.
LEMMA HandOverKeeps ==
    ASSUME IInv, NEW a \in Agent, HandOver(a) PROVE IInv'
  <1>1. Spent' = Spent /\ app.pid \in Spent /\ app \in AppShape /\ agent[a].at = "off"
    BY DEF IInv, HandOver, Spent, AppSpent, TypeOK, At
  <1>2. app' \in AppShape /\ app'.pid = app.pid
    BY <1>1 DEF HandOver, AppShape
  <1>3. file' \in FileShape /\ file'.state = "verified" /\ FileSpent'
    BY <1>1 DEF HandOver, FileShape, AppShape, FileSpent
  <1>4. marker' \in BOOLEAN
    BY DEF IInv, TypeOK, HandOver
  <1>5. agent' \in [Agent -> AgentShape]
        /\ \A b \in Agent : Working(b)' => agent'[b] = agent[b] /\ Working(b)
    <2>1. CASE agent' = agent
      BY <2>1 DEF IInv, TypeOK, Working
    <2>2. CASE Goto(a, "boot")
      <3>1. [agent[a] EXCEPT !.at = "boot"] \in AgentShape
        BY DEF IInv, TypeOK, AgentShape
      <3> QED
        BY <2>2, <3>1 DEF IInv, TypeOK, Goto, Working, AgentShape
    <2> QED
      BY <2>1, <2>2 DEF HandOver
  <1>6. TypeOK' /\ NoneStarts' /\ StartsKnown'
    BY <1>2, <1>3, <1>4, <1>5 DEF IInv, HandOver, TypeOK, NoneStarts, StartsKnown
  <1>7. AppSpent' /\ AgentSpent' /\ OneAgent' /\ InstallAfterExit'
    BY <1>1, <1>2, <1>5
    DEF IInv, HandOver, AppSpent, AgentSpent, OneAgent, Working, InstallAfterExit, Installing,
        Watching
  <1>8. FileTrue'
    BY <1>3, <1>5 DEF IInv, HandOver, FileTrue, RestartsVerified, NotRestarting, Working
  <1> QED
    BY <1>3, <1>6, <1>7, <1>8 DEF IInv

\* A step in which agent a ends and the application does not change or ends.
LEMMA EndingKeeps ==
    ASSUME IInv, NEW a \in Agent, Ends(a),
           app' = app \/ app' = NoApp, UNCHANGED <<exe, starting, pids, tampered>>,
           marker' \in BOOLEAN, strays' = strays \/ strays' \in 0..MaxStrays,
           file' = file \/ (agent[a].at \in Watching /\ Save(a, "failed"))
             \/ (agent[a].at \in Watching /\ Save(a, "installed"))
    PROVE  IInv'
  <1>1. Spent' = Spent
    BY DEF Spent
  <1>2. /\ agent' \in [Agent -> AgentShape] /\ mutex' \in Agent \cup {NoAgent}
        /\ AgentSpent' /\ OneAgent'
        /\ \A b \in Agent : agent'[b].at \in Watching => agent'[b] = agent[b]
    BY <1>1, AgentEnd DEF IInv
  <1>3. /\ file' \in FileShape /\ FileSpent'
        /\ file'.state = "restarting" => file' = file /\ (exe = "new" \/ tampered)
    <2>1. CASE file' = file
      BY <1>1, <2>1 DEF IInv, TypeOK, FileSpent, FileTrue, RestartsVerified, NotRestarting
    <2>2. CASE agent[a].at \in Watching /\ Save(a, "failed")
      BY <1>1, <2>2, SaveSpent DEF IInv
    <2>3. CASE agent[a].at \in Watching /\ Save(a, "installed")
      BY <1>1, <2>3, SaveSpent DEF IInv
    <2> QED
      BY <2>1, <2>2, <2>3
  <1>4. app' \in AppShape /\ AppSpent'
    BY <1>1, AppTypes DEF IInv
  <1>5. TypeOK' /\ NoneStarts' /\ StartsKnown'
    BY <1>2, <1>3, <1>4 DEF IInv, TypeOK, NoneStarts, StartsKnown
  <1>6. InstallAfterExit'
    BY <1>2, AgentsWatch DEF IInv
  <1>7. FileTrue'
    <2>1. RestartsVerified'
      BY <1>2, <1>3 DEF IInv, FileTrue, RestartsVerified, Watching
    <2>2. NotRestarting'
      BY <1>2, <1>3 DEF IInv, FileTrue, NotRestarting, Watching
    <2> QED
      BY <2>1, <2>2 DEF FileTrue
  <1> QED
    BY <1>2, <1>3, <1>4, <1>5, <1>6, <1>7 DEF IInv

LEMMA BootAgentKeeps ==
    ASSUME IInv, NEW a \in Agent, BootAgent(a) PROVE IInv'
  <1>1. CASE Exit(a)
    BY <1>1, EndingKeeps DEF BootAgent, Exit, Ends
  <1>2. CASE ~MutexHeld /\ mutex' = a /\ marker' = TRUE /\ Goto(a, "read")
    <2>1. Spent' = Spent
      BY DEF BootAgent, Spent
    <2> DEFINE r == [agent[a] EXCEPT !.at = "read"]
    <2>2. r \in AgentShape /\ r.at = "read"
      BY DEF IInv, TypeOK, AgentShape
    <2>3. agent' = [agent EXCEPT ![a] = r]
      BY <1>2 DEF Goto
    <2>4. agent' \in [Agent -> AgentShape] /\ AgentSpent'
      BY <2>1, <2>2, <2>3, AgentGets DEF IInv, Watching
    <2>5. \A b \in Agent : b # a => agent'[b] = agent[b] /\ ~Working(b)
      BY <1>2, <2>3, AgentAssumption DEF IInv, TypeOK, OneAgent, MutexHeld
    <2>6. TypeOK' /\ NoneStarts' /\ StartsKnown' /\ AppSpent' /\ FileSpent'
      BY <1>2, <2>1, <2>4 DEF IInv, BootAgent, TypeOK, NoneStarts, StartsKnown, AppSpent, FileSpent
    <2>7. OneAgent' /\ InstallAfterExit' /\ FileTrue'
      BY <1>2, <2>2, <2>3, <2>5
      DEF IInv, TypeOK, BootAgent, OneAgent, Working, InstallAfterExit, Installing, FileTrue, RestartsVerified, NotRestarting
    <2> QED
      BY <2>4, <2>6, <2>7 DEF IInv
  <1> QED
    BY <1>1, <1>2 DEF BootAgent

LEMMA ReadStateKeeps ==
    ASSUME IInv, NEW a \in Agent, ReadState(a) PROVE IInv'
  <1>1. CASE Exit(a)
    BY <1>1, EndingKeeps DEF ReadState, Exit, Ends
  <1>2. CASE /\ file # NoFile /\ UNCHANGED <<mutex, marker>>
             /\ agent' = [agent EXCEPT ![a].at = "wait", ![a].pid = file.pid]
    <2>1. Spent' = Spent /\ file.pid \in Spent
      BY <1>2 DEF IInv, ReadState, Spent, FileSpent
    <2> DEFINE r == [agent[a] EXCEPT !.at = "wait", !.pid = file.pid]
    <2>2. r \in AgentShape /\ r.at = "wait" /\ r.pid = file.pid
      BY DEF IInv, TypeOK, AgentShape, FileShape
    <2>3. agent' = [agent EXCEPT ![a] = r]
      BY <1>2 DEF IInv, TypeOK
    <2>4. agent' \in [Agent -> AgentShape] /\ AgentSpent'
      BY <2>1, <2>2, <2>3, AgentGets DEF IInv
    <2>5. TypeOK' /\ NoneStarts' /\ StartsKnown' /\ AppSpent' /\ FileSpent'
      BY <1>2, <2>1, <2>4 DEF IInv, ReadState, TypeOK, NoneStarts, StartsKnown, AppSpent, FileSpent
    <2>6. OneAgent'
      BY <1>2, <2>2, <2>3 DEF IInv, TypeOK, ReadState, OneAgent, Working, At
    <2>7. InstallAfterExit' /\ FileTrue'
      BY <1>2, <2>2, <2>3
      DEF IInv, TypeOK, ReadState, InstallAfterExit, Installing, FileTrue, RestartsVerified, NotRestarting
    <2> QED
      BY <2>4, <2>5, <2>6, <2>7 DEF IInv
  <1> QED
    BY <1>1, <1>2 DEF ReadState

\* The first attempt: the agent has seen the application gone.
LEMMA BeginInstallKeeps ==
    ASSUME IInv, NEW a \in Agent, BeginInstall(a) PROVE IInv'
  <1>1. Spent' = Spent /\ agent[a].at = "wait" /\ agent[a] \in AgentShape
    BY DEF IInv, TypeOK, BeginInstall, Spent, At
  <1> DEFINE r == [agent[a] EXCEPT !.at = "install", !.attempt = 1]
  <1>2. r \in AgentShape /\ r.at = "install" /\ r.pid = agent[a].pid
    <2>1. 1 \in 0..MaxAttempts
      BY AgentAssumption
    <2> QED
      BY <1>1, <2>1 DEF AgentShape
  <1>3. agent' = [agent EXCEPT ![a] = r]
    BY DEF IInv, TypeOK, BeginInstall
  <1>4. r.pid \in Spent
    BY <1>1, <1>2 DEF IInv, AgentSpent, Watching
  <1>5. agent' \in [Agent -> AgentShape] /\ AgentSpent'
    BY <1>1, <1>2, <1>3, <1>4, AgentGets DEF IInv
  <1>6. file' \in FileShape /\ file'.state = "installing" /\ FileSpent'
    BY <1>1, SaveSpent DEF IInv, BeginInstall, Watching
  <1>7. TypeOK' /\ NoneStarts' /\ StartsKnown' /\ AppSpent'
    BY <1>1, <1>5, <1>6 DEF IInv, BeginInstall, TypeOK, NoneStarts, StartsKnown, AppSpent
  <1>8. OneAgent'
    BY <1>1, <1>2, <1>3 DEF IInv, TypeOK, BeginInstall, OneAgent, Working
  <1>9. InstallAfterExit'
    BY <1>2, <1>3 DEF IInv, TypeOK, BeginInstall, InstallAfterExit, Installing, AppGone
  <1>10. FileTrue'
    BY <1>2, <1>3, <1>6 DEF IInv, TypeOK, BeginInstall, FileTrue, RestartsVerified, NotRestarting
  <1> QED
    BY <1>5, <1>6, <1>7, <1>8, <1>9, <1>10 DEF IInv

LEMMA WaitTimesOutKeeps ==
    ASSUME IInv, NEW a \in Agent, WaitTimesOut(a) PROVE IInv'
  <1>1. CASE Fails(a) /\ UNCHANGED app
    BY <1>1, EndingKeeps DEF WaitTimesOut, Fails, Exit, Ends, At, Watching
  <1>2. CASE app' = NoApp /\ UNCHANGED <<file, agent, mutex, marker>>
    <2>1. Spent' = Spent
      BY DEF WaitTimesOut, Spent
    <2>2. TypeOK' /\ NoneStarts' /\ StartsKnown' /\ AppSpent' /\ FileSpent' /\ AgentSpent'
      BY <1>2, <2>1
      DEF IInv, WaitTimesOut, TypeOK, AppShape, NoApp, NoneStarts, StartsKnown, AppSpent,
          FileSpent, AgentSpent
    <2>3. InstallAfterExit'
      BY <1>2, AgentsWatch DEF IInv
    <2>4. OneAgent' /\ FileTrue'
      BY <1>2 DEF IInv, WaitTimesOut, OneAgent, Working, FileTrue, RestartsVerified, NotRestarting
    <2> QED
      BY <2>2, <2>3, <2>4 DEF IInv
  <1> QED
    BY <1>1, <1>2 DEF WaitTimesOut

\* An installer that writes leaves no process that could still start up.
LEMMA ExecutableWritten ==
    ASSUME IInv, exe' \in {"new", "damaged"}, app' = NoApp, starting' = {},
           UNCHANGED <<pids, file, agent, mutex, marker, strays>>,
           tampered' \in BOOLEAN, FileTrue'
    PROVE  IInv'
  <1>1. Spent \subseteq Spent'
    BY SpentGrows DEF IInv
  <1>2. app' \in AppShape /\ AppSpent'
    BY <1>1, AppTypes DEF IInv
  <1>3. TypeOK' /\ NoneStarts' /\ StartsKnown'
    BY <1>2 DEF IInv, TypeOK, Exe, NoneStarts, StartsKnown
  <1>4. FileSpent' /\ AgentSpent' /\ OneAgent'
    BY <1>1 DEF IInv, FileSpent, AgentSpent, OneAgent, Working
  <1>5. InstallAfterExit'
    BY AgentsWatch DEF IInv
  <1> QED
    BY <1>2, <1>3, <1>4, <1>5 DEF IInv

\* The agent that has its installer running is the only one that works, and the file
\* says nothing of a restart.
LEMMA SetupWritesKeeps ==
    ASSUME IInv, NEW a \in Agent, SetupWrites(a) PROVE IInv'
  <1>1. agent[a].at = "install" /\ file.state # "restarting"
    BY DEF IInv, SetupWrites, At, FileTrue, NotRestarting
  <1>2. \A b \in Agent : b # a => ~Working(b)
    BY <1>1 DEF IInv, OneAgent, Working
  <1>3. FileTrue'
    BY <1>1, <1>2 DEF SetupWrites, FileTrue, RestartsVerified, NotRestarting, Working
  <1> QED
    BY <1>3, ExecutableWritten DEF SetupWrites, IInv, TypeOK

\* A stray is remembered.
LEMMA StrayWritesKeeps ==
    ASSUME IInv, StrayWrites PROVE IInv'
  <1>1. FileTrue'
    BY DEF IInv, StrayWrites, FileTrue, RestartsVerified, NotRestarting
  <1> QED
    BY <1>1, ExecutableWritten DEF StrayWrites

LEMMA StrayEndsKeeps ==
    ASSUME IInv, StrayEnds PROVE IInv'
  <1>1. strays' \in 0..MaxStrays
    BY AgentAssumption DEF IInv, TypeOK, StrayEnds
  <1> QED
    BY <1>1
    DEF StrayEnds, IInv, TypeOK, NoneStarts, StartsKnown, AppSpent, FileSpent, AgentSpent,
        Spent, OneAgent, Working, InstallAfterExit, Installing, FileTrue, RestartsVerified,
        NotRestarting

\* The agent goes on to the verification or to a pause before the next attempt.
LEMMA SetupReturned ==
    ASSUME IInv, NEW a \in Agent, agent[a].at = "install",
           NEW r \in AgentShape, agent' = [agent EXCEPT ![a] = r],
           r.at \in {"verify", "pause"}, r.pid = agent[a].pid,
           file' = file \/ Save(a, "installed"), strays' \in 0..MaxStrays,
           UNCHANGED <<exe, app, starting, pids, mutex, marker, tampered>>
    PROVE  IInv'
  <1>1. Spent' = Spent /\ agent[a].at \in Watching /\ r.pid \in Spent
    BY DEF IInv, AgentSpent, Spent, Watching
  <1>2. agent' \in [Agent -> AgentShape] /\ AgentSpent'
    BY <1>1, AgentGets DEF IInv
  <1>3. agent'[a] = r /\ \A b \in Agent : b # a => agent'[b] = agent[b]
    BY DEF IInv, TypeOK
  <1>4. OneAgent'
    BY <1>3 DEF IInv, OneAgent, Working
  <1>5. file' \in FileShape /\ file'.state # "restarting" /\ FileSpent'
    <2>1. CASE file' = file
      BY <1>1, <2>1 DEF IInv, TypeOK, FileSpent, FileTrue, NotRestarting
    <2>2. CASE Save(a, "installed")
      BY <1>1, <2>2, SaveSpent DEF IInv
    <2> QED
      BY <2>1, <2>2
  <1>6. TypeOK' /\ NoneStarts' /\ StartsKnown' /\ AppSpent'
    BY <1>1, <1>2, <1>5 DEF IInv, TypeOK, NoneStarts, StartsKnown, AppSpent
  <1>7. InstallAfterExit'
    BY <1>3 DEF IInv, InstallAfterExit, Installing
  <1>8. FileTrue'
    BY <1>3, <1>5 DEF IInv, FileTrue, RestartsVerified, NotRestarting
  <1> QED
    BY <1>2, <1>4, <1>5, <1>6, <1>7, <1>8 DEF IInv

LEMMA PauseKeeps ==
    ASSUME IInv, NEW a \in Agent, agent[a].at = "install", Pause(a),
           strays' \in 0..MaxStrays, UNCHANGED <<exe, app, starting, pids, tampered>>
    PROVE  IInv'
  <1> DEFINE n == NextAttempt(agent[a].attempt)
             r == [agent[a] EXCEPT !.at = "pause", !.attempt = n]
  <1>1. agent[a] \in AgentShape
    BY DEF IInv, TypeOK
  <1>2. n \in 0..MaxAttempts
    BY <1>1, AgentAssumption DEF AgentShape, Pause, MayRetry, NextAttempt
  <1>3. r \in AgentShape /\ r.at = "pause" /\ r.pid = agent[a].pid
    <2> HIDE DEF n
    <2> QED
      BY <1>1, <1>2 DEF AgentShape
  <1>4. agent' = [agent EXCEPT ![a] = r]
    BY DEF IInv, TypeOK, Pause
  <1> HIDE DEF r
  <1> QED
    BY <1>3, <1>4, SetupReturned DEF Pause

LEMMA SetupExitsKeeps ==
    ASSUME IInv, NEW a \in Agent, SetupExits(a) PROVE IInv'
  <1>1. agent[a].at = "install" /\ strays' \in 0..MaxStrays
    BY DEF IInv, TypeOK, SetupExits, At
  <1>2. CASE Fails(a)
    BY <1>1, <1>2, EndingKeeps DEF SetupExits, Fails, Exit, Ends, Watching
  <1>3. CASE Pause(a)
    BY <1>1, <1>3, PauseKeeps DEF SetupExits
  <1>4. CASE Goto(a, "verify") /\ Save(a, "installed") /\ UNCHANGED <<mutex, marker>>
    <2> DEFINE r == [agent[a] EXCEPT !.at = "verify"]
    <2>1. r \in AgentShape /\ r.at = "verify" /\ r.pid = agent[a].pid
      BY DEF IInv, TypeOK, AgentShape
    <2>2. agent' = [agent EXCEPT ![a] = r]
      BY <1>4 DEF IInv, TypeOK, Goto
    <2> HIDE DEF r
    <2> QED
      BY <1>1, <1>4, <2>1, <2>2, SetupReturned DEF SetupExits
  <1> QED
    BY <1>2, <1>3, <1>4 DEF SetupExits

LEMMA SetupTimesOutKeeps ==
    ASSUME IInv, NEW a \in Agent, SetupTimesOut(a) PROVE IInv'
  <1>1. agent[a].at = "install" /\ strays' \in 0..MaxStrays
    BY DEF SetupTimesOut, LeavesStray, At
  <1>2. CASE Fails(a)
    BY <1>1, <1>2, EndingKeeps DEF SetupTimesOut, Fails, Exit, Ends, Watching
  <1>3. CASE Pause(a)
    BY <1>1, <1>3, PauseKeeps DEF SetupTimesOut
  <1> QED
    BY <1>2, <1>3 DEF SetupTimesOut

LEMMA RetrySetupKeeps ==
    ASSUME IInv, NEW a \in Agent, RetrySetup(a) PROVE IInv'
  <1>1. /\ Spent' = Spent /\ agent[a].at = "pause" /\ agent[a] \in AgentShape
        /\ agent[a].at \in Watching /\ "install" \in Watching
    BY DEF IInv, TypeOK, RetrySetup, Spent, At, Watching
  <1>2. agent' \in [Agent -> AgentShape] /\ AgentSpent' /\ OneAgent'
    BY <1>1, AgentGoes DEF IInv, RetrySetup
  <1>3. /\ agent'[a].at = "install" /\ agent'[a].pid = agent[a].pid
        /\ \A b \in Agent : b # a => agent'[b] = agent[b]
    BY <1>1 DEF IInv, TypeOK, RetrySetup, Goto, AgentShape
  <1>4. file' \in FileShape /\ file'.state = "installing" /\ FileSpent'
    BY <1>1, SaveSpent DEF IInv, RetrySetup
  <1>5. TypeOK' /\ NoneStarts' /\ StartsKnown' /\ AppSpent'
    BY <1>1, <1>2, <1>4 DEF IInv, RetrySetup, TypeOK, NoneStarts, StartsKnown, AppSpent
  <1>6. InstallAfterExit'
    BY <1>1, <1>3 DEF IInv, RetrySetup, InstallAfterExit, Installing
  <1>7. FileTrue'
    BY <1>3, <1>4 DEF IInv, RetrySetup, FileTrue, RestartsVerified, NotRestarting
  <1> QED
    BY <1>2, <1>4, <1>5, <1>6, <1>7 DEF IInv

LEMMA VerifyKeeps ==
    ASSUME IInv, NEW a \in Agent, Verify(a) PROVE IInv'
  <1>1. CASE Fails(a) /\ UNCHANGED tampered
    <2>1. Ends(a) /\ marker' \in BOOLEAN /\ agent[a].at \in Watching
      BY <1>1 DEF Verify, Fails, Exit, Ends, At, Watching
    <2>2. Save(a, "failed") /\ UNCHANGED <<exe, app, starting, pids, strays, tampered>>
      BY <1>1 DEF Verify, Fails
    <2> QED
      BY <2>1, <2>2, EndingKeeps
  <1>2. CASE /\ Verified /\ Goto(a, "restart") /\ Save(a, "restarting")
             /\ tampered' = FALSE /\ UNCHANGED <<mutex, marker>>
    <2>1. Spent' = Spent /\ agent[a].at = "verify" /\ agent[a].at \in Watching
      BY DEF Verify, Spent, At, Watching
    <2>2. agent' \in [Agent -> AgentShape] /\ AgentSpent' /\ OneAgent'
      BY <1>2, <2>1, AgentGoes DEF IInv, Watching
    <2>3. file' \in FileShape /\ FileSpent'
      BY <1>2, <2>1, SaveSpent DEF IInv
    <2>4. TypeOK' /\ NoneStarts' /\ StartsKnown' /\ AppSpent'
      BY <1>2, <2>1, <2>2, <2>3 DEF IInv, Verify, TypeOK, NoneStarts, StartsKnown, AppSpent
    <2>5. InstallAfterExit'
      BY <1>2, <2>1 DEF IInv, Verify, TypeOK, Goto, InstallAfterExit, Installing, AgentShape
    <2>6. FileTrue'
      <3>1. \A b \in Agent : b # a => ~Working(b) /\ agent'[b] = agent[b]
        BY <1>2, <2>1 DEF IInv, TypeOK, OneAgent, Working, Goto
      <3>2. agent'[a].at = "restart"
        BY <1>2 DEF IInv, TypeOK, Goto, AgentShape
      <3> QED
        BY <1>2, <3>1, <3>2
        DEF Verify, Verified, FileTrue, RestartsVerified, NotRestarting, Working
    <2> QED
      BY <2>2, <2>3, <2>4, <2>5, <2>6 DEF IInv
  <1> QED
    BY <1>1, <1>2 DEF Verify

LEMMA RestartKeeps ==
    ASSUME IInv, NEW a \in Agent, Restart(a) PROVE IInv'
  <1>1. CASE Fails(a) /\ UNCHANGED <<pids, starting>>
    BY <1>1, EndingKeeps DEF Restart, Fails, Exit, Ends, At, Watching
  <1>2. CASE Spawn /\ Goto(a, "cleanup") /\ UNCHANGED <<file, mutex, marker>>
    <2>1. /\ Spent \subseteq Spent' /\ pids' \in 0..MaxPid /\ starting' \subseteq Pid
          /\ NoneStarts' /\ StartsKnown'
      BY <1>2, SpentGrows, SpawnTypes DEF IInv, Restart
    <2>2. agent[a].at = "restart" /\ agent[a].at \in Watching
      BY DEF Restart, At, Watching
    <2>3. agent' \in [Agent -> AgentShape] /\ AgentSpent' /\ OneAgent'
      BY <1>2, <2>1, <2>2, AgentGoes DEF IInv, Watching
    <2>4. TypeOK' /\ AppSpent' /\ FileSpent'
      BY <1>2, <2>1, <2>3 DEF IInv, Restart, TypeOK, AppSpent, FileSpent
    <2>5. InstallAfterExit' /\ FileTrue'
      BY <1>2, <2>2
      DEF IInv, Restart, TypeOK, Goto, InstallAfterExit, Installing, FileTrue, RestartsVerified, NotRestarting, AgentShape
    <2> QED
      BY <2>1, <2>3, <2>4, <2>5 DEF IInv
  <1> QED
    BY <1>1, <1>2 DEF Restart

LEMMA CleanupKeeps ==
    ASSUME IInv, NEW a \in Agent, Cleanup(a) PROVE IInv'
  BY EndingKeeps DEF Cleanup, Exit, Ends, At, Watching

LEMMA AgentDiesKeeps ==
    ASSUME IInv, NEW a \in Agent, AgentDies(a) PROVE IInv'
  <1>1. strays' \in 0..MaxStrays
    BY DEF AgentDies, LeavesStray, IInv, TypeOK
  <1> QED
    BY <1>1, EndingKeeps DEF AgentDies, Ends, IInv, TypeOK

------------------------------------------------------------------------------

LEMMA NextIInv == IInv /\ [Next]_vars => IInv'
  <1> SUFFICES ASSUME IInv, [Next]_vars PROVE IInv'
    OBVIOUS
  <1>1. CASE UNCHANGED vars
    BY <1>1
    DEF vars, IInv, TypeOK, NoneStarts, StartsKnown, AppSpent, FileSpent, AgentSpent, Spent,
        OneAgent, Working, InstallAfterExit, Installing, FileTrue, RestartsVerified, NotRestarting
  <1>2. CASE StartApp
    BY <1>2, StartAppKeeps
  <1>3. CASE AppEnds
    BY <1>3, AppEndsKeeps
  <1>4. ASSUME NEW p \in Pid, BootApp(p) PROVE IInv'
    BY <1>4, BootAppKeeps
  <1>5. ASSUME NEW a \in Agent, HandOver(a) PROVE IInv'
    BY <1>5, HandOverKeeps
  <1>6. ASSUME NEW a \in Agent, AgentStep(a) PROVE IInv'
    BY <1>6, BootAgentKeeps, ReadStateKeeps, BeginInstallKeeps, WaitTimesOutKeeps,
       SetupExitsKeeps, SetupTimesOutKeeps, RetrySetupKeeps, VerifyKeeps, RestartKeeps, CleanupKeeps DEF AgentStep
  <1>7. ASSUME NEW a \in Agent, SetupWrites(a) \/ AgentDies(a) PROVE IInv'
    BY <1>7, AgentDiesKeeps, SetupWritesKeeps
  <1>8. CASE StrayWrites \/ StrayEnds
    BY <1>8, StrayWritesKeeps, StrayEndsKeeps
  <1> QED
    BY <1>1, <1>2, <1>3, <1>4, <1>5, <1>6, <1>7, <1>8 DEF Next

LEMMA Invariance == Spec => []IInv
  <1>1. Init => IInv
    BY InitIInv
  <1>2. IInv /\ [Next]_vars => IInv'
    BY NextIInv
  <1> QED
    BY <1>1, <1>2, PTL DEF Spec

\* Every variable keeps its shape: attempts and process ids stay in their ranges.
THEOREM TypeCorrect == Spec => []TypeOK
  <1>1. IInv => TypeOK
    BY DEF IInv
  <1> QED
    BY <1>1, Invariance, PTL

\* DoBoot's mutex lets one agent at a time work on the state file and the install
\* directory, however many are started or die.
THEOREM OneAgentHolds == Spec => []OneAgent
  <1>1. IInv => OneAgent
    BY DEF IInv
  <1> QED
    BY <1>1, Invariance, PTL

\* DoInstalling never runs beside the application instance whose process id the
\* agent read, although the file that names it is rewritten by other processes.
THEOREM InstallsAfterExit == Spec => []InstallAfterExit
  <1>1. IInv => InstallAfterExit
    BY DEF IInv
  <1> QED
    BY <1>1, Invariance, PTL

\* DoRestarting starts only what DoVerifying accepted, and "restarting" in the file
\* is true of the executable, also when an agent died half way, unless an installer
\* that outlived its agent or its ten minutes wrote after the verification.
THEOREM RestartsOnlyVerified == Spec => []RestartsVerified
  <1>1. IInv => RestartsVerified
    BY DEF IInv, FileTrue
  <1> QED
    BY <1>1, Invariance, PTL
------------------------------------------------------------------------------
(* UpdateAgent implements Installation.  At most one agent is past its mutex, *)
(* so the installations of the mapping are none or that agent's.             *)

Seen == <<exe, app.pid, Install, strays, tampered>>

\* The agent that installs is the only installation, and one that has only read the
\* file leaves room for none.
LEMMA LoneInstall ==
    ASSUME IInv, NEW a \in Agent, Working(a)
    PROVE  /\ \A b \in Agent : b # a => ~Working(b) /\ ~Installing(b)
           /\ Install = IF Installing(a) THEN {InstallOf(a, agent[a])} ELSE {}
  <1>1. \A b \in Agent : b # a => ~Working(b) /\ ~Installing(b)
    BY DEF IInv, OneAgent, Working, Installing
  <1> QED
    BY <1>1 DEF Install

\* The step of an agent that works, seen from its record alone.
LEMMA OwnStep ==
    ASSUME IInv, NEW a \in Agent, Working(a),
           \A b \in Agent : b # a => agent'[b] = agent[b]
    PROVE  Install' = IF Installing(a)' THEN {InstallOf(a, agent'[a])} ELSE {}
  <1>1. \A b \in Agent : b # a => ~Installing(b)'
    BY LoneInstall DEF Installing
  <1> QED
    BY <1>1 DEF Install

\* A step before the installation begins is not seen.
LEMMA UnseenStep ==
    ASSUME NEW a \in Agent, ~Installing(a), ~Installing(a)',
           \A b \in Agent : b # a => agent'[b] = agent[b]
    PROVE  Install' = Install
  BY DEF Install, Installing

\* However an agent ends, its installation is over with it.
LEMMA EndIsLeave ==
    ASSUME IInv, NEW a \in Agent, ~At(a, "off"), Ends(a),
           UNCHANGED <<exe, app, strays, tampered>>
    PROVE  [I!INext]_Seen
  <1>1. /\ agent'[a].at = "off" /\ ~Installing(a)'
        /\ \A b \in Agent : b # a => agent'[b] = agent[b]
    BY DEF IInv, TypeOK, Ends, AgentOff, Installing
  <1>2. CASE Working(a)
    BY <1>1, <1>2, OwnStep DEF I!INext, I!Leave
  <1>3. CASE ~Working(a)
    BY <1>1, <1>3, UnseenStep DEF Working, Installing, Seen
  <1> QED
    BY <1>2, <1>3

LEMMA BootAppSeen ==
    ASSUME IInv, NEW p \in Pid, BootApp(p) PROVE [I!INext]_Seen
  <1>1. /\ exe' = exe /\ exe # "damaged" /\ Install' = Install
    BY DEF IInv, NoneStarts, BootApp, Install, Installing
  <1>2. CASE app # NoApp
    BY <1>1, <1>2 DEF BootApp, Seen
  <1>3. CASE app = NoApp
    <2>1. p \notin Spent
      BY DEF BootApp, Spent
    <2>2. \A i \in Install : i.replaces # p
      BY <2>1 DEF IInv, AgentSpent, Install, Installing, InstallOf, Watching
    <2>3. I!Starts(p)
      BY <1>1, <1>3, <2>2 DEF BootApp, I!Starts, NoApp
    <2> QED
      BY <2>3 DEF I!INext
  <1> QED
    BY <1>2, <1>3

\* AppGone is what Begin asks for; the mutex is why nothing else is under way.
LEMMA BeginInstallSeen ==
    ASSUME IInv, NEW a \in Agent, BeginInstall(a) PROVE [I!INext]_Seen
  <1>1. /\ agent[a].at = "wait" /\ app.pid # agent[a].pid /\ UNCHANGED <<exe, app>>
        /\ agent[a] \in AgentShape /\ Working(a) /\ ~Installing(a)
    BY DEF IInv, TypeOK, BeginInstall, At, AppGone, Working, Installing
  <1>2. /\ agent'[a].at = "install" /\ agent'[a].pid = agent[a].pid
        /\ \A b \in Agent : b # a => agent'[b] = agent[b]
    BY <1>1 DEF IInv, TypeOK, BeginInstall, AgentShape
  <1>3. Install = {} /\ Install' = {InstallOf(a, agent'[a])}
    BY <1>1, <1>2, LoneInstall, OwnStep DEF Installing
  <1>4. I!Begin(a, agent[a].pid)
    BY <1>1, <1>2, <1>3 DEF BeginInstall, I!Begin, InstallOf, StageOf
  <1>5. agent[a].pid \in Pid
    BY <1>1, SpentIds DEF IInv, AgentSpent, Watching
  <1> QED
    BY <1>4, <1>5 DEF I!INext

LEMMA WaitTimesOutSeen ==
    ASSUME IInv, NEW a \in Agent, WaitTimesOut(a) PROVE [I!INext]_Seen
  <1>1. CASE Fails(a) /\ UNCHANGED app
    BY <1>1, EndIsLeave DEF WaitTimesOut, Fails, Exit, Ends, At
  <1>2. CASE app' = NoApp /\ UNCHANGED <<file, agent, mutex, marker>>
    <2>1. I!Ends
      BY <1>2 DEF WaitTimesOut, I!Ends, NoApp, Install, Installing
    <2> QED
      BY <2>1 DEF I!INext
  <1> QED
    BY <1>1, <1>2 DEF WaitTimesOut

\* While an installer writes, its installation is under way.
LEMMA SetupWritesSeen ==
    ASSUME IInv, NEW a \in Agent, SetupWrites(a) PROVE [I!INext]_Seen
  <1> DEFINE i == InstallOf(a, agent[a])
  <1>1. i \in Install /\ i.stage = "install"
    BY DEF SetupWrites, At, Install, Installing, InstallOf, StageOf
  <1>2. Install' = Install
    BY DEF SetupWrites, Install, Installing
  <1>3. I!Write(i)
    BY <1>1, <1>2 DEF SetupWrites, NoApp, I!Write
  <1> QED
    BY <1>1, <1>3 DEF I!INext

\* An installer that returns or is given up completes its installation, leaves it for
\* another attempt, or ends it.
LEMMA SetupReturnsSeen ==
    ASSUME IInv, NEW a \in Agent, SetupExits(a) \/ SetupTimesOut(a)
    PROVE  [I!INext]_Seen
  <1> DEFINE i == InstallOf(a, agent[a])
  <1>1. /\ agent[a].at = "install" /\ agent[a] \in AgentShape
        /\ Working(a) /\ Installing(a) /\ UNCHANGED <<exe, app, tampered>>
        /\ strays' \in {strays, strays + 1}
    BY DEF IInv, TypeOK, SetupExits, SetupTimesOut, LeavesStray, At, Working, Installing
  <1>2. Install = {i} /\ i.stage = "install"
    BY <1>1, LoneInstall DEF InstallOf, StageOf
  <1>3. CASE Goto(a, "verify") /\ UNCHANGED strays
    <2>1. /\ agent'[a].at = "verify" /\ agent'[a].pid = agent[a].pid
          /\ \A b \in Agent : b # a => agent'[b] = agent[b]
      BY <1>1, <1>3 DEF IInv, TypeOK, Goto, AgentShape
    <2>2. Install' = {InstallOf(a, agent'[a])}
      BY <1>1, <2>1, OwnStep DEF Installing
    <2>3. InstallOf(a, agent'[a]) = [i EXCEPT !.stage = "verify"]
      BY <2>1 DEF InstallOf, StageOf
    <2>4. I!Complete(i)
      BY <1>1, <1>2, <1>3, <2>2, <2>3 DEF I!Complete, I!Advance
    <2> QED
      BY <1>2, <2>4 DEF I!INext
  <1>4. CASE Pause(a)
    <2>1. /\ agent'[a].at = "pause" /\ agent'[a].pid = agent[a].pid
          /\ \A b \in Agent : b # a => agent'[b] = agent[b]
      BY <1>1, <1>4 DEF IInv, TypeOK, Pause, AgentShape
    <2>2. Install' = {InstallOf(a, agent'[a])}
      BY <1>1, <2>1, OwnStep DEF Installing
    <2>3. Install' = Install
      BY <1>1, <1>2, <2>1, <2>2 DEF InstallOf, StageOf
    <2>4. I!GiveUp(i)
      BY <1>1, <1>2, <2>3 DEF I!GiveUp
    <2> QED
      BY <1>2, <2>4 DEF I!INext
  <1>5. CASE Fails(a)
    <2>1. /\ agent'[a].at = "off"
          /\ \A b \in Agent : b # a => agent'[b] = agent[b]
      BY <1>5 DEF IInv, TypeOK, Fails, Exit, AgentOff
    <2>2. Install' = {}
      BY <1>1, <2>1, OwnStep DEF Installing
    <2>3. I!GiveUp(i)
      BY <1>1, <1>2, <2>2 DEF I!GiveUp
    <2> QED
      BY <1>2, <2>3 DEF I!INext
  <1> QED
    BY <1>3, <1>4, <1>5 DEF SetupExits, SetupTimesOut

\* The death of an agent whose installer runs is a GiveUp, any other one a Leave.
LEMMA AgentDiesSeen ==
    ASSUME IInv, NEW a \in Agent, AgentDies(a) PROVE [I!INext]_Seen
  <1> DEFINE i == InstallOf(a, agent[a])
  <1>1. CASE ~At(a, "install")
    BY <1>1, EndIsLeave DEF AgentDies, Ends
  <1>2. CASE At(a, "install")
    <2>1. Installing(a) /\ Working(a) /\ agent'[a].at = "off"
          /\ \A b \in Agent : b # a => agent'[b] = agent[b]
      BY <1>2 DEF IInv, TypeOK, AgentDies, AgentOff, At, Installing, Working
    <2>2. Install = {i} /\ i.stage = "install"
      BY <1>2, <2>1, LoneInstall DEF InstallOf, StageOf, At
    <2>3. Install' = {}
      BY <2>1, OwnStep DEF Installing
    <2>4. I!GiveUp(i)
      BY <1>2, <2>2, <2>3 DEF AgentDies, LeavesStray, I!GiveUp
    <2> QED
      BY <2>2, <2>4 DEF I!INext
  <1> QED
    BY <1>1, <1>2

\* The next attempt belongs to the same installation.
LEMMA RetrySetupSeen ==
    ASSUME IInv, NEW a \in Agent, RetrySetup(a) PROVE [I!INext]_Seen
  <1>1. /\ agent[a].at = "pause" /\ agent[a] \in AgentShape
        /\ Working(a) /\ Installing(a)
    BY DEF IInv, TypeOK, RetrySetup, At, Working, Installing
  <1>2. /\ agent'[a].at = "install" /\ agent'[a].pid = agent[a].pid
        /\ \A b \in Agent : b # a => agent'[b] = agent[b]
    BY <1>1 DEF IInv, TypeOK, RetrySetup, Goto, AgentShape
  <1>3. Install = {InstallOf(a, agent[a])} /\ Install' = {InstallOf(a, agent'[a])}
    BY <1>1, <1>2, LoneInstall, OwnStep DEF Installing
  <1> QED
    BY <1>1, <1>2, <1>3 DEF InstallOf, StageOf, RetrySetup, Seen

\* An installation goes to its next stage: the executable is the new version, or was
\* when it was verified.
LEMMA StageSeen ==
    ASSUME IInv, NEW a \in Agent, Installing(a),
           NEW step, Goto(a, step),
           <<agent[a].at, step>> \in {<<"verify", "restart">>, <<"restart", "cleanup">>},
           step = "restart" => exe = "new" /\ tampered' = FALSE,
           step = "cleanup" => (exe = "new" \/ tampered) /\ UNCHANGED tampered,
           UNCHANGED <<exe, app, strays>>
    PROVE  [I!INext]_Seen
  <1> DEFINE i == InstallOf(a, agent[a])
  <1>1. /\ agent'[a].at = step /\ agent'[a].pid = agent[a].pid
        /\ \A b \in Agent : b # a => agent'[b] = agent[b]
        /\ Working(a)
    BY DEF IInv, TypeOK, Goto, AgentShape, Installing, Working
  <1>2. Install = {i} /\ Install' = {InstallOf(a, agent'[a])}
    BY <1>1, LoneInstall, OwnStep DEF Installing
  <1>3. InstallOf(a, agent'[a]) = [i EXCEPT !.stage = step] /\ i.stage = agent[a].at
    BY <1>1 DEF InstallOf, StageOf
  <1>4. I!Accept(i) \/ I!Launch(i)
    BY <1>2, <1>3 DEF I!Accept, I!Launch, I!Advance
  <1> QED
    BY <1>2, <1>4 DEF I!INext

\* Every step of the two programs is a step of an installation or is not seen.
LEMMA StepIsInstallation == IInv /\ [Next]_vars => [I!INext]_Seen
  <1> SUFFICES ASSUME IInv, [Next]_vars PROVE [I!INext]_Seen
    OBVIOUS
  <1>1. CASE UNCHANGED vars \/ StartApp
    BY <1>1 DEF vars, StartApp, Seen, Install, Installing
  <1>2. CASE AppEnds
    <2>1. I!Ends
      BY <1>2 DEF AppEnds, I!Ends, NoApp, Install, Installing
    <2> QED
      BY <2>1 DEF I!INext
  <1>3. ASSUME NEW p \in Pid, BootApp(p) PROVE [I!INext]_Seen
    BY <1>3, BootAppSeen
  <1>4. ASSUME NEW a \in Agent, HandOver(a) PROVE [I!INext]_Seen
    <2>1. /\ ~Installing(a) /\ ~Installing(a)' /\ exe' = exe /\ app'.pid = app.pid
          /\ \A b \in Agent : b # a => agent'[b] = agent[b]
      BY <1>4 DEF IInv, TypeOK, HandOver, Goto, At, Installing, AgentShape, AppShape
    <2>2. UNCHANGED <<strays, tampered>>
      BY <1>4 DEF HandOver
    <2> QED
      BY <2>1, <2>2, UnseenStep DEF Seen
  <1>5. ASSUME NEW a \in Agent, BootAgent(a) \/ ReadState(a) PROVE [I!INext]_Seen
    <2>1. CASE Exit(a)
      BY <1>5, <2>1, EndIsLeave DEF BootAgent, ReadState, Exit, Ends, At
    <2>2. CASE ~Exit(a)
      <3>1. /\ ~Installing(a) /\ ~Installing(a)' /\ UNCHANGED <<exe, app, strays, tampered>>
            /\ \A b \in Agent : b # a => agent'[b] = agent[b]
        BY <1>5, <2>2
        DEF IInv, TypeOK, BootAgent, ReadState, Goto, At, Installing, AgentShape
      <3> QED
        BY <3>1, UnseenStep DEF Seen
    <2> QED
      BY <2>1, <2>2
  <1>6. ASSUME NEW a \in Agent, Verify(a) PROVE [I!INext]_Seen
    <2>1. CASE Fails(a) /\ UNCHANGED tampered
      BY <1>6, <2>1, EndIsLeave DEF Verify, Fails, Exit, Ends, At
    <2>2. CASE ~(Fails(a) /\ UNCHANGED tampered)
      <3>1. /\ <<agent[a].at, "restart">> = <<"verify", "restart">> /\ Installing(a)
            /\ exe = "new" /\ tampered' = FALSE
            /\ Goto(a, "restart") /\ UNCHANGED <<exe, app, strays>>
        BY <1>6, <2>2 DEF Verify, Verified, At, Installing
      <3> QED
        BY <3>1, StageSeen
    <2> QED
      BY <2>1, <2>2
  <1>7. ASSUME NEW a \in Agent, Restart(a) PROVE [I!INext]_Seen
    <2>1. CASE Fails(a)
      BY <1>7, <2>1, EndIsLeave DEF Restart, Fails, Exit, Ends, At
    <2>2. CASE ~Fails(a)
      <3>1. /\ <<agent[a].at, "cleanup">> = <<"restart", "cleanup">> /\ Installing(a)
            /\ exe = "new" \/ tampered
            /\ Goto(a, "cleanup") /\ UNCHANGED <<exe, app, strays, tampered>>
        BY <1>7, <2>2 DEF IInv, FileTrue, RestartsVerified, NotRestarting, Restart, At, Installing
      <3> QED
        BY <3>1, StageSeen
    <2> QED
      BY <2>1, <2>2
  <1>8. ASSUME NEW a \in Agent, Cleanup(a) PROVE [I!INext]_Seen
    BY <1>8, EndIsLeave DEF Cleanup, Exit, Ends, At
  <1>9. CASE StrayWrites
    <2>1. I!StrayWrites
      BY <1>9 DEF StrayWrites, I!StrayWrites, NoApp, Install, Installing
    <2> QED
      BY <2>1 DEF I!INext
  <1>10. CASE StrayEnds
    <2>1. I!StrayEnds
      BY <1>10 DEF StrayEnds, I!StrayEnds, Install, Installing
    <2> QED
      BY <2>1 DEF I!INext
  <1> QED
    BY <1>1, <1>2, <1>3, <1>4, <1>5, <1>6, <1>7, <1>8, <1>9, <1>10, BeginInstallSeen,
       WaitTimesOutSeen, SetupWritesSeen, SetupReturnsSeen, RetrySetupSeen, AgentDiesSeen
    DEF Next, AgentStep

\* However processes of both programs start, die and rewrite the state file, the
\* board sees one installation at a time, as Installation promises it.
THEOREM ImplementsInstallation == Spec => IsInstallation
  <1>1. Init => I!IInit
    BY AgentAssumption DEF Init, I!IInit, Install, Installing, AgentOff, Pid
  <1> QED
    BY <1>1, StepIsInstallation, Invariance, PTL DEF Spec, IsInstallation, I!ISpec, Seen
==============================================================================
