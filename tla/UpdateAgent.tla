----------------------------- MODULE UpdateAgent -----------------------------
(***************************************************************************)
(* The handover of an update to update_agent.exe and back: the application *)
(* writes update_state.json, starts the agent and exits; the agent waits   *)
(* for that exit, runs the installer, verifies the new executable, starts  *)
(* it and exits.  A starting application deletes the state file it finds.  *)
(*                                                                         *)
(* The installer is a process of its own: the agent waits ten minutes for  *)
(* it and then terminates it, but only the process it created, and nothing *)
(* ends it when the agent dies.  An installer that goes on without an      *)
(* agent is a stray; it may run beside the installer of the next agent.    *)
(*                                                                         *)
(* Nothing connects the two programs but the file, the process id in it,   *)
(* the agents' mutex and a marker file for the installer.  Meanwhile the   *)
(* user or Windows may start the application at any moment, and either     *)
(* program may die at any step.                                            *)
(***************************************************************************)
EXTENDS Integers

CONSTANTS
    Agent,        \* agent processes
    NoAgent,      \* "nobody holds the mutex"
    MaxAttempts,  \* kInstallMaxRetries
    MaxPid,       \* bound: application processes ever started
    MaxStrays     \* bound: strays at the same time

ASSUME AgentAssumption ==
    /\ NoAgent \notin Agent
    /\ MaxAttempts \in Nat \ {0}
    /\ MaxPid \in Nat \ {0}
    /\ MaxStrays \in Nat

VARIABLES
    exe,       \* the executable in the install directory
    app,       \* the application instance that holds the instance lock
    starting,  \* application processes that have not run their recovery phase yet
    pids,      \* process ids given out so far
    file,      \* update_state.json
    agent,     \* the agent processes
    mutex,     \* who holds SingletonGuard
    marker,    \* update_agent.running exists
    strays,    \* installers that run on without an agent
    tampered   \* history: a stray has written since the last verification

vars == <<exe, app, starting, pids, file, agent, mutex, marker, strays, tampered>>

Pid == 1..MaxPid
Exe == {"old", "new", "damaged"}

\* leaving: it launched an agent and exits in two seconds.
AppShape == [pid : Pid \cup {0}, ver : {"old", "new"}, leaving : BOOLEAN]
NoApp == [pid |-> 0, ver |-> "old", leaving |-> FALSE]

FileShape == [state : {"none", "verified", "installing", "installed", "restarting", "failed"},
              pid : Pid \cup {0}]
NoFile == [state |-> "none", pid |-> 0]

\* The steps of wWinMain, named after what the agent does next.
AgentShape == [at : {"off", "boot", "read", "wait", "install", "pause", "verify", "restart",
                     "cleanup"},
               pid : Pid \cup {0},
               attempt : 0..MaxAttempts]
AgentOff == [at |-> "off", pid |-> 0, attempt |-> 0]

TypeOK ==
    /\ exe \in Exe
    /\ app \in AppShape
    /\ starting \subseteq Pid
    /\ pids \in 0..MaxPid
    /\ file \in FileShape
    /\ agent \in [Agent -> AgentShape]
    /\ mutex \in Agent \cup {NoAgent}
    /\ marker \in BOOLEAN
    /\ strays \in 0..MaxStrays
    /\ tampered \in BOOLEAN

\* The old version runs and no update was ever started.
Init ==
    /\ exe = "old"
    /\ app = [pid |-> 1, ver |-> "old", leaving |-> FALSE]
    /\ starting = {}
    /\ pids = 1
    /\ file = NoFile
    /\ agent = [a \in Agent |-> AgentOff]
    /\ mutex = NoAgent
    /\ marker = FALSE
    /\ strays = 0
    /\ tampered = FALSE

At(a, step) == agent[a].at = step

Goto(a, step) == agent' = [agent EXCEPT ![a].at = step]

\* SaveState writes the agent's own copy of the record, whatever the file has now.
Save(a, state) == file' = [state |-> state, pid |-> agent[a].pid]

\* A process of the executable is created; a damaged one does not run.
Spawn ==
    /\ exe # "damaged" /\ pids < MaxPid
    /\ pids' = pids + 1
    /\ starting' = starting \cup {pids + 1}

------------------------------------------------------------------------------
(* The application *)

\* The user or Windows starts it.
StartApp ==
    /\ Spawn
    /\ UNCHANGED <<exe, app, file, agent, mutex, marker, strays, tampered>>

\* Its recovery phase deletes the state file, whoever owns it; then a process
\* that finds another instance running exits.
BootApp(p) ==
    /\ p \in starting
    /\ starting' = starting \ {p}
    /\ file' = NoFile
    /\ app' = IF app = NoApp THEN [pid |-> p, ver |-> exe, leaving |-> FALSE] ELSE app
    /\ UNCHANGED <<exe, pids, agent, mutex, marker, strays, tampered>>

\* UpdateAgentLauncher.launch: the state file, the marker of an earlier agent
\* deleted, and the agent process (or no agent: the file stays behind).
HandOver(a) ==
    /\ app # NoApp /\ app.ver = "old" /\ ~app.leaving /\ At(a, "off")
    /\ file' = [state |-> "verified", pid |-> app.pid]
    /\ \/ /\ marker' = FALSE
          /\ app' = [app EXCEPT !.leaving = TRUE]
          /\ Goto(a, "boot")
       \/ UNCHANGED <<marker, app, agent>>
    /\ UNCHANGED <<exe, starting, pids, mutex, strays, tampered>>

\* It exits after the handover, or is closed, or crashes.
AppEnds ==
    /\ app # NoApp
    /\ app' = NoApp
    /\ UNCHANGED <<exe, starting, pids, file, agent, mutex, marker, strays, tampered>>

------------------------------------------------------------------------------
(* The agent *)

\* Every return of wWinMain: the guard object deletes the marker file.
Exit(a) ==
    /\ agent' = [agent EXCEPT ![a] = AgentOff]
    /\ mutex' = IF mutex = a THEN NoAgent ELSE mutex
    /\ marker' = FALSE

\* BOOT: the marker is written, then the mutex decides whether to go on.
MutexHeld_Never == FALSE
MutexHeld == mutex # NoAgent

BootAgent(a) ==
    /\ At(a, "boot")
    /\ \/ /\ ~MutexHeld
          /\ mutex' = a /\ marker' = TRUE
          /\ Goto(a, "read")
       \/ MutexHeld /\ Exit(a)
    /\ UNCHANGED <<exe, app, starting, pids, file, strays, tampered>>

\* READING: a state file that is missing or invalid, or an installer that is, ends
\* the agent.  The state field itself is not looked at.
ReadState(a) ==
    /\ At(a, "read")
    /\ \/ /\ file # NoFile
          /\ agent' = [agent EXCEPT ![a].at = "wait", ![a].pid = file.pid]
          /\ UNCHANGED <<mutex, marker>>
       \/ Exit(a)
    /\ UNCHANGED <<exe, app, starting, pids, file, strays, tampered>>

Fails(a) == Save(a, "failed") /\ Exit(a)

\* WAITING_APP_EXIT, then the first attempt is recorded.
AppGone_Any(a) == TRUE
AppGone(a) == app.pid # agent[a].pid

BeginInstall(a) ==
    /\ At(a, "wait") /\ AppGone(a)
    /\ agent' = [agent EXCEPT ![a].at = "install", ![a].attempt = 1]
    /\ Save(a, "installing")
    /\ UNCHANGED <<exe, app, starting, pids, mutex, marker, strays, tampered>>

\* After sixty seconds the agent terminates the application; if it survives, the
\* update has failed.
WaitTimesOut(a) ==
    /\ At(a, "wait") /\ ~AppGone(a)
    /\ \/ /\ app' = NoApp
          /\ UNCHANGED <<file, agent, mutex, marker>>
       \/ Fails(a) /\ UNCHANGED app
    /\ UNCHANGED <<exe, starting, pids, strays, tampered>>

\* INSTALLING: the installer is a process of its own.  It closes the application
\* (CloseApplications=force) and writes the new version, half of it while it is not
\* done; it writes nothing when it fails early or CreateProcess does.
SetupWrites(a) ==
    /\ At(a, "install")
    /\ exe' \in {"new", "damaged"}
    /\ app' = NoApp /\ starting' = {}
    /\ UNCHANGED <<pids, file, agent, mutex, marker, strays, tampered>>

NextAttempt_Same(n) == n
NextAttempt(n) == n + 1

MayRetry_OneMore(n) == n <= MaxAttempts
MayRetry(n) == n < MaxAttempts

\* Another attempt follows after a while.
Pause(a) ==
    /\ MayRetry(agent[a].attempt)
    /\ agent' = [agent EXCEPT ![a].at = "pause",
                              ![a].attempt = NextAttempt(agent[a].attempt)]
    /\ UNCHANGED <<file, mutex, marker>>

\* It exits with code 0, with one worth a retry, or with one that is not.
SetupExits(a) ==
    /\ At(a, "install")
    /\ \/ Goto(a, "verify") /\ Save(a, "installed") /\ UNCHANGED <<mutex, marker>>
       \/ Pause(a) \/ Fails(a)
    /\ UNCHANGED <<exe, app, starting, pids, strays, tampered>>

\* An agent that stops waiting for its installer may leave it running.
LeavesStray == strays' \in {strays, strays + 1} \cap 0..MaxStrays

\* After ten minutes TerminateProcess ends the process that was created, not one that
\* it started in its turn; the code it gives is 1, or STILL_ACTIVE when it does not
\* end within five seconds, which counts as one worth a retry.
SetupTimesOut(a) ==
    /\ At(a, "install")
    /\ LeavesStray
    /\ Pause(a) \/ Fails(a)
    /\ UNCHANGED <<exe, app, starting, pids, tampered>>

RetrySetup(a) ==
    /\ At(a, "pause")
    /\ Goto(a, "install") /\ Save(a, "installing")
    /\ UNCHANGED <<exe, app, starting, pids, mutex, marker, strays, tampered>>

\* A stray writes, whatever an agent does meanwhile, and ends.
StrayWrites ==
    /\ strays > 0
    /\ exe' \in {"new", "damaged"}
    /\ app' = NoApp /\ starting' = {}
    /\ tampered' = TRUE
    /\ UNCHANGED <<pids, file, agent, mutex, marker, strays>>

StrayEnds ==
    /\ strays > 0
    /\ strays' = strays - 1
    /\ UNCHANGED <<exe, app, starting, pids, file, agent, mutex, marker, tampered>>

\* VERIFYING: the file version and the signature of the executable.
Verified_Present == exe # "damaged"
Verified == exe = "new"

Verify(a) ==
    /\ At(a, "verify")
    /\ \/ /\ Verified
          /\ Goto(a, "restart") /\ Save(a, "restarting")
          /\ tampered' = FALSE
          /\ UNCHANGED <<mutex, marker>>
       \/ Fails(a) /\ UNCHANGED tampered
    /\ UNCHANGED <<exe, app, starting, pids, strays>>

\* RESTARTING: the new process is watched for 100 ms.
Restart(a) ==
    /\ At(a, "restart")
    /\ \/ /\ Spawn /\ Goto(a, "cleanup")
          /\ UNCHANGED <<file, mutex, marker>>
       \/ Fails(a) /\ UNCHANGED <<pids, starting>>
    /\ UNCHANGED <<exe, app, strays, tampered>>

\* CLEANUP and DONE.
Cleanup(a) ==
    /\ At(a, "cleanup")
    /\ Save(a, "installed")
    /\ Exit(a)
    /\ UNCHANGED <<exe, app, starting, pids, strays, tampered>>

\* The agent dies: Windows releases the mutex, nobody deletes the marker, and its
\* installer goes on.
AgentDies(a) ==
    /\ ~At(a, "off")
    /\ agent' = [agent EXCEPT ![a] = AgentOff]
    /\ mutex' = IF mutex = a THEN NoAgent ELSE mutex
    /\ IF At(a, "install") THEN LeavesStray ELSE UNCHANGED strays
    /\ UNCHANGED <<exe, app, starting, pids, file, marker, tampered>>

AgentStep(a) ==
    \/ BootAgent(a)
    \/ ReadState(a)
    \/ BeginInstall(a)
    \/ WaitTimesOut(a)
    \/ SetupExits(a)
    \/ SetupTimesOut(a)
    \/ RetrySetup(a)
    \/ Verify(a)
    \/ Restart(a)
    \/ Cleanup(a)

Next ==
    \/ StartApp
    \/ AppEnds
    \/ \E p \in Pid : BootApp(p)
    \/ \E a \in Agent : HandOver(a) \/ AgentStep(a) \/ SetupWrites(a) \/ AgentDies(a)
    \/ StrayWrites
    \/ StrayEnds

Spec == Init /\ [][Next]_vars

\* An agent that was started goes on: each of its waits has a timeout.
FairSpec == Spec /\ \A a \in Agent : WF_vars(AgentStep(a))

------------------------------------------------------------------------------
(* Properties that hold *)

Working(a) == agent[a].at \notin {"off", "boot"}

\* However often an update is handed over, one agent at a time works on the state
\* file and the install directory, and it is the one that holds the mutex.
OneAgent == \A a \in Agent : Working(a) => mutex = a

\* The stages from the first attempt to the end of an agent.
Installing(a) == agent[a].at \in {"install", "pause", "verify", "restart", "cleanup"}

\* The installer never runs beside the instance that asked for the update.
InstallAfterExit == \A a \in Agent : Installing(a) => app.pid # agent[a].pid

\* What the agent starts is the version it verified, and a file that says
\* "restarting" tells the truth about the executable, also after the agent died:
\* between verification and restart nobody writes, unless an installer that outlived
\* its agent or its ten minutes does.
RestartsVerified ==
    /\ \A a \in Agent : agent[a].at \in {"restart", "cleanup"} => exe = "new" \/ tampered
    /\ file.state = "restarting" => exe = "new" \/ tampered

\* An agent always comes to an end: retries are counted and waits are bounded.
AgentEnds == \A a \in Agent : At(a, "boot") ~> At(a, "off")

------------------------------------------------------------------------------
(* The handover implements Installation *)

StageOf(at) == IF at = "pause" THEN "install" ELSE at

InstallOf(a, r) == [by |-> a, replaces |-> r.pid, stage |-> StageOf(r.at)]
Install == {InstallOf(a, agent[a]) : a \in {b \in Agent : Installing(b)}}

I == INSTANCE Installation WITH
       Agents <- Agent, Pids <- Pid, running <- app.pid, install <- Install

\* However the processes of both programs start, die and rewrite the file, the
\* executable changes and the application starts and ends only as in one installation
\* at a time that never runs beside the instance it replaces, and in the strays of
\* earlier ones.
IsInstallation == I!ISpec

------------------------------------------------------------------------------
(* Claims of the sources that the code does not keep *)

\* docs/phase1_update_agent_spec.md, F5: "READING | EXIT | State /= verified".  An
\* agent goes on only with a file in which an application has handed over an
\* update, not with what another agent wrote there when it gave up.
ReadsVerified ==
    [][\A a \in Agent : At(a, "read") /\ agent'[a].at = "wait" => file.state = "verified"]_vars

\* main.cpp: the installer "skips the copy while the marker exists, so a self-update
\* can never fail trying to replace a running agent": while an agent has the
\* installer running, the marker is there.
MarkerProtects ==
    \A a \in Agent : At(a, "install") => marker

\* docs/phase1_update_agent_spec.md, T6: "New exe exists + version matches target"
\* leads from VERIFYING to RESTARTING.  What an agent restarts is still the version it
\* verified, also when an installer outlived its agent.
RestartsWhatItVerified == \A a \in Agent : agent[a].at \in {"restart", "cleanup"} => exe = "new"
==============================================================================
