---------------------------- MODULE Installation ----------------------------
(***************************************************************************)
(* What the handover to an update agent promises, whatever processes,      *)
(* files and locks carry it: one installation at a time, never beside the  *)
(* instance it replaces, and what is started in the end is what was        *)
(* verified.  The executable changes only while the installer of that      *)
(* installation runs, or by a stray: an installer may outlive its          *)
(* installation and run beside the next one.                               *)
(***************************************************************************)
EXTENDS Integers

CONSTANTS
    Agents,     \* who may install
    Pids        \* instances of the application; 0 is none of them

VARIABLES
    exe,        \* the installed executable
    running,    \* the instance that runs, 0 without one
    install,    \* the installation under way, {} without one
    strays,     \* installers that outlived their installation
    tampered    \* a stray has written since the last verification

IInit ==
    /\ exe = "old" /\ running \in Pids /\ install = {}
    /\ strays = 0 /\ tampered = FALSE

Starts(p) ==
    /\ running = 0 /\ exe # "damaged"
    /\ \A i \in install : i.replaces # p
    /\ running' = p
    /\ UNCHANGED <<exe, install, strays, tampered>>

Ends == running' = 0 /\ UNCHANGED <<exe, install, strays, tampered>>

Begin(a, p) ==
    /\ install = {} /\ running # p
    /\ install' = {[by |-> a, replaces |-> p, stage |-> "install"]}
    /\ UNCHANGED <<exe, running, strays, tampered>>

Advance(i, from, to) ==
    /\ i.stage = from
    /\ install' = {[i EXCEPT !.stage = to]}

\* The installer writes the new version or half of it, which no instance survives, ...
Write(i) ==
    /\ i.stage = "install"
    /\ exe' \in {"new", "damaged"}
    /\ running' = 0
    /\ UNCHANGED <<install, strays, tampered>>

\* ... succeeds, ...
Complete(i) ==
    /\ Advance(i, "install", "verify")
    /\ UNCHANGED <<exe, running, strays, tampered>>

\* ... or is given up, while it may run on: it is tried again, fails or its agent dies.
GiveUp(i) ==
    /\ i.stage = "install"
    /\ install' \in {install, {}}
    /\ strays' \in {strays, strays + 1}
    /\ UNCHANGED <<exe, running, tampered>>

Accept(i) ==
    /\ exe = "new"
    /\ Advance(i, "verify", "restart")
    /\ tampered' = FALSE
    /\ UNCHANGED <<exe, running, strays>>

Launch(i) ==
    /\ exe = "new" \/ tampered
    /\ Advance(i, "restart", "cleanup")
    /\ UNCHANGED <<exe, running, strays, tampered>>

\* It is done, fails or dies.
Leave == install' = {} /\ UNCHANGED <<exe, running, strays, tampered>>

StrayWrites ==
    /\ strays > 0
    /\ exe' \in {"new", "damaged"}
    /\ running' = 0
    /\ tampered' = TRUE
    /\ UNCHANGED <<install, strays>>

StrayEnds ==
    /\ strays > 0
    /\ strays' = strays - 1
    /\ UNCHANGED <<exe, running, install, tampered>>

INext ==
    \/ \E p \in Pids : Starts(p) \/ \E a \in Agents : Begin(a, p)
    \/ Ends
    \/ \E i \in install :
         Write(i) \/ Complete(i) \/ GiveUp(i) \/ Accept(i) \/ Launch(i)
    \/ Leave
    \/ StrayWrites \/ StrayEnds

ISpec == IInit /\ [][INext]_<<exe, running, install, strays, tampered>>
=============================================================================
