----------------------------- MODULE Enrolment -----------------------------
(***************************************************************************)
(* What the registration of boards promises, whatever requests, tables and *)
(* tokens carry it: an identity belongs to the first board that claims it  *)
(* and is never given to another; a board becomes active only when it      *)
(* asked to within TokenTtl of a proof of its own identity, and what it    *)
(* asked for may come late or not at all.                                  *)
(*                                                                         *)
(* It does not promise that a board taken out of service stays out: Revoke *)
(* and Suspended take back neither the proof nor what was asked for, so    *)
(* such a board may ask again while the proof is fresh, and Overrun puts   *)
(* one back into service that was suspended after it asked.                *)
(***************************************************************************)
EXTENDS Integers

CONSTANTS Boards, Ids, Nil, TokenTtl

VARIABLES
    account,    \* of each board: its status and identity
    proven,     \* when each identity was last proven, -1 for never
    asked,      \* boards whose activation was asked for in time
    now

EInit ==
    /\ account = [b \in Boards |-> [status |-> "none", sbi |-> Nil]]
    /\ proven = [s \in Ids |-> -1]
    /\ asked = {}
    /\ now = 0

Claim(b, s) ==
    /\ account[b].status = "none"
    /\ \A c \in Boards : account[c].sbi # s
    /\ account' = [account EXCEPT ![b] = [status |-> "pending", sbi |-> s]]
    /\ UNCHANGED <<proven, asked, now>>

\* A proof counts from the time it was given; one given earlier does not take it back.
Prove(s, at) ==
    /\ proven' = [proven EXCEPT ![s] = IF at > @ THEN at ELSE @]
    /\ UNCHANGED <<account, asked, now>>

Fresh(s) == proven[s] # -1 /\ now < proven[s] + TokenTtl

Ask(b) ==
    /\ account[b].status = "pending"
    /\ Fresh(account[b].sbi)
    /\ asked' = asked \cup {b}
    /\ UNCHANGED <<account, proven, now>>

Granted(b) ==
    /\ b \in asked
    /\ account' = [account EXCEPT ![b].status = "active"]
    /\ asked' \in {asked, asked \ {b}}
    /\ UNCHANGED <<proven, now>>

Activate(b) == account[b].status \in {"pending", "active"} /\ Granted(b)

\* What was asked for before the suspension overrides it.
Overrun(b) == account[b].status = "suspended" /\ Granted(b)

Abandon ==
    /\ asked' \subseteq asked
    /\ UNCHANGED <<account, proven, now>>

\* An administrator takes the board of an identity out of service.
Revoke(s) ==
    /\ account' = [b \in Boards |-> IF account[b].sbi = s
                                    THEN [account[b] EXCEPT !.status = "pending"] ELSE account[b]]
    /\ UNCHANGED <<proven, asked, now>>

Suspended(b) ==
    /\ account[b].status = "active"
    /\ account' = [account EXCEPT ![b].status = "suspended"]
    /\ UNCHANGED <<proven, asked, now>>

Pass ==
    /\ now' = now + 1
    /\ UNCHANGED <<account, proven, asked>>

ENext ==
    \/ \E b \in Boards : Ask(b) \/ Activate(b) \/ Overrun(b) \/ Suspended(b) \/ \E s \in Ids : Claim(b, s)
    \/ \E s \in Ids : Revoke(s) \/ \E at \in 0..now : Prove(s, at)
    \/ Abandon
    \/ Pass

ESpec == EInit /\ [][ENext]_<<account, proven, asked, now>>
=============================================================================
