----------------------------- MODULE Revocation -----------------------------
(***************************************************************************)
(* Registration with a memory of the served boards an administrator has    *)
(* deregistered and that have not proven their identity since.  Nothing in *)
(* the code keeps such a memory: deregistration sets the status and leaves *)
(* the tokens handed out and the completions on their way as they are.     *)
(***************************************************************************)
EXTENDS Registration

VARIABLE revoked    \* history: deregistered while served, and not verified again

BoardsOf(s) == {b \in Boards : users[b].sbi = s}

Deregistered ==
    \E s \in Ids :
       Deregister(s) /\ revoked' = revoked \cup {b \in BoardsOf(s) : CurrentBoard(b)}

\* An OTP of the board's identity is accepted.
Reregistered ==
    \E r \in Requests :
       req[r].todo = "accept" /\ Finish(r) /\ revoked' = revoked \ BoardsOf(req[r].sbi)

Others ==
    /\ \/ \E k \in Keys : RefuseBusy(k)
       \/ \E r \in Requests, k \in Keys, b \in Boards, s \in Ids : Login(r, k, b, s)
       \/ \E r \in Requests, k \in Keys, s \in Ids, right \in BOOLEAN : Verify(r, k, s, right)
       \/ \E r \in Requests, k \in Keys, s \in Ids, t \in tokens : Complete(r, k, t, s)
       \/ \E r \in Requests : req[r].todo # "accept" /\ Finish(r)
       \/ \E b \in Boards : SuspendBoard(b)
       \/ Restart
       \/ Tick
    /\ UNCHANGED revoked

RInit == Init /\ revoked = {}

RNext == Deregistered \/ Reregistered \/ Others

RSpec == RInit /\ [][RNext]_<<vars, revoked>>

----------------------------------------------------------------------------

(* admin_deregister_board, main.py:1468: "Sets auth_status to pending and    *)
(* clears Firebase UID so the board must re-register before it can           *)
(* authenticate."  A deregistered board is served only after another OTP of  *)
(* its identity was accepted.                                                *)
MustReregister == \A b \in revoked : ~CurrentBoard(b)
=============================================================================
