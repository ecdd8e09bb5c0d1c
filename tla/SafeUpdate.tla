----------------------------- MODULE SafeUpdate -----------------------------
(***************************************************************************)
(* What the update pipeline promises, whatever calls, awaits and flags     *)
(* carry it: one update at a time; its installer is handed over only after *)
(* the running installation was secured and the installer verified; one    *)
(* that is cancelled before it was verified can only end.                  *)
(***************************************************************************)
CONSTANTS
    Workers,    \* who may carry an update
    Eligible    \* the manifests an update may be begun for

VARIABLES
    updates,    \* the update in progress, {} without one
    handed      \* the manifest whose installer was handed over, {} without one

SInit == updates = {} /\ handed = {}

Begin(w, m) ==
    /\ updates = {}
    /\ updates' = {[by |-> w, m |-> m, stage |-> "begun"]}
    /\ UNCHANGED handed

Move(u, from, to) ==
    /\ u.stage \in from
    /\ updates' = {[u EXCEPT !.stage = to]}
    /\ UNCHANGED handed

Secure(u) == Move(u, {"begun"}, "secured")
Verify(u) == Move(u, {"secured"}, "verified")
Cancel(u) == Move(u, {"begun", "secured"}, "cancelled")

HandOver(u) ==
    /\ u.stage = "verified"
    /\ handed' = {u.m}
    /\ UNCHANGED updates

\* An update may fail at every stage.
Stop == updates' = {} /\ UNCHANGED handed

\* The process ends, after a hand-over or without one.
Exit == updates' = {} /\ handed' = {}

SNext ==
    \/ /\ handed = {}
       /\ \/ \E w \in Workers, m \in Eligible : Begin(w, m)
          \/ \E u \in updates : Secure(u) \/ Verify(u) \/ Cancel(u) \/ HandOver(u)
          \/ Stop
    \/ Exit

SSpec == SInit /\ [][SNext]_<<updates, handed>>
=============================================================================
