------------------------------ MODULE Mailbox ------------------------------
(***************************************************************************)
(* What the command channel to a board promises, whatever carries it: a    *)
(* command is accepted once and delivered at most once, and one that was   *)
(* accepted is lost only after a fault, the death of a connection or a     *)
(* restart of the server.                                                  *)
(***************************************************************************)
CONSTANT Commands

VARIABLES
    status,     \* of each command
    faulty      \* a fault has happened

MTypeOK ==
    /\ status \in [Commands -> {"new", "accepted", "delivered", "lost"}]
    /\ faulty \in BOOLEAN

MInit ==
    /\ status = [c \in Commands |-> "new"]
    /\ faulty = FALSE

Accept(c) ==
    /\ status[c] = "new"
    /\ status' = [status EXCEPT ![c] = "accepted"]
    /\ UNCHANGED faulty

Deliver(c) ==
    /\ status[c] = "accepted"
    /\ status' = [status EXCEPT ![c] = "delivered"]
    /\ UNCHANGED faulty

\* A fault loses some of the commands that were accepted, possibly none.
Fault ==
    /\ faulty' = TRUE
    /\ \E S \in SUBSET Commands :
         /\ \A c \in S : status[c] = "accepted"
         /\ status' = [c \in Commands |-> IF c \in S THEN "lost" ELSE status[c]]

MNext ==
    \/ \E c \in Commands : Accept(c) \/ Deliver(c)
    \/ Fault

MSpec == MInit /\ [][MNext]_<<status, faulty>>
=============================================================================
