--------------------------- MODULE MCRegistration ---------------------------
(* The instance TLC checks: boards, ids and handlers are interchangeable.   *)
EXTENDS Registration, TLC

Symmetry == Permutations(Boards) \cup Permutations(Ids) \cup Permutations(Requests)
=============================================================================
