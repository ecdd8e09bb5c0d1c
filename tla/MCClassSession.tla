--------------------------- MODULE MCClassSession ---------------------------
(***************************************************************************)
(* ClassSession for TLC: connections and submissions are interchangeable.  *)
(***************************************************************************)
EXTENDS ClassSession, TLC

Symmetry == Permutations(Sockets) \cup Permutations(Submits)
=============================================================================
