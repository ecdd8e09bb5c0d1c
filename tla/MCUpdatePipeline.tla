--------------------------- MODULE MCUpdatePipeline ---------------------------
(***************************************************************************)
(* Instances of UpdatePipeline for TLC.                                    *)
(***************************************************************************)
EXTENDS UpdatePipeline, TLC

CONSTANTS c1, c2, fpA, fpB

Optional == [fp |-> fpA, allowed |-> TRUE, needed |-> TRUE,
             force |-> FALSE, hash |-> TRUE]
Forced   == [Optional EXCEPT !.fp = fpB, !.force = TRUE]
Unhashed == [Forced EXCEPT !.hash = FALSE]
Denied   == [Forced EXCEPT !.allowed = FALSE]
Current  == [Optional EXCEPT !.needed = FALSE]

OneManifest == {Optional}
EveryKind == {Optional, Unhashed, Denied, Current}
Calls == {c1, c2}
Fingerprints == {fpA, fpB}
=============================================================================
