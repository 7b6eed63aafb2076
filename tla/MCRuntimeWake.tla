--------------------------- MODULE MCRuntimeWake ---------------------------
(* Instances of RuntimeWake for TLC: one visitor, who may come again.       *)
EXTENDS RuntimeWake

CONSTANT v1
=============================================================================
