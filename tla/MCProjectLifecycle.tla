------------------------- MODULE MCProjectLifecycle -------------------------
(* Instances of ProjectLifecycle for TLC: one request or two.               *)
EXTENDS ProjectLifecycle

CONSTANTS c1, c2

\* Nothing tells the two requests apart: c1 stands for the one that comes first.
InOrder == c2 \in Client /\ pc[c1] = "new" => pc'[c2] = "new"
=============================================================================
