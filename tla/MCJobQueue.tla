----------------------------- MODULE MCJobQueue -----------------------------
(* Instances of JobQueue for TLC: two slots and one heavy slot, as shipped.  *)
EXTENDS JobQueue, TLC

CONSTANTS j1, j2, j3, p1, p2

\* Sound for safety: a slot is only compared with another one.
SlotSymmetry == Permutations(Slot)

\* A build and a cold start of one project, one heavy and one not, and a render of
\* another, which is heavy: the project exclusion and the heavy allowance bind
\* different pairs.
ThreeJobs == {j1, j2, j3}
ThreeProjectOf == (j1 :> p1) @@ (j2 :> p1) @@ (j3 :> p2)
ThreeKindOf == (j1 :> "build_version") @@ (j2 :> "start_runtime") @@ (j3 :> "render_version")

\* A cold start and the deletion of one project, both retried and revived.
TwoJobs == {j1, j2}
TwoProjectOf == (j1 :> p1) @@ (j2 :> p1)
TwoKindOf == (j1 :> "start_runtime") @@ (j2 :> "delete_project")
=============================================================================
