----------------------------- MODULE MCMeshSweep -----------------------------
(* Values for MeshSweep: two callers over a box of four corners.            *)
EXTENDS MeshSweep

\* Rungs around the exact value 0; the first three converge, the second at
\* the slowest rate that counts, the third with the widest swing.
Quick    == [limit |-> 0, at |-> <<16, 4, 1>>]
Slow     == [limit |-> 0, at |-> <<121, 55, 25>>]
Swinging == [limit |-> 0, at |-> <<55, 25, -5>>]
Rising   == [limit |-> 0, at |-> <<60, 40, 0>>]
Broken   == [limit |-> 0, at |-> <<20, 4, Fails>>]
Hopeless == [limit |-> 0, at |-> <<Fails, Fails, Fails>>]

\* A sweep on a pool beside one on its caller's own thread, as the executor's.
MCPools == <<{2}, {1}>>

MCMeshes == {
  <<Quick, Slow, Swinging, Quick>>,
  <<Swinging, Rising, Quick, Hopeless>>,
  <<Quick, Rising, Broken, Quick>>,
  <<Slow, Hopeless, Hopeless, Swinging>>}

\* Within reach of the quick meshes only, and of most.
MCBudgets == {40, 100}
=============================================================================
