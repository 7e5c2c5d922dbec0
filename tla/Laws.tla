-------------------------------- MODULE Laws --------------------------------
(***************************************************************************)
(* Solver directions as the registry and the planner see them: what        *)
(* `@solver`, `Relation.direction` and `make_direction` put in a           *)
(* `SolverInfo`, and what calling the direction can do beyond returning    *)
(* numbers.  The formulas and the numeric boxes are left out: a caller's   *)
(* values may fall outside the box of any law.                             *)
(***************************************************************************)
EXTENDS Integers, Sequences, FiniteSets

\* The declared costs, in units of 1e-9; the tiers from one second up are
\* scaled down to keep sums in range, which keeps their order.
Tiny      == 1
Algebraic == 100
Iterated  == 1000
Listed    == 10000
Tabulated == 100000
Meshed    == 200000000
Networked == 300000000
FromMesh  == 400000000
Simulated == 500000000

\* The ports p.n: port names share long prefixes.
At(p, names) == {p \o "." \o n : n \in names}

\* A direction: pure, exact, and total on its box unless a modifier says
\* otherwise.
Law(id, ins, outs, tags, cost) ==
  [id |-> id, ins |-> ins, outs |-> outs, tags |-> tags, cost |-> cost,
   exact |-> TRUE, refuses |-> FALSE, tools |-> {}, seeks |-> FALSE,
   resolves |-> FALSE, stores |-> FALSE]

Approximate(law)   == [law EXCEPT !.exact = FALSE]    \* a declared eps above 0
Refusing(law)      == [law EXCEPT !.refuses = TRUE]   \* an Err inside its box
Through(tools, law) == [law EXCEPT !.tools = tools]   \* the programs it runs
Seeking(law)       == [law EXCEPT !.seeks = TRUE]     \* eps_seeking=True
Resolving(law)     == [law EXCEPT !.resolves = TRUE]  \* resolver.resolve()
Storing(law)       == [law EXCEPT !.stores = TRUE]    \* resolver.store()
=============================================================================
