-------------------------- MODULE MCPlannerSearch --------------------------
(* Instances for PlannerSearch: every registry of a few solvers taken from a  *)
(* pool, asked for the port "t" from the known port "k".                      *)
EXTENDS PlannerSearch

MCPorts == {"a", "b", "k", "t"}

NoBox == [p \in {} |-> <<0, 0>>]
S(ins, outs, cost, abs, box) ==
  [inputs |-> ins, outputs |-> outs, conservative_for |-> "both", cost |-> cost,
   box |-> box, tags |-> {}, accuracy |-> [p \in outs |-> [abs |-> abs, rel |-> 0]]]
OneSided(s, side) == [s EXCEPT !.conservative_for = side]
Tagged(s) == [s EXCEPT !.tags = {"steady"}]
Relative(s) == [s EXCEPT !.accuracy = [p \in s.outputs |-> [abs |-> 0, rel |-> 1]]]

\* Cheap and sloppy, dear and exact ways to "a", two ways from there to "t",
\* one with a narrow box, a renaming back to "a", a one-sided edge and one
\* whose tag the request may lack.
Pool == << S(<<"k">>, {"a"}, 1, 1, NoBox),
           S(<<"k">>, {"a"}, 3, 0, NoBox),
           Relative(S(<<"a">>, {"b"}, 1, 0, NoBox)),
           S(<<"b">>, {"a"}, 1, 0, NoBox),
           S(<<"a">>, {"t"}, 1, 0, "a" :> <<0, 2>>),
           S(<<"a", "b">>, {"t"}, 2, 0, NoBox),
           OneSided(S(<<"k">>, {"b", "t"}, 2, 3, NoBox), "upper"),
           Tagged(S(<<"b">>, {"t"}, 1, 0, NoBox)) >>

\* The two directions of a relation over "a", "b" and "k", boxed, and what
\* makes the target producible.
Relations == << S(<<"a", "k">>, {"b"}, 2, 0, "a" :> <<0, 4>>),
                S(<<"b", "k">>, {"a"}, 2, 0, "b" :> <<0, 4>>),
                S(<<"a", "b">>, {"k"}, 2, 0, "a" :> <<0, 4>> @@ "b" :> <<0, 4>>),
                S(<<"b">>, {"t"}, 2, 0, "b" :> <<3, 4>>) >>

\* One producer for each port: a diamond over the shared port "a".
Single == << S(<<"k">>, {"a"}, 3, 1, NoBox),
             S(<<"a">>, {"b"}, 1, 1, "a" :> <<0, 3>>),
             S(<<"a", "b">>, {"t"}, 1, 0, NoBox) >>

\* A step that feeds two others, and a direct edge.
Diamond == << S(<<"k">>, {"a"}, 3, 0, NoBox),
              S(<<"a">>, {"b"}, 1, 0, NoBox),
              S(<<"a", "b">>, {"t"}, 1, 0, NoBox),
              S(<<"k">>, {"t"}, 6, 0, NoBox) >>

\* The way to "a" sets the known port "k" again.
Again == << S(<<"k">>, {"a", "k"}, 1, 2, NoBox),
            S(<<"a", "k">>, {"t"}, 1, 0, "k" :> <<0, 2>>),
            S(<<"a">>, {"b", "t"}, 3, 1, NoBox) >>

\* The registries taken from a pool, solver ids in pool order.
Registries(pool, sizes) ==
  {SetToSortSeq(N, <) : N \in {M \in SUBSET DOMAIN pool : Cardinality(M) \in sizes}}
Ask(pool, sizes, budgets, knowns, tags, senses) ==
  {[solvers |-> [i \in DOMAIN r |-> pool[r[i]]], known |-> kn, tags |-> tg, target |-> "t",
    budget |-> bud, finite |-> TRUE, sense |-> se] :
     r \in Registries(pool, sizes), bud \in budgets, kn \in knowns, tg \in tags, se \in senses}

K(lo, hi) == "k" :> <<lo, hi>>

PoolInstances ==
  Ask(Pool, 1..4, {1, 2, 6}, {K(1, 1)}, {{"steady"}}, {"upper"})
  \cup Ask(Pool, 1..3, {0, 2, 6}, {K(-2, -1)}, {{}}, {"lower", "both"})
  \cup {[i EXCEPT !.finite = FALSE] : i \in Ask(Pool, {1}, {2}, {K(1, 1)}, {{}}, {"both"})}
  \cup Ask(Pool, {1}, {2}, {"t" :> <<1, w>> : w \in {2, 9}}, {{}}, {"both"})
RelationInstances ==
  Ask(Relations, 1..4, {2, 6}, {K(1, 1) @@ "a" :> <<v, w>> : v \in {0, 1}, w \in {1, 2}}, {{}}, {"both"})
SingleInstances ==
  Ask(Single, 2..3, 1..12, {K(v, w) : v \in -1..1, w \in 1..2}, {{}}, {"both"})
AgainInstances == Ask(Again, 2..3, {6, 12}, {K(1, 1)}, {{}}, {"both"})
AllInstances ==
  PoolInstances \cup RelationInstances \cup SingleInstances \cup AgainInstances
DiamondInstances == Ask(Diamond, {4}, {2}, {K(1, 1)}, {{}}, {"both"})
============================================================================
