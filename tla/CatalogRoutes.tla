---------------------------- MODULE CatalogRoutes ----------------------------
(***************************************************************************)
(* What the planner makes of the frozen catalog for a model's request: the *)
(* irredundant sets of laws that derive the model's target from its inputs *)
(* in its regime, cheapest first.  (How the search finds them, with widths *)
(* and budgets, is PlannerSearch.)                                         *)
(***************************************************************************)
EXTENDS EngineCatalog, PackModels, FiniteSetsExt

CatalogLaws == LawsOf(CatalogFamilies)

Knowns(m) == m.ins \cup m.payloads

\* A law is offered to the search when its regime is within the caller's.
Admissible(m) == {l \in CatalogLaws : l.tags \subseteq m.tags}

\* Bound: no catalog route is longer.
MaxDepth == 4

\* The ports derivable from K with the laws L.
Derivable(K, L) ==
  LET after[n \in 0..MaxDepth] ==
        IF n = 0 THEN K
        ELSE after[n - 1] \cup
             UNION {l.outs : l \in {k \in L : k.ins \subseteq after[n - 1]}}
  IN  after[MaxDepth]

\* The laws that matter for m's target: those it depends on, backwards, of
\* those that can be called at all.
Useful(m) ==
  LET ports    == Derivable(Knowns(m), Admissible(m))
      callable == {l \in Admissible(m) : l.ins \subseteq ports}
      wanted[n \in 0..MaxDepth] ==
        IF n = 0 THEN {m.target}
        ELSE wanted[n - 1] \cup
             UNION {l.ins : l \in {k \in callable :
                                     k.outs \cap wanted[n - 1] # {}}}
  IN  {l \in callable : l.outs \cap wanted[MaxDepth] # {}}

Derives(m, R) == m.target \in Derivable(Knowns(m), R)

UsefulTo == [m \in PackModelSet |-> Useful(m)]

Routes ==
  [m \in PackModelSet |->
     {R \in SUBSET UsefulTo[m] :
        Derives(m, R) /\ \A l \in R : ~ Derives(m, R \ {l})}]

\* The catalog as shipped answers every model: it has routes, and each has a
\* law that produces the target.
ASSUME CatalogAnswers ==
  \A m \in PackModelSet : m.kind # "direct" =>
    /\ Routes[m] # {}
    /\ \A R \in Routes[m] : \E l \in R : m.target \in l.outs

Cost(R) == MapThenSumSet(LAMBDA l : l.cost, R)
=============================================================================
