------------------------- MODULE MCRouteExecution --------------------------
(* Values for RouteExecution: a load "k" known to an interval, a mesh size    *)
(* "h", a mesher that makes the payload "m", an FEA step from the load and    *)
(* the mesh to "a", and closed forms after it.  True values: a = 2k,          *)
(* t = a + k.                                                                 *)
EXTENDS RouteExecution, TLC

MCTruth(p, x) == CASE p = "a" -> 2 * x["k"]
                   [] p = "t" -> 3 * x["k"]
                   [] OTHER   -> x[p]

None == [p \in {} |-> 0]
I(ins, outs, acc, box) ==
  [inputs |-> ins, outputs |-> outs, payloadInputs |-> {}, payloadOutputs |-> {}, kinds |-> None,
   box |-> box, accuracy |-> [p \in outs |-> acc], deterministic |-> TRUE, tool |-> NoTool]

MCSolvers == {"mesh", "fea", "seek", "rough", "post", "flaky"}
Fea == [I({"k"}, {"a"}, 3, "a" :> <<0, 7>>) EXCEPT
          !.payloadInputs = {"m"}, !.kinds = "m" :> "mesh", !.tool = "ccx"]
MCInfo == [s \in MCSolvers |->
  CASE s = "mesh"  -> [I({"h"}, {}, 0, None) EXCEPT
                         !.payloadOutputs = {"m"}, !.kinds = "m" :> "mesh", !.tool = "gmsh"]
    [] s = "fea"   -> Fea
    [] s = "seek"  -> I({"k"}, {"a"}, 3, None)
    [] s = "rough" -> I({"k"}, {"a"}, 1, None)
    [] s = "post"  -> I({"a", "k"}, {"t"}, 0, "a" :> <<0, 6>>)
    [] s = "flaky" -> [I({"k"}, {"t"}, 1, None) EXCEPT !.deterministic = FALSE,
                         !.payloadInputs = {"m"}, !.kinds = "m" :> "mesh"]]

Out(vals, meas, rs) == [err |-> "none", values |-> vals, measured |-> meas, refs |-> rs]
Failed(err) == [Out(None, {}, None) EXCEPT !.err = err]
Ref(kind, digest) == [kind |-> kind, digest |-> digest]

\* The fea step is off by at most what it measures, and may fail; the seeking
\* one refines only as far as the budget left to it asks.
MCAnswers(s, c, rs, rem) ==
  CASE s = "mesh"  -> {Out(None, {}, "m" :> Ref("mesh", c["h"]))}
    [] s = "fea"   -> {Out("a" :> (2 * c["k"] + d), {d * d}, None) : d \in {0, 1}}
                      \cup {Failed("ToolFailed")}
    [] s = "seek"  -> IF rem # NoBudget /\ rem < 2 THEN {Out("a" :> 2 * c["k"], {0}, None)}
                      ELSE {Out("a" :> (2 * c["k"] + d), {2}, None) : d \in {-2, 2}}
    [] s = "rough" -> {Out("a" :> (2 * c["k"] + d), {}, None) : d \in {-1, 1}}
    [] s = "post"  -> {Out("t" :> (c["a"] + c["k"]), {}, None)}
    [] s = "flaky" -> {Out("t" :> 3 * c["k"], {}, None), Out("t" :> NaN, {}, None),
                       Out(None, {}, None), Out("t" :> 3 * c["k"], {-1}, None)}

J(route, k, h, rs, budget) ==
  [route |-> route, known |-> "k" :> k @@ "h" :> h, refs |-> rs, budget |-> budget]
Chain == J(<<"mesh", "fea", "post">>, <<1, 2>>, <<1, 1>>, None, 4)

MCExact(s, p, y) == CASE p = "a"    -> 2 * y["k"]
                      [] s = "post" -> y["a"] + y["k"]
                      [] OTHER      -> 3 * y["k"]
MCRefs == [kind : {"mesh", "field"}, digest : Int]

\* The solvers keep their promises, here over a few numbers and references.
Few == 0..3
FewRefs == {Ref("mesh", 1), Ref("mesh", 2), Ref("field", 2)}
ASSUME SolversReply(Few, FewRefs) /\ RepliesByContent(Few, FewRefs)
ASSUME SolversAreAccurate(Few, FewRefs) /\ TruthIsExact

\* Chains that share mesh and fea entries, a mesh size that varies, payloads
\* supplied with the right and the wrong kind or not at all, a reference step.
SharedJobs ==
  {Chain,
   J(<<"mesh", "fea">>, <<1, 2>>, <<1, 1>>, None, NoBudget),
   J(<<"mesh", "fea">>, <<3, 3>>, <<1, 1>>, None, 4),
   J(<<"rough", "post">>, <<2, 2>>, <<1, 1>>, None, 4),
   J(<<"seek", "post">>, <<1, 1>>, <<1, 1>>, None, 1),
   J(<<"seek">>, <<1, 2>>, <<1, 1>>, None, 4),
   J(<<"mesh">>, <<1, 1>>, <<1, 2>>, None, 4),
   J(<<"flaky">>, <<1, 2>>, <<1, 1>>, "m" :> Ref("mesh", 9), 4),
   J(<<"fea">>, <<2, 2>>, <<1, 1>>, "m" :> Ref("field", 9), 4),
   J(<<"fea">>, <<2, 2>>, <<1, 1>>, None, 4)}
============================================================================
