--------------------------- MODULE MCSolverPacks ---------------------------
(* Values for SolverPacks: pairs of packs, each of any of twelve kinds, over a   *)
(* host with a port table, without one, or empty.                            *)
EXTENDS SolverPacks

Mech == <<"mech">>
S(id, ns, ports) == [id |-> id, namespace |-> ns, ports |-> ports, sound |-> TRUE, method |-> FALSE]
D(port, meaning) == [port |-> port, meaning |-> meaning, known |-> TRUE]
Dec(decls, strict) == [do |-> "declare", decls |-> decls, solver |-> S(0, Mech, {}), strict |-> strict]
Reg(s, strict) == [do |-> "register", decls |-> <<>>, solver |-> s, strict |-> strict]

Hosts == {
  <<>>,
  <<Reg(S(1, Mech, {"x"}), TRUE)>>,
  <<Dec(<<D("x", "m")>>, TRUE), Reg(S(1, Mech, {"x"}), TRUE), Reg(S(9, Mech, {"y"}), FALSE),
    Dec(<<D("x", "N")>>, FALSE)>>}

\* The calls a pack named n makes, by kind; own is its namespace.
Calls(kind, n) ==
  LET own == <<"mech", ".", n>> IN
  CASE kind = "plain"     -> <<Dec(<<D(n, "m")>>, TRUE), Reg(S(2, own, {n}), TRUE), Reg(S(3, own, {}), TRUE)>>
    [] kind = "late"      -> <<Reg(S(2, own, {}), TRUE), Reg(S(4, own, {"z"}), TRUE), Dec(<<D("q", "m")>>, TRUE)>>
    [] kind = "reuse"     -> <<Reg(S(5, own, {"q"}), TRUE)>>
    [] kind = "forks"     -> <<Dec(<<D("w", "m"), D("x", "N")>>, FALSE), Reg(S(6, own, {"x"}), TRUE)>>
    [] kind = "strict"    -> <<Dec(<<D("w", "m"), D("x", "N")>>, TRUE)>>
    [] kind = "unknown"   -> <<Dec(<<D("w", "m"), [D("v", "m") EXCEPT !.known = FALSE]>>, FALSE),
                               Reg([S(7, own, {}) EXCEPT !.sound = FALSE], FALSE)>>
    [] kind = "squat"     -> <<Reg(S(6, Mech, {}), TRUE)>>
    [] kind = "clash"     -> <<Reg(S(1, own, {}), TRUE), Reg([S(8, own, {}) EXCEPT !.method = TRUE], TRUE)>>
    [] kind = "method"    -> <<Reg([S(0, own, {}) EXCEPT !.method = TRUE], TRUE)>>
    [] kind = "bare"      -> <<Reg(S(8, own, {}), TRUE)>>
    [] OTHER              -> <<>>

MCPack(kind, n) ==
  [name |-> <<n>>, version |-> "1", malformed |-> kind = "malformed", raises |-> kind = "raises",
   calls |-> Calls(kind, n)]

Kinds == {"plain", "late", "reuse", "forks", "strict", "unknown", "squat", "clash", "method", "bare",
          "malformed", "raises"}

Pairs == [host : Hosts, packs : {<<MCPack(k, "a"), MCPack(l, "b")>> : k \in Kinds, l \in Kinds}
                                \cup {<<>>}]
MCStandard == {Mech}
NoReview == {}
============================================================================
