----------------------------- MODULE MeshLadder -----------------------------
(***************************************************************************)
(* `climb_richardson_ladder` (fea/ladder.py) as the cantilever direction   *)
(* (fea/solver.py) runs it: a corner's quantity is computed on finer and   *)
(* finer meshes, each pair of neighbours is extrapolated, and the climb    *)
(* ends at the first pair whose eps fits the budget.  The value of a rung  *)
(* is looked up in, and put into, one RungCache that every climb of the    *)
(* process shares.  Several climbs run at once, one per caller and corner. *)
(*                                                                         *)
(* Extrapolated values and eps are in sixths of the unit of the rungs'     *)
(* values, so that order 2 and the safety factor 1.5 stay integers.        *)
(***************************************************************************)
EXTENDS Integers

CONSTANTS
  Callers,   \* threads of the host that sweep the same box
  LastCorner, \* the box's corners are 1..LastCorner, as enumerated
  Top,       \* the ladder's rungs: 1..Top, coarsest first
  Meshes,    \* what meshing and solving the corners can give: see mesh
  Budgets,   \* the eps budgets asked for
  NoBudget,  \* eps_budget = None
  Fails,     \* a rung whose mesh, ccx run or parse is an Err
  Nothing    \* None

VARIABLES
  mesh,   \* corner -> [limit, at]: the exact value, and that of each rung
  cache,  \* <<corner, rung>> -> value or Nothing: the shared RungCache
  climb   \* <<caller, corner>> -> [pc, rung, prev, prevEps, value, eps]

ladderVars == <<mesh, cache, climb>>

Corners == 1..LastCorner
Rungs   == 1..Top

ASSUME LadderAssumption ==
  /\ LastCorner \in Nat \ {0}
  /\ Top \in Nat /\ Top >= 2
  /\ Budgets \subseteq Nat /\ NoBudget \notin Nat
  /\ Fails \notin Int /\ Nothing \notin Int
  /\ Meshes \subseteq
       [Corners -> [limit : Int, at : [Rungs -> Int \cup {Fails}]]]

Abs(x) == IF x < 0 THEN -x ELSE x

\* Mutant of PairEps: without the safety factor.
PairEpsBare(h, h2) == 2 * Abs(h2 - h)

\* richardson_extrapolate at the theoretical order 2, where the correction
\* is a third of the pair's difference and its fallback is out of reach.
PairEps(h, h2)      == 3 * Abs(h2 - h)
Extrapolated(h, h2) == 8 * h2 - 2 * h

Fits(eps, b) == b # NoBudget => eps <= b

\* A finer pair with a larger eps: the RuntimeError.
Worse(eps, prevEps) == prevEps # Nothing /\ eps > prevEps

\* Mutant of Key: the box is left out of the digest.
KeyOfRung(c, r) == <<1, r>>

\* RungCache.key: solver and version are the ladder's own.
Key(c, r) == <<c, r>>

\* A climb before its first rung; pc: "idle", "queued" and "cancelled" are
\* the sweep's, "get" and "run" the climb's, the rest how it ended.
AtFoot == [pc |-> "idle", rung |-> 1, prev |-> 0, prevEps |-> Nothing,
           value |-> 0, eps |-> 0]

Climbing == {"get", "run"}
Ended    == {"ok", "err", "raised"}

LadderInit ==
  /\ mesh \in Meshes
  /\ cache = [k \in Corners \X Rungs |-> Nothing]
  /\ climb = [j \in Callers \X Corners |-> AtFoot]

Put(j, fields) == climb' = [climb EXCEPT ![j] = fields]

\* Mutant of NextRung: a ladder without a top.
NextRungAlways(j, v) ==
  LET me == climb[j] IN
  Put(j, [me EXCEPT !.pc = "get", !.rung = @ + 1, !.prev = v,
                    !.prevEps = IF me.rung = 1 THEN @
                                ELSE PairEps(me.prev, v)])

\* No pair has fitted yet: on to the next rung, or LadderExhausted.
NextRung(j, v) ==
  LET me == climb[j] IN
  IF me.rung = Top
  THEN Put(j, [me EXCEPT !.pc = "err"])
  ELSE Put(j, [me EXCEPT !.pc = "get", !.rung = @ + 1, !.prev = v,
                         !.prevEps = IF me.rung = 1 THEN @
                                     ELSE PairEps(me.prev, v)])

\* The climb j has the value v of its rung.
Reached(j, v, b) ==
  LET me  == climb[j]
      eps == PairEps(me.prev, v)
  IN  \/ /\ me.rung = 1
         /\ NextRung(j, v)
      \/ /\ me.rung > 1 /\ Worse(eps, me.prevEps)
         /\ Put(j, [me EXCEPT !.pc = "raised"])
      \/ /\ me.rung > 1 /\ ~ Worse(eps, me.prevEps) /\ Fits(eps, b)
         /\ Put(j, [me EXCEPT !.pc = "ok", !.eps = eps,
                              !.value = Extrapolated(me.prev, v)])
      \/ /\ me.rung > 1 /\ ~ Worse(eps, me.prevEps) /\ ~ Fits(eps, b)
         /\ NextRung(j, v)

\* _run looks in the cache.
LookUp(j, b) ==
  LET key == Key(j[2], climb[j].rung) IN
  /\ climb[j].pc = "get"
  /\ \/ cache[key] # Nothing /\ Reached(j, cache[key], b)
     \/ cache[key] = Nothing /\ Put(j, [climb[j] EXCEPT !.pc = "run"])
  /\ UNCHANGED <<mesh, cache>>

\* run_rung returns: an Err ends the climb and is not cached.
RunRung(j, b) ==
  LET v == mesh[j[2]].at[climb[j].rung] IN
  /\ climb[j].pc = "run"
  /\ \/ /\ v = Fails
        /\ Put(j, [climb[j] EXCEPT !.pc = "err"])
        /\ UNCHANGED cache
     \/ /\ v # Fails
        /\ cache' = [cache EXCEPT ![Key(j[2], climb[j].rung)] = v]
        /\ Reached(j, v, b)
  /\ UNCHANGED mesh

----------------------------------------------------------------------------
(* What a climb of a corner with the meshes m, within budget b, comes to   *)
(* with no cache.                                                          *)

EpsAt(m, r) == PairEps(m.at[r - 1], m.at[r])

Grows(m, r) == r > 2 /\ EpsAt(m, r) > EpsAt(m, r - 1)

Suffices(m, b, r) == r > 1 /\ Fits(EpsAt(m, r), b)

Stops(m, b, r) ==
  m.at[r] = Fails \/ Grows(m, r) \/ Suffices(m, b, r) \/ r = Top

\* The first rung at which the climb stops.
LastRung(m, b) ==
  CHOOSE r \in Rungs :
    Stops(m, b, r) /\ \A q \in Rungs : q < r => ~ Stops(m, b, q)

Outcome(m, b) ==
  LET r == LastRung(m, b) IN
  CASE m.at[r] = Fails -> "err"
    [] m.at[r] # Fails /\ Grows(m, r) -> "raised"
    [] m.at[r] # Fails /\ ~ Grows(m, r) /\ Suffices(m, b, r) -> "ok"
    [] OTHER -> "err"

ValueOf(m, b) ==
  LET r == LastRung(m, b) IN
  Extrapolated(m.at[r - 1], m.at[r])

\* Errors e and f of neighbouring rungs shrink: the ratio f / e is between
\* -1/5 and 5/11, which quadratic elements' 1/4 is well within.
Shrinks(e, f) ==
  IF e >= 0 THEN 5 * f >= -e /\ 11 * f <= 5 * e
            ELSE 5 * f <= -e /\ 11 * f >= 5 * e

Converges(m) ==
  /\ \A r \in Rungs : m.at[r] # Fails
  /\ \A r \in Rungs : r > 1 =>
       Shrinks(m.at[r - 1] - m.limit,
               m.at[r] - m.limit)
=============================================================================
