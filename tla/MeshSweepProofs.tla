--------------------------- MODULE MeshSweepProofs ---------------------------
(***************************************************************************)
(* Proofs about MeshSweep: whatever the interleaving of callers, workers   *)
(* and corners, a climb does what it would alone and without a cache, and  *)
(* so the sweep answers as the serial one.                                 *)
(***************************************************************************)
EXTENDS MeshSweep, TLAPS

BudgetSet == Budgets \cup {NoBudget}

\* A climb that has not begun.
Waits(me) ==
  me.pc \in {"idle", "queued", "cancelled"} /\ me = [AtFoot EXCEPT !.pc = me.pc]

\* A climb on its way: it has stopped at no rung below, and its locals are
\* the values of those.
Climbs(m, b, me) ==
  /\ me.pc \in Climbing
  /\ \A q \in Rungs : q < me.rung => ~ Stops(m, b, q)
  /\ me.rung > 1 => me.prev = m.at[me.rung - 1]
  /\ me.rung > 2 => me.prevEps = EpsAt(m, me.rung - 1)
  /\ me.rung <= 2 => me.prevEps = Nothing

\* A climb that is over came to what it would have come to alone.
IsOver(m, b, me) ==
  /\ me.pc \in Ended /\ me.pc = Outcome(m, b)
  /\ me.pc = "ok" =>
       /\ me.rung = LastRung(m, b) /\ me.rung > 1
       /\ m.at[me.rung] # Fails
       /\ me.value = ValueOf(m, b) /\ me.eps = EpsAt(m, me.rung)
       /\ Fits(me.eps, b)
  /\ me.pc = "raised" =>
       /\ me.rung = LastRung(m, b) /\ Grows(m, me.rung)

ClimbOK(m, b, me) ==
  /\ me \in ClimbType
  /\ Waits(me) \/ Climbs(m, b, me) \/ IsOver(m, b, me)

CacheOK ==
  \A c \in Corners, r \in Rungs :
    cache[c, r] # Nothing => cache[c, r] = mesh[c].at[r]

\* How far a caller is.
CallerOK(k) ==
  /\ phase[k] = "idle" =>
       reader[k] = 1 /\ \A c \in Corners : climb[k, c].pc = "idle"
  /\ phase[k] \in {"idle", "reading"} => answer[k] = Nothing
  /\ phase[k] = "reading" =>
       \A d \in Corners : d < reader[k] => climb[k, d].pc = "ok"
  /\ answer[k] # Nothing => answer[k] = SerialAnswer(mesh, budget[k])
  /\ phase[k] = "done" => PoolIdle(k)
  /\ answer[k] # Nothing /\ answer[k].kind = "err" =>
       \A c \in Corners : climb[k, c].pc # "queued"
  /\ threads[k] = 1 =>
       \A c, d \in Corners :
         d < c /\ climb[k, c].pc \in Climbing \cup Ended
           => climb[k, d].pc = "ok"

SweepInv ==
  /\ TypeOK /\ CacheOK
  /\ \A k \in Callers :
       /\ CallerOK(k)
       /\ \A c \in Corners : ClimbOK(mesh[c], budget[k], climb[k, c])

----------------------------------------------------------------------------
(* Arithmetic of a pair of rungs.                                          *)

\* The extrapolated value of two rungs whose errors shrink is within the
\* pair's eps of the limit.
LEMMA PairCovers ==
  ASSUME NEW l \in Int, NEW h \in Int, NEW h2 \in Int,
         Shrinks(h - l, h2 - l)
  PROVE  Abs(Extrapolated(h, h2) - 6 * l) <= PairEps(h, h2)
BY DEF Shrinks, Abs, Extrapolated, PairEps

\* Of two pairs of rungs whose errors shrink the finer has no larger eps.
LEMMA PairsShrink ==
  ASSUME NEW l \in Int, NEW h \in Int, NEW h2 \in Int, NEW h3 \in Int,
         Shrinks(h - l, h2 - l), Shrinks(h2 - l, h3 - l)
  PROVE  PairEps(h2, h3) <= PairEps(h, h2)
BY DEF Shrinks, Abs, PairEps

\* The eps of a pair of rungs is a natural number.
LEMMA PairEpsType ==
  ASSUME NEW h \in Int, NEW h2 \in Int
  PROVE  PairEps(h, h2) \in Nat /\ Extrapolated(h, h2) \in Int
BY DEF Abs, PairEps, Extrapolated

----------------------------------------------------------------------------
(* One climb.                                                              *)

\* Rungs are numbers or Fails.
LEMMA RungType ==
  ASSUME mesh \in Meshes, NEW c \in Corners, NEW r \in Rungs
  PROVE  mesh[c].limit \in Int /\ mesh[c].at[r] \in Int \cup {Fails}
<1>1. mesh \in [Corners -> [limit : Int, at : [Rungs -> Int \cup {Fails}]]]
  BY LadderAssumption
<1> QED BY <1>1

\* The rung at which a climb stops first is LastRung.
LEMMA LastRungIs ==
  ASSUME NEW m, NEW b, NEW r \in Rungs, Stops(m, b, r),
         \A q \in Rungs : q < r => ~ Stops(m, b, q)
  PROVE  LastRung(m, b) = r
<1> DEFINE P(s) == Stops(m, b, s) /\ \A q \in Rungs : q < s => ~ Stops(m, b, q)
<1>1. \A s \in Rungs : P(s) => s = r
  BY LadderAssumption DEF Rungs
<1>2. P(r)
  OBVIOUS
<1>3. LastRung(m, b) = CHOOSE s \in Rungs : P(s)
  BY DEF LastRung
<1> HIDE DEF P
<1> QED BY <1>1, <1>2, <1>3

\* The climb of c has the value v of its rung, and goes on from there.
GoesOn(k, c, v) ==
  /\ ClimbOK(mesh[c], budget[k], climb[k, c]) /\ climb[k, c].pc \in Climbing
  /\ v # Fails /\ v = mesh[c].at[climb[k, c].rung]
  /\ Reached(<<k, c>>, v, budget[k])

\* What a climb that has the value of its rung leaves behind.
LEMMA ReachedKeeps ==
  ASSUME mesh \in Meshes, NEW k \in Callers, NEW c \in Corners, NEW v,
         GoesOn(k, c, v)
  PROVE  \E you : /\ climb' = [climb EXCEPT ![<<k, c>>] = you]
                  /\ ClimbOK(mesh[c], budget[k], you)
                  /\ you.pc \in {"get"} \cup Ended
<1> DEFINE me == climb[k, c]
           b  == budget[k]
           m  == mesh[c]
           r  == me.rung
           Kept(you) == ClimbOK(m, b, you) /\ you.pc \in {"get"} \cup Ended
<1>1. me \in ClimbType /\ Climbs(m, b, me)
  BY DEF GoesOn, ClimbOK, Waits, IsOver, Climbing, Ended
<1>a. /\ v # Fails /\ v = m.at[r] /\ Reached(<<k, c>>, v, b)
      /\ me = climb[k, c] /\ b = budget[k] /\ r = me.rung
      /\ m = mesh[c]
  BY DEF GoesOn
<1>b. r \in Rungs
  BY <1>1 DEF ClimbType
<1>4. /\ \A q \in Rungs : q < r => ~ Stops(m, b, q)
      /\ r > 1 => me.prev = m.at[r - 1]
      /\ r > 2 => me.prevEps = EpsAt(m, r - 1)
      /\ r <= 2 => me.prevEps = Nothing
  BY <1>1 DEF Climbs
<1> HIDE DEF me, b, r, m
<1>2. /\ r \in Nat /\ r >= 1 /\ r <= Top
      /\ Top \in Nat /\ Top >= 2
      /\ \A q \in Nat : q >= 1 /\ q <= Top => q \in Rungs
      /\ \A q \in Rungs : q \in Nat
  BY <1>b, LadderAssumption DEF Rungs
<1>c. \A q \in Rungs : m.at[q] \in Int \cup {Fails}
  BY <1>a, RungType
<1>3. v \in Int /\ m.at[r] = v
  BY <1>a, <1>b, <1>c
<1>5. r > 1 => /\ m.at[r - 1] \in Int
               /\ PairEps(me.prev, v) = EpsAt(m, r)
               /\ EpsAt(m, r) \in Nat
               /\ Extrapolated(me.prev, v) \in Int
  <2> SUFFICES ASSUME r > 1
               PROVE  /\ m.at[r - 1] \in Int
                      /\ PairEps(me.prev, v) = EpsAt(m, r)
                      /\ EpsAt(m, r) \in Nat
                      /\ Extrapolated(me.prev, v) \in Int
    OBVIOUS
  <2>1. r - 1 \in Rungs /\ ~ Stops(m, b, r - 1)
    BY <1>2, <1>4
  <2>2. m.at[r - 1] \in Int
    BY <2>1, <1>c DEF Stops
  <2>3. PairEps(me.prev, v) = EpsAt(m, r)
    BY <1>3, <1>4 DEF EpsAt
  <2> QED BY <1>3, <1>4, <2>2, <2>3, PairEpsType
<1>6. ASSUME NextRung(<<k, c>>, v), ~ Grows(m, r), ~ Suffices(m, b, r)
      PROVE  \E you : climb' = [climb EXCEPT ![<<k, c>>] = you] /\ Kept(you)
  <2>1. CASE r = Top
    <3> DEFINE you == [me EXCEPT !.pc = "err"]
    <3>1. climb' = [climb EXCEPT ![<<k, c>>] = you]
      BY <1>6, <1>a, <2>1 DEF NextRung, Put
    <3>2. LastRung(m, b) = r
      BY <1>b, <1>4, <2>1, LastRungIs DEF Stops
    <3>3. Outcome(m, b) = "err"
      BY <3>2, <1>3, <1>6 DEF Outcome
    <3>4. you \in ClimbType /\ you.pc = "err"
      BY <1>1, <1>a DEF ClimbType, Ended
    <3>5. IsOver(m, b, you)
      BY <3>3, <3>4 DEF IsOver, Ended
    <3> QED BY <3>1, <3>4, <3>5 DEF ClimbOK, Ended
  <2>2. CASE r # Top
    <3> DEFINE e   == IF r = 1 THEN me.prevEps ELSE PairEps(me.prev, v)
               you == [me EXCEPT !.pc = "get", !.rung = r + 1, !.prev = v,
                                 !.prevEps = e]
    <3>1. climb' = [climb EXCEPT ![<<k, c>>] = you]
      BY <1>6, <1>a, <2>2 DEF NextRung, Put
    <3>2. e \in Nat \cup {Nothing}
      BY <1>1, <1>2, <1>5 DEF ClimbType
    <3>3. r + 1 \in Rungs /\ r + 1 - 1 = r
      BY <1>2, <2>2
    <3>4. you \in ClimbType
      BY <1>1, <1>3, <3>2, <3>3 DEF ClimbType, Climbing
    <3>5. /\ you.pc = "get" /\ you.rung = r + 1 /\ you.prev = v
          /\ you.prevEps = e
      BY <1>1, <1>a DEF ClimbType
    <3>6. ~ Stops(m, b, r)
      BY <1>a, <1>6, <2>2 DEF Stops
    <3>7. \A q \in Rungs : q < r + 1 => ~ Stops(m, b, q)
      BY <1>2, <1>4, <3>6
    <3>8. r + 1 > 2 => e = EpsAt(m, r)
      BY <1>2, <1>5
    <3>9. r + 1 <= 2 => e = Nothing
      BY <1>2, <1>4
    <3> HIDE DEF you, e
    <3>10. /\ you.rung - 1 = r
           /\ you.rung > 2 => r + 1 > 2
           /\ you.rung <= 2 => r + 1 <= 2
           /\ \A q \in Rungs : q < you.rung => q < r + 1
      <4> DEFINE y == you.rung
      <4>1. y = r + 1
        BY <3>5
      <4> HIDE DEF y
      <4>2. /\ y - 1 = r
            /\ y > 2 => r + 1 > 2
            /\ y <= 2 => r + 1 <= 2
            /\ \A q \in Rungs : q < y => q < r + 1
        BY <1>2, <4>1
      <4> QED BY <4>2 DEF y
    <3>11. Climbs(m, b, you)
      BY <1>3, <3>5, <3>7, <3>8, <3>9, <3>10 DEF Climbs, Climbing
    <3> QED BY <3>1, <3>4, <3>5, <3>11 DEF ClimbOK
  <2> QED BY <2>1, <2>2
<1>7. r > 1 => (Worse(PairEps(me.prev, v), me.prevEps) <=> Grows(m, r))
  <2>1. Nothing \notin Nat
    BY LadderAssumption
  <2>2. r > 2 => me.prevEps \in Nat
    <3>2. r > 2 => r - 2 \in Rungs /\ r - 1 \in Rungs /\ r - 1 - 1 = r - 2
      BY <1>2
    <3>3. r > 2 => ~ Stops(m, b, r - 1) /\ ~ Stops(m, b, r - 2)
      BY <1>2, <1>4, <3>2
    <3>4. r > 2 => m.at[r - 1] \in Int /\ m.at[r - 2] \in Int
      BY <3>2, <3>3, <1>c DEF Stops
    <3>5. r > 2 => EpsAt(m, r - 1) \in Nat
      BY <3>2, <3>4, PairEpsType DEF EpsAt
    <3> QED BY <3>5, <1>4
  <2> QED BY <1>2, <1>4, <1>5, <2>1, <2>2 DEF Worse, Grows
<1>8. CASE r = 1 /\ NextRung(<<k, c>>, v)
  <2>1. ~ Grows(m, r) /\ ~ Suffices(m, b, r)
    BY <1>8 DEF Grows, Suffices
  <2> QED BY <1>6, <1>8, <1>a, <2>1
<1>9. CASE /\ r > 1 /\ Worse(PairEps(me.prev, v), me.prevEps)
           /\ Put(<<k, c>>, [me EXCEPT !.pc = "raised"])
  <2> DEFINE you == [me EXCEPT !.pc = "raised"]
  <2>1. Grows(m, r)
    BY <1>7, <1>9
  <2>2. LastRung(m, b) = r
    BY <1>b, <1>4, <2>1, LastRungIs DEF Stops
  <2>3. Outcome(m, b) = "raised"
    BY <2>1, <2>2, <1>a DEF Outcome
  <2>4. you \in ClimbType /\ you.pc = "raised" /\ you.rung = r
    BY <1>1, <1>a DEF ClimbType, Ended
  <2>5. IsOver(m, b, you)
    BY <2>1, <2>2, <2>3, <2>4 DEF IsOver, Ended
  <2> QED BY <1>9, <1>a, <2>4, <2>5 DEF ClimbOK, Put, Ended
<1>10. CASE /\ r > 1 /\ ~ Worse(PairEps(me.prev, v), me.prevEps)
            /\ Fits(PairEps(me.prev, v), b)
            /\ Put(<<k, c>>, [me EXCEPT !.pc = "ok",
                                        !.eps = PairEps(me.prev, v),
                                        !.value = Extrapolated(me.prev, v)])
  <2> DEFINE you == [me EXCEPT !.pc = "ok", !.eps = PairEps(me.prev, v),
                               !.value = Extrapolated(me.prev, v)]
  <2>1. ~ Grows(m, r) /\ Suffices(m, b, r)
    BY <1>5, <1>7, <1>10 DEF Suffices
  <2>2. LastRung(m, b) = r
    BY <1>b, <1>4, <2>1, LastRungIs DEF Stops
  <2>3. Outcome(m, b) = "ok"
    BY <2>1, <2>2, <1>a DEF Outcome
  <2>4. you \in ClimbType
    BY <1>1, <1>5, <1>10 DEF ClimbType, Ended
  <2>5. /\ you.pc = "ok" /\ you.rung = r /\ you.eps = EpsAt(m, r)
        /\ you.value = Extrapolated(me.prev, v)
    <3>1. you.pc = "ok" /\ you.rung = r
      BY <1>1, <1>a DEF ClimbType
    <3>2. you.eps = PairEps(me.prev, v) /\ you.value = Extrapolated(me.prev, v)
      BY <1>1 DEF ClimbType
    <3> HIDE DEF you
    <3> QED BY <1>5, <1>10, <3>1, <3>2
  <2> HIDE DEF you
  <2>6. you.value = ValueOf(m, b)
    BY <1>3, <1>4, <1>10, <2>2, <2>5 DEF ValueOf
  <2>7. Fits(you.eps, b)
    BY <1>5, <1>10, <2>5
  <2>8. IsOver(m, b, you)
    BY <1>a, <1>10, <2>2, <2>3, <2>5, <2>6, <2>7 DEF IsOver, Ended
  <2>9. climb' = [climb EXCEPT ![<<k, c>>] = you]
    BY <1>10 DEF Put, you
  <2> QED BY <1>a, <2>4, <2>5, <2>8, <2>9 DEF ClimbOK, Ended
<1>11. CASE /\ r > 1 /\ ~ Worse(PairEps(me.prev, v), me.prevEps)
            /\ ~ Fits(PairEps(me.prev, v), b) /\ NextRung(<<k, c>>, v)
  BY <1>5, <1>6, <1>7, <1>11, <1>a DEF Suffices
<1> QED BY <1>2, <1>a, <1>8, <1>9, <1>10, <1>11 DEF GoesOn, Reached

\* A step of one climb leaves that climb, and the cache, as they ought to be.
LEMMA StepKeeps ==
  ASSUME SweepInv, NEW k \in Callers, NEW c \in Corners, Step(k, c)
  PROVE  /\ climb[k, c].pc \in Climbing
         /\ \E you : /\ climb' = [climb EXCEPT ![<<k, c>>] = you]
                     /\ ClimbOK(mesh[c], budget[k], you)
                     /\ you.pc \in Climbing \cup Ended
         /\ cache' \in [Corners \X Rungs -> Int \cup {Nothing}]
         /\ CacheOK'
         /\ mesh' = mesh
<1> DEFINE me == climb[k, c]
           b  == budget[k]
           r  == me.rung
           m  == mesh[c]
           Moved(you) == /\ climb' = [climb EXCEPT ![<<k, c>>] = you]
                         /\ ClimbOK(mesh[c], budget[k], you)
                         /\ you.pc \in Climbing \cup Ended
<1>1. ClimbOK(m, b, me) /\ CacheOK /\ mesh \in Meshes
  BY DEF SweepInv, TypeOK
<1>2. cache \in [Corners \X Rungs -> Int \cup {Nothing}]
  BY DEF SweepInv, TypeOK
<1>3. me.pc \in Climbing /\ mesh' = mesh
  BY DEF Step, LookUp, RunRung, Climbing
<1>4. me \in ClimbType /\ Climbs(m, b, me)
  BY <1>1, <1>3 DEF ClimbOK, Waits, IsOver, Climbing, Ended
<1>5. r \in Rungs /\ me.rung = r
  BY <1>4 DEF ClimbType
<1>6. m.at[r] \in Int \cup {Fails}
  BY <1>1, <1>5, RungType
<1>7. Fails \notin Int /\ Nothing \notin Int
  BY LadderAssumption
<1>8. Key(c, r) = <<c, r>> /\ <<k, c>>[2] = c /\ climb[<<k, c>>] = me
  BY DEF Key
<1>9. ASSUME NEW v, v # Fails, v = m.at[r], Reached(<<k, c>>, v, b)
      PROVE  \E you : Moved(you)
  <2>1. GoesOn(k, c, v)
    BY <1>1, <1>3, <1>9 DEF GoesOn
  <2>2. PICK you : /\ climb' = [climb EXCEPT ![<<k, c>>] = you]
                   /\ ClimbOK(mesh[c], budget[k], you)
                   /\ you.pc \in {"get"} \cup Ended
    BY <1>1, <2>1, ReachedKeeps
  <2> QED BY <2>2 DEF Climbing
<1>10. CASE me.pc = "get" /\ cache[c, r] # Nothing
            /\ Reached(<<k, c>>, cache[c, r], b) /\ UNCHANGED cache
  <2>1. cache[c, r] = m.at[r]
    BY <1>1, <1>5, <1>10 DEF CacheOK
  <2>2. cache[c, r] \in Int
    BY <1>2, <1>5, <1>10
  <2>3. \E you : Moved(you)
    BY <1>7, <1>9, <1>10, <2>1, <2>2
  <2>4. CacheOK'
    BY <1>1, <1>3, <1>10 DEF CacheOK
  <2> QED BY <1>2, <1>3, <1>10, <2>3, <2>4
<1>11. CASE me.pc = "get" /\ Put(<<k, c>>, [me EXCEPT !.pc = "run"])
            /\ UNCHANGED cache
  <2> DEFINE you == [me EXCEPT !.pc = "run"]
  <2>1. you \in ClimbType /\ you.pc = "run" /\ you.rung = me.rung
        /\ you.prev = me.prev /\ you.prevEps = me.prevEps
    BY <1>4 DEF ClimbType, Climbing
  <2>2. climb' = [climb EXCEPT ![<<k, c>>] = you]
    BY <1>11 DEF Put
  <2> HIDE DEF you
  <2>3. ClimbOK(m, b, you)
    BY <1>4, <2>1 DEF ClimbOK, Climbs, Climbing
  <2>4. CacheOK'
    BY <1>1, <1>3, <1>11 DEF CacheOK
  <2> QED BY <1>2, <1>3, <1>11, <2>1, <2>2, <2>3, <2>4 DEF Climbing
<1>12. CASE me.pc = "run" /\ m.at[r] = Fails
            /\ Put(<<k, c>>, [me EXCEPT !.pc = "err"]) /\ UNCHANGED cache
  <2> DEFINE you == [me EXCEPT !.pc = "err"]
  <2>1. you \in ClimbType /\ you.pc = "err"
    BY <1>4 DEF ClimbType, Ended
  <2>2. climb' = [climb EXCEPT ![<<k, c>>] = you]
    BY <1>12 DEF Put
  <2> HIDE DEF you
  <2>3. LastRung(m, b) = r
    BY <1>4, <1>5, <1>12, LastRungIs DEF Climbs, Stops
  <2>4. Outcome(m, b) = "err"
    BY <1>12, <2>3 DEF Outcome
  <2>5. ClimbOK(m, b, you)
    BY <2>1, <2>4 DEF ClimbOK, IsOver, Ended
  <2>6. CacheOK'
    BY <1>1, <1>3, <1>12 DEF CacheOK
  <2> QED BY <1>2, <1>3, <1>12, <2>1, <2>2, <2>5, <2>6 DEF Ended
<1>13. CASE me.pc = "run" /\ m.at[r] # Fails
            /\ cache' = [cache EXCEPT ![<<c, r>>] = m.at[r]]
            /\ Reached(<<k, c>>, m.at[r], b)
  <2>1. \E you : Moved(you)
    BY <1>9, <1>13
  <2>2. cache' \in [Corners \X Rungs -> Int \cup {Nothing}]
    BY <1>2, <1>5, <1>6, <1>13
  <2>3. ASSUME NEW d \in Corners, NEW q \in Rungs, cache'[d, q] # Nothing
        PROVE  cache'[d, q] = mesh'[d].at[q]
    <3>1. CASE d = c /\ q = r
      BY <1>2, <1>3, <1>13, <3>1
    <3>2. CASE ~ (d = c /\ q = r)
      <4>1. cache'[d, q] = cache[d, q]
        BY <1>2, <1>5, <1>13, <3>2
      <4> QED BY <1>1, <1>3, <2>3, <4>1 DEF CacheOK
    <3> QED BY <3>1, <3>2
  <2>4. CacheOK'
    BY <2>3 DEF CacheOK
  <2> QED BY <1>3, <2>1, <2>2, <2>4
<1> QED
  <2>1. \/ LookUp(<<k, c>>, b)
        \/ RunRung(<<k, c>>, b)
    BY DEF Step
  <2>2. CASE LookUp(<<k, c>>, b)
    BY <1>8, <1>10, <1>11, <2>2 DEF LookUp
  <2>3. CASE RunRung(<<k, c>>, b)
    BY <1>8, <1>12, <1>13, <2>3 DEF RunRung
  <2> QED BY <2>1, <2>2, <2>3

\* A climb that has ended came to its outcome.
LEMMA EndedIsOver ==
  ASSUME SweepInv, NEW k \in Callers, NEW c \in Corners,
         climb[k, c].pc \in Ended
  PROVE  IsOver(mesh[c], budget[k], climb[k, c])
BY DEF SweepInv, ClimbOK, Waits, Climbs, Climbing, Ended

\* The first corner that does not end well decides the serial answer.
LEMMA FirstDecides ==
  ASSUME NEW ms, NEW b, NEW c \in Corners, Outcome(ms[c], b) # "ok",
         \A d \in Corners : d < c => Outcome(ms[d], b) = "ok"
  PROVE  SerialAnswer(ms, b) = [kind |-> Outcome(ms[c], b), corner |-> c]
<1> DEFINE P(e) == /\ Outcome(ms[e], b) # "ok"
                   /\ \A d \in Corners : d < e => Outcome(ms[d], b) = "ok"
           first == CHOOSE e \in Corners : P(e)
<1>1. \A e \in Corners : P(e) => e = c
  BY LadderAssumption DEF Corners
<1>2. P(c)
  OBVIOUS
<1>3. first = c
  <2> HIDE DEF P
  <2> QED BY <1>1, <1>2
<1>4. ~ \A d \in Corners : Outcome(ms[d], b) = "ok"
  OBVIOUS
<1>5. SerialAnswer(ms, b) = [kind |-> Outcome(ms[first], b), corner |-> first]
  BY <1>4 DEF SerialAnswer
<1> HIDE DEF first
<1> QED BY <1>3, <1>5

----------------------------------------------------------------------------
(* The invariant.                                                          *)

\* It holds at first.
LEMMA SweepInvInit == SweepInit => SweepInv
<1> SUFFICES ASSUME SweepInit PROVE SweepInv
  OBVIOUS
<1> USE DEF SweepInit, LadderInit
<1>1. 1 \in Rungs /\ 1 \in Corners
  BY LadderAssumption DEF Rungs, Corners
<1>2. AtFoot \in ClimbType /\ AtFoot.pc = "idle" /\ Waits(AtFoot)
  BY <1>1 DEF AtFoot, ClimbType, Waits
<1>3. \A k \in Callers, c \in Corners :
        climb[k, c] = AtFoot /\ ClimbOK(mesh[c], budget[k], climb[k, c])
  BY <1>2 DEF ClimbOK
<1>4. TypeOK
  BY <1>1, <1>2 DEF TypeOK
<1>5. CacheOK
  BY DEF CacheOK
<1>6. \A k \in Callers : CallerOK(k)
  BY <1>2, <1>3 DEF CallerOK, Climbing, Ended
<1> QED BY <1>3, <1>4, <1>5, <1>6 DEF SweepInv

\* A sweep begins.
LEMMA CallKeeps ==
  ASSUME SweepInv, NEW k \in Callers, NEW n \in Pools[k], NEW b \in BudgetSet,
         Call(k, n, b)
  PROVE  SweepInv'
<1>1. TypeOK /\ CacheOK
  BY DEF SweepInv
<1>2. /\ phase[k] = "idle" /\ reader[k] = 1 /\ answer[k] = Nothing
      /\ \A c \in Corners : climb[k, c].pc = "idle"
  BY DEF SweepInv, CallerOK, Call
<1>3. \A c \in Corners : climb[k, c] \in ClimbType /\ Waits(climb[k, c])
  BY <1>2 DEF SweepInv, ClimbOK, Climbs, IsOver, Climbing, Ended
<1>4. \A c \in Corners :
        /\ climb'[k, c] = [climb[k, c] EXCEPT !.pc = "queued"]
        /\ climb'[k, c] \in ClimbType /\ climb'[k, c].pc = "queued"
        /\ Waits(climb'[k, c])
  BY <1>3 DEF Call, ClimbType, Waits, AtFoot
<1>5. \A i \in Callers, c \in Corners : i # k => climb'[i, c] = climb[i, c]
  BY DEF Call
<1>6. climb' \in [Callers \X Corners -> ClimbType]
  <2>1. \A i \in Callers, c \in Corners : climb'[i, c] \in ClimbType
    BY <1>1, <1>4, <1>5 DEF TypeOK
  <2>2. \A j \in Callers \X Corners : climb'[j] \in ClimbType
    <3> SUFFICES ASSUME NEW j \in Callers \X Corners
                 PROVE  climb'[j] \in ClimbType
      OBVIOUS
    <3>1. PICK i \in Callers, c \in Corners : j = <<i, c>>
      OBVIOUS
    <3> QED BY <2>1, <3>1
  <2>3. climb' = [j \in Callers \X Corners |-> climb'[j]]
    BY DEF Call
  <2> HIDE DEF ClimbType
  <2> QED BY <2>2, <2>3
<1>7. n \in Nat \ {0}
  BY PoolsAssumption
<1>8. TypeOK'
  BY <1>1, <1>2, <1>6, <1>7 DEF TypeOK, Call, BudgetSet
<1>9. CacheOK'
  BY <1>1 DEF CacheOK, Call
<1>10. ASSUME NEW i \in Callers
       PROVE  CallerOK(i)' /\ \A c \in Corners :
                                ClimbOK(mesh[c], budget[i], climb[i, c])'
  <2>1. CASE i = k
    <3>1. \A c \in Corners : ClimbOK(mesh[c], budget[i], climb[i, c])'
      BY <1>4, <2>1 DEF ClimbOK
    <3>2. phase'[k] = "reading" /\ reader'[k] = 1 /\ answer'[k] = Nothing
      BY <1>1, <1>2 DEF Call, TypeOK
    <3>3. \A d \in Corners : ~ d < 1
      BY LadderAssumption DEF Corners
    <3>4. CallerOK(k)'
      BY <1>4, <3>2, <3>3 DEF CallerOK, Climbing, Ended
    <3> QED BY <2>1, <3>1, <3>4
  <2>2. CASE i # k
    <3>1. /\ phase'[i] = phase[i] /\ threads'[i] = threads[i]
          /\ budget'[i] = budget[i] /\ reader'[i] = reader[i]
          /\ answer'[i] = answer[i] /\ mesh' = mesh
      BY <1>1, <2>2 DEF Call, TypeOK
    <3>2. \A c \in Corners : ClimbOK(mesh[c], budget[i], climb[i, c])'
      BY <1>5, <2>2, <3>1 DEF SweepInv
    <3>3. CallerOK(i)
      BY DEF SweepInv
    <3>4. CallerOK(i)'
      BY <1>5, <2>2, <3>1, <3>3 DEF CallerOK, PoolIdle, Of
    <3> QED BY <3>2, <3>4
  <2> QED BY <2>1, <2>2
<1> QED BY <1>8, <1>9, <1>10 DEF SweepInv
\* A caller whose own sweep a step leaves alone.
LEMMA OthersKeep ==
  ASSUME SweepInv, NEW i \in Callers, mesh' = mesh,
         phase'[i] = phase[i], threads'[i] = threads[i],
         budget'[i] = budget[i], reader'[i] = reader[i],
         answer'[i] = answer[i],
         \A c \in Corners : climb'[i, c] = climb[i, c]
  PROVE  /\ CallerOK(i)'
         /\ \A c \in Corners : ClimbOK(mesh[c], budget[i], climb[i, c])'
<1>1. CallerOK(i) /\ \A c \in Corners : ClimbOK(mesh[c], budget[i], climb[i, c])
  BY DEF SweepInv
<1>2. CallerOK(i)'
  BY <1>1 DEF CallerOK, PoolIdle, Of
<1> QED BY <1>1, <1>2

\* The corners' order.
LEMMA CornersOrder == \A d, e \in Corners : d < e => d # e
BY LadderAssumption DEF Corners

LEMMA CornersSplit ==
  \A d, e \in Corners : /\ d < e + 1 => d < e \/ d = e
                        /\ e + 1 \notin Corners => d < e \/ d = e
BY LadderAssumption DEF Corners

\* One climb begins or moves on.
LEMMA ClimbMoves ==
  ASSUME SweepInv, NEW k \in Callers, NEW c \in Corners, NEW you,
         climb' = [climb EXCEPT ![<<k, c>>] = you],
         ClimbOK(mesh[c], budget[k], you), you.pc \in Climbing \cup Ended,
         climb[k, c].pc \in {"queued"} \cup Climbing,
         phase[k] # "done",
         threads[k] = 1 => \A d \in Corners : d < c => climb[k, d].pc = "ok",
         cache' \in [Corners \X Rungs -> Int \cup {Nothing}], CacheOK',
         UNCHANGED <<mesh, sweepVars>>
  PROVE  SweepInv'
<1>1. TypeOK /\ CallerOK(k)
  BY DEF SweepInv
<1>2. climb'[k, c] = you /\ you \in ClimbType
  BY <1>1 DEF TypeOK, ClimbOK
<1>3. \A i \in Callers, d \in Corners :
        ~ (i = k /\ d = c) => climb'[i, d] = climb[i, d]
  BY <1>1 DEF TypeOK
<1>4. /\ phase' = phase /\ threads' = threads /\ budget' = budget
      /\ reader' = reader /\ answer' = answer /\ mesh' = mesh
  BY DEF sweepVars
<1>5. TypeOK'
  <2>1. climb' \in [Callers \X Corners -> ClimbType]
    <3> HIDE DEF ClimbType
    <3> QED BY <1>1, <1>2 DEF TypeOK
  <2> QED BY <1>1, <1>4, <2>1 DEF TypeOK
<1>6. \A d \in Corners : ClimbOK(mesh[d], budget[k], climb[k, d])'
  BY <1>2, <1>3, <1>4 DEF SweepInv
<1>7. climb[k, c].pc # "ok" /\ climb[k, c].pc # "idle"
      /\ climb'[k, c].pc # "queued"
  BY <1>2 DEF Climbing, Ended
<1>8. CallerOK(k)'
  <2>1. phase[k] = "idle" => FALSE
    BY <1>1, <1>7 DEF CallerOK
  <2>2. phase[k] = "reading" =>
          \A d \in Corners : d < reader[k] => climb'[k, d].pc = "ok"
    BY <1>1, <1>3, <1>7 DEF CallerOK
  <2>3. answer[k] # Nothing /\ answer[k].kind = "err" =>
          \A d \in Corners : climb'[k, d].pc # "queued"
    BY <1>1, <1>3, <1>7 DEF CallerOK
  <2>4. ASSUME threads[k] = 1, NEW e \in Corners, NEW d \in Corners,
               d < e, climb'[k, e].pc \in Climbing \cup Ended
        PROVE  climb'[k, d].pc = "ok"
    <3>1. CASE e = c
      <4>1. d # c
        BY <2>4, <3>1, CornersOrder
      <4> QED BY <1>3, <2>4, <3>1, <4>1
    <3>2. CASE e # c
      <4>1. climb[k, d].pc = "ok"
        BY <1>1, <1>3, <2>4, <3>2 DEF CallerOK
      <4> QED BY <1>3, <1>7, <4>1
    <3> QED BY <3>1, <3>2
  <2> QED BY <1>1, <1>4, <2>1, <2>2, <2>3, <2>4 DEF CallerOK
<1>9. ASSUME NEW i \in Callers, i # k
      PROVE  CallerOK(i)' /\ \A d \in Corners :
                               ClimbOK(mesh[d], budget[i], climb[i, d])'
  BY <1>3, <1>4, <1>9, OthersKeep
<1> QED BY <1>5, <1>6, <1>8, <1>9 DEF SweepInv

\* A worker takes a corner.
LEMMA StartKeeps ==
  ASSUME SweepInv, NEW k \in Callers, NEW c \in Corners, Start(k, c)
  PROVE  SweepInv'
<1> DEFINE you == [climb[k, c] EXCEPT !.pc = "get"]
<1>1. /\ TypeOK /\ CacheOK /\ CallerOK(k)
      /\ ClimbOK(mesh[c], budget[k], climb[k, c])
  BY DEF SweepInv
<1>2. climb[k, c].pc = "queued" /\ MayStart(k, c)
  BY DEF Start
<1>3. climb[k, c] \in ClimbType /\ Waits(climb[k, c])
  BY <1>1, <1>2 DEF ClimbOK, Climbs, IsOver, Climbing, Ended
<1>4. climb' = [climb EXCEPT ![<<k, c>>] = you]
  BY <1>1 DEF Start, TypeOK
<1>5. /\ you \in ClimbType /\ you.pc = "get" /\ you.rung = 1
      /\ you.prevEps = Nothing
  BY <1>3 DEF ClimbType, Climbing, Waits, AtFoot
<1> HIDE DEF you
<1>6. Climbs(mesh[c], budget[k], you)
  BY <1>5, LadderAssumption DEF Climbs, Climbing, Rungs
<1>7. ClimbOK(mesh[c], budget[k], you) /\ you.pc \in Climbing \cup Ended
  BY <1>5, <1>6 DEF ClimbOK, Climbing
<1>8. phase[k] # "done"
  BY <1>1, <1>2 DEF CallerOK, PoolIdle, Of, MayStart
<1>9. threads[k] = 1 => \A d \in Corners : d < c => climb[k, d].pc = "ok"
  BY <1>1, <1>2 DEF CallerOK, MayStart
<1>10. /\ UNCHANGED <<mesh, sweepVars>>
       /\ cache' \in [Corners \X Rungs -> Int \cup {Nothing}] /\ CacheOK'
  BY <1>1 DEF Start, TypeOK, CacheOK, sweepVars
<1> QED BY <1>2, <1>4, <1>7, <1>8, <1>9, <1>10, ClimbMoves

\* A climb looks a rung up, or runs one.
LEMMA ClimbKeeps ==
  ASSUME SweepInv, NEW k \in Callers, NEW c \in Corners, Step(k, c)
  PROVE  SweepInv'
<1>1. /\ climb[k, c].pc \in Climbing
      /\ cache' \in [Corners \X Rungs -> Int \cup {Nothing}]
      /\ CacheOK'
      /\ mesh' = mesh
  BY StepKeeps
<1>2. PICK you : /\ climb' = [climb EXCEPT ![<<k, c>>] = you]
                 /\ ClimbOK(mesh[c], budget[k], you)
                 /\ you.pc \in Climbing \cup Ended
  BY StepKeeps
<1>3. CallerOK(k)
  BY DEF SweepInv
<1>4. phase[k] # "done"
  BY <1>1, <1>3 DEF CallerOK, PoolIdle, Of
<1>5. threads[k] = 1 => \A d \in Corners : d < c => climb[k, d].pc = "ok"
  BY <1>1, <1>3 DEF CallerOK
<1>6. UNCHANGED <<mesh, sweepVars>>
  BY <1>1 DEF Step
<1> QED BY <1>1, <1>2, <1>4, <1>5, <1>6, ClimbMoves
\* The caller returns or raises; corners in the queue may be cancelled.
LEMMA ReturnKeeps ==
  ASSUME SweepInv, NEW k \in Callers, NEW a, phase[k] = "reading",
         Return(k, a), a = SerialAnswer(mesh, budget[k]), a \in AnswerType,
         NEW C, C \subseteq Of(k, {"queued"}),
         climb' = [j \in Callers \X Corners |->
                     IF j[1] = k /\ j[2] \in C
                     THEN [climb[j] EXCEPT !.pc = "cancelled"] ELSE climb[j]],
         a.kind = "err" => C = Of(k, {"queued"})
  PROVE  SweepInv'
<1>1. TypeOK /\ CacheOK /\ CallerOK(k)
  BY DEF SweepInv
<1>2. \A i \in Callers, c \in Corners :
        ~ (i = k /\ c \in C) => climb'[i, c] = climb[i, c]
  OBVIOUS
<1>3. \A c \in Corners :
        c \in C => /\ climb[k, c].pc = "queued"
                   /\ climb'[k, c] = [climb[k, c] EXCEPT !.pc = "cancelled"]
  BY DEF Of
<1>4. \A c \in Corners :
        c \in C => climb[k, c] \in ClimbType /\ Waits(climb[k, c])
  BY <1>3 DEF SweepInv, ClimbOK, Climbs, IsOver, Climbing, Ended
<1>5. ASSUME NEW c \in Corners, c \in C
      PROVE  /\ climb'[k, c] \in ClimbType
             /\ climb'[k, c].pc = "cancelled" /\ Waits(climb'[k, c])
  <2>1. /\ climb[k, c] = [AtFoot EXCEPT !.pc = "queued"]
        /\ climb[k, c] \in ClimbType
    BY <1>3, <1>4, <1>5 DEF Waits
  <2>2. climb'[k, c] = [climb[k, c] EXCEPT !.pc = "cancelled"]
    BY <1>3, <1>5
  <2>3. climb'[k, c] = [AtFoot EXCEPT !.pc = "cancelled"]
    BY <2>1, <2>2 DEF AtFoot
  <2>4. climb'[k, c] \in ClimbType /\ climb'[k, c].pc = "cancelled"
    BY <2>1, <2>2 DEF ClimbType
  <2> QED BY <2>3, <2>4 DEF Waits
<1>6. climb' \in [Callers \X Corners -> ClimbType]
  <2>1. ASSUME NEW i \in Callers, NEW c \in Corners
        PROVE  climb'[i, c] \in ClimbType
    <3>1. CASE i = k /\ c \in C
      BY <1>5, <3>1
    <3>2. CASE ~ (i = k /\ c \in C)
      <4>1. climb[i, c] \in ClimbType
        BY <1>1 DEF TypeOK
      <4> QED BY <1>2, <3>2, <4>1
    <3> QED BY <3>1, <3>2
  <2>2. \A j \in Callers \X Corners : climb'[j] \in ClimbType
    <3> SUFFICES ASSUME NEW j \in Callers \X Corners
                 PROVE  climb'[j] \in ClimbType
      OBVIOUS
    <3>1. PICK i \in Callers, c \in Corners : j = <<i, c>>
      OBVIOUS
    <3> QED BY <2>1, <3>1
  <2>3. climb' = [j \in Callers \X Corners |-> climb'[j]]
    OBVIOUS
  <2> HIDE DEF ClimbType
  <2> QED BY <2>2, <2>3
<1>7. /\ mesh' = mesh /\ cache' = cache /\ threads' = threads
      /\ budget' = budget /\ reader' = reader
      /\ phase' = [phase EXCEPT ![k] = "leaving"]
      /\ answer' = [answer EXCEPT ![k] = a]
  BY DEF Return
<1>8. phase'[k] = "leaving" /\ answer'[k] = a
  BY <1>1, <1>7 DEF TypeOK
<1>9. TypeOK' /\ CacheOK'
  <2>1. answer' \in [Callers -> AnswerType \cup {Nothing}]
    BY <1>1, <1>7 DEF TypeOK
  <2>2. phase' \in [Callers -> {"idle", "reading", "leaving", "done"}]
    BY <1>1, <1>7 DEF TypeOK
  <2> QED BY <1>1, <1>6, <1>7, <2>1, <2>2 DEF TypeOK, CacheOK
<1>10. ASSUME NEW c \in Corners
       PROVE  ClimbOK(mesh[c], budget[k], climb[k, c])'
  <2>1. CASE c \in C
    BY <1>5, <2>1 DEF ClimbOK
  <2>2. CASE c \notin C
    BY <1>2, <1>7, <2>2 DEF SweepInv
  <2> QED BY <2>1, <2>2
<1>11. CallerOK(k)'
  <2>1. a.kind = "err" => \A c \in Corners : climb'[k, c].pc # "queued"
    BY <1>2, <1>5 DEF Of
  <2>2. ASSUME threads[k] = 1, NEW c \in Corners, NEW d \in Corners,
               d < c, climb'[k, c].pc \in Climbing \cup Ended
        PROVE  climb'[k, d].pc = "ok"
    <3>1. c \notin C
      BY <1>5, <2>2 DEF Climbing, Ended
    <3>2. climb[k, d].pc = "ok"
      BY <1>1, <1>2, <2>2, <3>1 DEF CallerOK
    <3>3. d \notin C
      BY <1>3, <3>2
    <3> QED BY <1>2, <3>2, <3>3
  <2> QED BY <1>7, <1>8, <2>1, <2>2 DEF CallerOK
<1>12. ASSUME NEW i \in Callers, i # k
       PROVE  CallerOK(i)' /\ \A c \in Corners :
                                ClimbOK(mesh[c], budget[i], climb[i, c])'
  <2>1. phase'[i] = phase[i] /\ answer'[i] = answer[i]
    BY <1>1, <1>7, <1>12 DEF TypeOK
  <2> QED BY <1>2, <1>7, <1>12, <2>1, OthersKeep
<1> QED BY <1>9, <1>10, <1>11, <1>12 DEF SweepInv
\* The caller reads the first Err.
LEMMA ReadErrKeeps ==
  ASSUME SweepInv, NEW k \in Callers, ReadErr(k)
  PROVE  SweepInv'
<1> DEFINE c == reader[k]
           a == [kind |-> "err", corner |-> c]
           C == Of(k, {"queued"})
<1>1. TypeOK /\ CallerOK(k)
  BY DEF SweepInv
<1>2. c \in Corners /\ phase[k] = "reading" /\ climb[k, c].pc = "err"
  BY <1>1 DEF TypeOK, ReadErr
<1>a. c = reader[k]
  OBVIOUS
<1> HIDE DEF c
<1>3. Outcome(mesh[c], budget[k]) = "err"
  BY <1>2, EndedIsOver DEF IsOver, Ended
<1>4. ASSUME NEW d \in Corners, d < c
      PROVE  Outcome(mesh[d], budget[k]) = "ok"
  <2>1. climb[k, d].pc = "ok"
    BY <1>1, <1>2, <1>4, <1>a DEF CallerOK
  <2> QED BY <2>1, EndedIsOver DEF IsOver, Ended
<1>5. a = SerialAnswer(mesh, budget[k])
  <2>1. /\ Outcome(mesh[c], budget[k]) # "ok"
        /\ \A d \in Corners : d < c => Outcome(mesh[d], budget[k]) = "ok"
    BY <1>3, <1>4
  <2>2. SerialAnswer(mesh, budget[k]) =
          [kind |-> Outcome(mesh[c], budget[k]), corner |-> c]
    BY <1>2, <2>1, FirstDecides
  <2> QED BY <1>3, <2>2
<1>6. a \in AnswerType /\ a.kind = "err"
  BY <1>2 DEF AnswerType
<1>7. /\ Return(k, a)
      /\ climb' = [j \in Callers \X Corners |->
                     IF j[1] = k /\ j[2] \in C
                     THEN [climb[j] EXCEPT !.pc = "cancelled"] ELSE climb[j]]
  BY <1>a DEF ReadErr, Cancelled
<1> HIDE DEF a, C
<1>8. C = Of(k, {"queued"})
  BY DEF C
<1> QED BY <1>2, <1>5, <1>6, <1>7, <1>8, ReturnKeeps

\* The caller returns or raises, and cancels nothing.
LEMMA BareReturnKeeps ==
  ASSUME SweepInv, NEW k \in Callers, NEW a, phase[k] = "reading",
         Return(k, a), a = SerialAnswer(mesh, budget[k]), a \in AnswerType,
         climb' = climb, a.kind # "err"
  PROVE  SweepInv'
<1>1. climb \in [Callers \X Corners -> ClimbType]
  BY DEF SweepInv, TypeOK
<1> DEFINE C == {}
<1>2. climb' = [j \in Callers \X Corners |->
                  IF j[1] = k /\ j[2] \in C
                  THEN [climb[j] EXCEPT !.pc = "cancelled"] ELSE climb[j]]
  <2> HIDE DEF ClimbType
  <2> QED BY <1>1
<1>3. C \subseteq Of(k, {"queued"})
  OBVIOUS
<1> HIDE DEF C
<1> QED BY <1>2, <1>3, ReturnKeeps

\* The caller reads a climb that raised.
LEMMA ReadRaisedKeeps ==
  ASSUME SweepInv, NEW k \in Callers, ReadRaised(k)
  PROVE  SweepInv'
<1> DEFINE c == reader[k]
           a == [kind |-> "raised", corner |-> c]
<1>1. TypeOK /\ CallerOK(k)
  BY DEF SweepInv
<1>2. c \in Corners /\ phase[k] = "reading" /\ climb[k, c].pc = "raised"
  BY <1>1 DEF TypeOK, ReadRaised
<1>a. c = reader[k]
  OBVIOUS
<1> HIDE DEF c
<1>3. Outcome(mesh[c], budget[k]) = "raised"
  BY <1>2, EndedIsOver DEF IsOver, Ended
<1>4. ASSUME NEW d \in Corners, d < c
      PROVE  Outcome(mesh[d], budget[k]) = "ok"
  <2>1. climb[k, d].pc = "ok"
    BY <1>1, <1>2, <1>4, <1>a DEF CallerOK
  <2> QED BY <2>1, EndedIsOver DEF IsOver, Ended
<1>5. a = SerialAnswer(mesh, budget[k])
  <2>1. /\ Outcome(mesh[c], budget[k]) # "ok"
        /\ \A d \in Corners : d < c => Outcome(mesh[d], budget[k]) = "ok"
    BY <1>3, <1>4
  <2>2. SerialAnswer(mesh, budget[k]) =
          [kind |-> Outcome(mesh[c], budget[k]), corner |-> c]
    BY <1>2, <2>1, FirstDecides
  <2> QED BY <1>3, <2>2
<1>6. a \in AnswerType /\ a.kind # "err"
  BY <1>2 DEF AnswerType
<1>7. Return(k, a) /\ climb' = climb
  BY <1>a DEF ReadRaised
<1> HIDE DEF a
<1> QED BY <1>2, <1>5, <1>6, <1>7, BareReturnKeeps

\* The caller reads a result and goes on, or has read them all.
LEMMA ReadOkKeeps ==
  ASSUME SweepInv, NEW k \in Callers, ReadOk(k)
  PROVE  SweepInv'
<1> DEFINE c == reader[k]
           V == {climb[k, d].value : d \in Corners}
           a == [kind |-> "ok", hull |-> Hull(V)]
<1>1. TypeOK /\ CallerOK(k) /\ CacheOK
  BY DEF SweepInv
<1>2. /\ c \in Corners /\ phase[k] = "reading" /\ climb[k, c].pc = "ok"
      /\ climb' = climb
  BY <1>1 DEF TypeOK, ReadOk
<1>a. c = reader[k]
  OBVIOUS
<1> HIDE DEF c
<1>3. \A d \in Corners : d < c => climb[k, d].pc = "ok"
  BY <1>1, <1>2, <1>a DEF CallerOK
<1>5. CASE /\ c + 1 \in Corners
           /\ reader' = [reader EXCEPT ![k] = c + 1]
           /\ UNCHANGED <<mesh, cache, phase, threads, budget, answer>>
  <2>1. reader'[k] = c + 1
    BY <1>1, <1>5 DEF TypeOK
  <2>2. \A d \in Corners : d < c + 1 => climb[k, d].pc = "ok"
    BY <1>2, <1>3, CornersSplit
  <2>3. TypeOK' /\ CacheOK'
    BY <1>1, <1>2, <1>5 DEF TypeOK, CacheOK
  <2>4. \A d \in Corners : d < reader'[k] => climb'[k, d].pc = "ok"
    BY <1>2, <2>1, <2>2
  <2>5. CallerOK(k)'
    BY <1>1, <1>2, <1>5, <2>4 DEF CallerOK
  <2>6. \A d \in Corners : ClimbOK(mesh[d], budget[k], climb[k, d])'
    BY <1>2, <1>5 DEF SweepInv
  <2>7. ASSUME NEW i \in Callers, i # k
        PROVE  CallerOK(i)' /\ \A d \in Corners :
                                 ClimbOK(mesh[d], budget[i], climb[i, d])'
    <3>1. reader'[i] = reader[i]
      BY <1>1, <1>5, <2>7 DEF TypeOK
    <3> QED BY <1>2, <1>5, <3>1, OthersKeep
  <2> QED BY <2>3, <2>5, <2>6, <2>7 DEF SweepInv
<1>6. CASE c + 1 \notin Corners /\ Return(k, a)
  <2>1. \A d \in Corners : climb[k, d].pc = "ok"
    <3>1. \A d \in Corners : d = c \/ d < c
      BY <1>2, <1>6, CornersSplit
    <3> QED BY <1>2, <1>3, <3>1
  <2>2. \A d \in Corners :
          /\ Outcome(mesh[d], budget[k]) = "ok"
          /\ climb[k, d].value = ValueOf(mesh[d], budget[k])
    BY <2>1, EndedIsOver DEF IsOver, Ended
  <2>3. V = {ValueOf(mesh[d], budget[k]) : d \in Corners}
    BY <2>2
  <2>4. a = SerialAnswer(mesh, budget[k])
    BY <2>2, <2>3 DEF SerialAnswer
  <2>5. \A d \in Corners : climb[k, d].value \in Int
    BY <1>1 DEF TypeOK, ClimbType
  <2>6. Hull(V) \in SUBSET Int
    BY <2>5 DEF Hull
  <2>7. a \in AnswerType /\ a.kind # "err"
    BY <2>6 DEF AnswerType
  <2> HIDE DEF a
  <2> QED BY <1>2, <1>6, <2>4, <2>7, BareReturnKeeps
<1> QED BY <1>5, <1>6, <1>a DEF ReadOk

\* The pool is shut down.
LEMMA LeaveKeeps ==
  ASSUME SweepInv, NEW k \in Callers, Leave(k)
  PROVE  SweepInv'
<1>1. TypeOK /\ CallerOK(k) /\ CacheOK
  BY DEF SweepInv
<1>2. /\ phase[k] = "leaving" /\ phase' = [phase EXCEPT ![k] = "done"]
      /\ PoolIdle(k) /\ mesh' = mesh /\ cache' = cache /\ climb' = climb
      /\ threads' = threads /\ budget' = budget /\ reader' = reader
      /\ answer' = answer
  BY DEF Leave, ladderVars
<1>3. TypeOK' /\ CacheOK' /\ phase'[k] = "done"
  BY <1>1, <1>2 DEF TypeOK, CacheOK
<1>4. CallerOK(k)'
  BY <1>1, <1>2, <1>3 DEF CallerOK, PoolIdle, Of
<1>5. \A c \in Corners : ClimbOK(mesh[c], budget[k], climb[k, c])'
  BY <1>2 DEF SweepInv
<1>6. ASSUME NEW i \in Callers, i # k
      PROVE  CallerOK(i)' /\ \A c \in Corners :
                               ClimbOK(mesh[c], budget[i], climb[i, c])'
  <2>1. phase'[i] = phase[i]
    BY <1>1, <1>2, <1>6 DEF TypeOK
  <2> QED BY <1>2, <2>1, OthersKeep
<1> QED BY <1>3, <1>4, <1>5, <1>6 DEF SweepInv

\* Every step keeps the invariant.
LEMMA NextKeeps == SweepInv /\ [Next]_vars => SweepInv'
<1> SUFFICES ASSUME SweepInv, [Next]_vars PROVE SweepInv'
  OBVIOUS
<1>1. ASSUME NEW k \in Callers, NEW n \in Pools[k], NEW b \in BudgetSet,
             Call(k, n, b)
      PROVE  SweepInv'
  BY <1>1, CallKeeps
<1>2. ASSUME NEW k \in Callers, Main(k)
      PROVE  SweepInv'
  BY <1>2, ReadErrKeeps, ReadRaisedKeeps, ReadOkKeeps, LeaveKeeps DEF Main
<1>3. ASSUME NEW k \in Callers, NEW c \in Corners, Start(k, c) \/ Step(k, c)
      PROVE  SweepInv'
  BY <1>3, StartKeeps, ClimbKeeps
<1>4. CASE UNCHANGED vars
  <2>1. /\ mesh' = mesh /\ cache' = cache /\ climb' = climb
        /\ phase' = phase /\ threads' = threads /\ budget' = budget
        /\ reader' = reader /\ answer' = answer
    BY <1>4 DEF vars, ladderVars, sweepVars
  <2>2. TypeOK' /\ CacheOK'
    BY <2>1 DEF SweepInv, TypeOK, CacheOK
  <2>3. \A i \in Callers :
          /\ CallerOK(i)'
          /\ \A c \in Corners : ClimbOK(mesh[c], budget[i], climb[i, c])'
    BY <2>1, OthersKeep
  <2> QED BY <2>2, <2>3 DEF SweepInv
<1> QED BY <1>1, <1>2, <1>3, <1>4 DEF Next, Work, BudgetSet
\* The caches' entries, the climbs and the callers are at all times as one
\* climb alone, without a cache, would have them.
THEOREM SweepInvariant == Spec => []SweepInv
<1>1. SweepInit => SweepInv
  BY SweepInvInit
<1>2. SweepInv /\ [Next]_vars => SweepInv'
  BY NextKeeps
<1> QED BY <1>1, <1>2, PTL DEF Spec

----------------------------------------------------------------------------
(* What the invariant says of each property.                               *)

\* Every variable keeps its type.
THEOREM SweepTypes == Spec => []TypeOK
<1>1. SweepInv => TypeOK
  BY DEF SweepInv
<1> QED BY <1>1, SweepInvariant, PTL

\* parallel_corner_sweep's FINV-9: for any number of callers, corners, rungs
\* and threads, the answer is the one of a serial sweep with no cache.
THEOREM SweepsAreSerial == Spec => []AnswersAreSerial
<1>1. SweepInv => AnswersAreSerial
  BY DEF SweepInv, CallerOK, AnswersAreSerial
<1> QED BY <1>1, SweepInvariant, PTL

\* On the caller's own thread no corner is begun behind an unfinished one.
THEOREM SerialSweepsStop == Spec => []SerialShortCircuits
<1>1. SweepInv => SerialShortCircuits
  BY DEF SweepInv, CallerOK, SerialShortCircuits
<1> QED BY <1>1, SweepInvariant, PTL

\* ThreadPoolExecutor.__exit__ leaves no worker at the shared cache.
THEOREM SweepsLeaveNothing == Spec => []NoClimbOutlivesItsSweep
<1>1. SweepInv => NoClimbOutlivesItsSweep
  BY DEF SweepInv, CallerOK, NoClimbOutlivesItsSweep, PoolIdle
<1> QED BY <1>1, SweepInvariant, PTL

\* Once the first Err is read no corner of the sweep is begun.
THEOREM ErrStopsTheSweep == Spec => NothingStartsBehindAnErr
<1>1. SweepInv =>
        \A k \in Callers, c \in Corners :
          answer[k] # Nothing /\ answer[k].kind = "err"
            /\ climb[k, c].pc = "queued"
            => climb'[k, c].pc = "queued"
  BY DEF SweepInv, CallerOK
<1> QED BY <1>1, SweepInvariant, PTL DEF NothingStartsBehindAnErr

\* richardson_extrapolate's eps is true of every corner that converges at
\* a ratio between -1/5 and 5/11, whatever the values and the budget.
THEOREM EpsIsTrue == Spec => []EpsCoversTheTruth
<1>1. ASSUME SweepInv, NEW k \in Callers, NEW c \in Corners,
             climb[k, c].pc = "ok"
      PROVE  /\ Fits(climb[k, c].eps, budget[k])
             /\ Converges(mesh[c]) =>
                  Abs(climb[k, c].value - 6 * mesh[c].limit)
                    <= climb[k, c].eps
  <2> DEFINE m == mesh[c]
             b == budget[k]
             r == climb[k, c].rung
  <2>1. /\ Fits(climb[k, c].eps, b)
        /\ r = LastRung(m, b) /\ r > 1 /\ m.at[r] # Fails
        /\ climb[k, c].value = ValueOf(m, b)
        /\ climb[k, c].eps = EpsAt(m, r)
    BY <1>1, EndedIsOver DEF IsOver, Ended
  <2>2. r \in Rungs /\ mesh \in Meshes
    BY <1>1 DEF SweepInv, TypeOK, ClimbType
  <2>3. ASSUME Converges(m)
        PROVE  Abs(climb[k, c].value - 6 * m.limit) <= climb[k, c].eps
    <3>1. m.limit \in Int /\ \A q \in Rungs : m.at[q] \in Int \cup {Fails}
      BY <2>2, RungType
    <3>2. Shrinks(m.at[r - 1] - m.limit, m.at[r] - m.limit)
      BY <2>1, <2>2, <2>3 DEF Converges
    <3> HIDE DEF m, b, r
    <3>a. r > 1 /\ r \in Rungs
      BY <2>1, <2>2
    <3>3. r - 1 \in Rungs
      BY <3>a, LadderAssumption DEF Rungs
    <3>4. m.at[r - 1] \in Int /\ m.at[r] \in Int
      BY <2>2, <2>3, <3>1, <3>3 DEF Converges
    <3>5. Abs(Extrapolated(m.at[r - 1], m.at[r]) - 6 * m.limit)
            <= PairEps(m.at[r - 1], m.at[r])
      BY <3>1, <3>2, <3>4, PairCovers
    <3>6. climb[k, c].value = Extrapolated(m.at[r - 1], m.at[r])
      BY <2>1 DEF ValueOf
    <3>7. climb[k, c].eps = PairEps(m.at[r - 1], m.at[r])
      BY <2>1 DEF EpsAt
    <3> QED BY <3>5, <3>6, <3>7
  <2> QED BY <2>1, <2>3
<1>2. SweepInv => EpsCoversTheTruth
  BY <1>1 DEF EpsCoversTheTruth
<1> QED BY <1>2, SweepInvariant, PTL

\* The ladder's RuntimeError is never met by meshes that converge at such a
\* ratio: it is met only where the meshes are at fault.
THEOREM ConvergingLaddersEnd == Spec => []ConvergingNeverRaises
<1>1. ASSUME SweepInv, NEW k \in Callers, NEW c \in Corners,
             climb[k, c].pc = "raised", Converges(mesh[c])
      PROVE  FALSE
  <2> DEFINE m == mesh[c]
             r == climb[k, c].rung
  <2>1. r > 2 /\ EpsAt(m, r) > EpsAt(m, r - 1)
    BY <1>1, EndedIsOver DEF IsOver, Ended, Grows
  <2>2. r \in Rungs /\ mesh \in Meshes
    BY <1>1 DEF SweepInv, TypeOK, ClimbType
  <2>3. m.limit \in Int /\ \A q \in Rungs : m.at[q] \in Int \cup {Fails}
    BY <2>2, RungType
  <2>4. /\ \A q \in Rungs : m.at[q] # Fails
        /\ \A q \in Rungs : q > 1 =>
             Shrinks(m.at[q - 1] - m.limit, m.at[q] - m.limit)
    BY <1>1 DEF Converges
  <2> HIDE DEF m, r
  <2>5. r - 1 \in Rungs /\ r - 2 \in Rungs /\ r - 1 > 1 /\ r - 1 - 1 = r - 2
        /\ r > 1
    BY <2>1, <2>2, LadderAssumption DEF Rungs
  <2>6. m.at[r] \in Int /\ m.at[r - 1] \in Int /\ m.at[r - 2] \in Int
    BY <2>2, <2>3, <2>4, <2>5
  <2>7. /\ Shrinks(m.at[r - 2] - m.limit, m.at[r - 1] - m.limit)
        /\ Shrinks(m.at[r - 1] - m.limit, m.at[r] - m.limit)
    BY <2>2, <2>4, <2>5
  <2>8. PairEps(m.at[r - 1], m.at[r]) <= PairEps(m.at[r - 2], m.at[r - 1])
    BY <2>3, <2>6, <2>7, PairsShrink
  <2>9. EpsAt(m, r) <= EpsAt(m, r - 1)
    BY <2>5, <2>8 DEF EpsAt
  <2>10. EpsAt(m, r) \in Nat /\ EpsAt(m, r - 1) \in Nat
    BY <2>5, <2>6, PairEpsType DEF EpsAt
  <2> QED BY <2>1, <2>9, <2>10
<1>2. SweepInv => ConvergingNeverRaises
  BY <1>1 DEF ConvergingNeverRaises
<1> QED BY <1>2, SweepInvariant, PTL

\* On meshes that converge at such a ratio the ladder does not raise, and
\* what it answers with is within its eps of the truth.
THEOREM HonestLadders == Spec => []LaddersAreHonest
<1>1. EpsCoversTheTruth /\ ConvergingNeverRaises => LaddersAreHonest
  BY DEF LaddersAreHonest
<1> QED BY <1>1, EpsIsTrue, ConvergingLaddersEnd, PTL
=============================================================================
