------------------------------ MODULE MeshSweep ------------------------------
(***************************************************************************)
(* `parallel_corner_sweep` (plan/parallel.py) over mesh ladders: a caller  *)
(* sweeps the corners of a box, one climb per corner, on its own thread or *)
(* on a pool of worker threads.  With a pool, every corner is submitted,   *)
(* the futures are read in enumeration order, the first Err cancels the    *)
(* corners no worker has taken yet, and leaving the pool waits for the     *)
(* rest.  Several callers sweep the same box at once and share the cache   *)
(* of rungs.                                                               *)
(***************************************************************************)
EXTENDS MeshLadder, FiniteSets

CONSTANT Pools   \* caller -> the thread counts it asks for

VARIABLES
  phase,    \* caller -> "idle", "reading", "leaving" or "done"
  threads,  \* caller -> thread_count
  budget,   \* caller -> the eps budget of its climbs
  reader,   \* caller -> the corner whose result it waits for
  answer    \* caller -> Nothing, or what the sweep returns or raises

sweepVars == <<phase, threads, budget, reader, answer>>
vars      == <<ladderVars, sweepVars>>

ASSUME PoolsAssumption == Pools \in [Callers -> SUBSET (Nat \ {0})]

Of(k, pcs) == {c \in Corners : climb[k, c].pc \in pcs}

SweepInit ==
  /\ LadderInit
  /\ phase   = [k \in Callers |-> "idle"]
  /\ threads = [k \in Callers |-> 1]
  /\ budget  = [k \in Callers |-> NoBudget]
  /\ reader  = [k \in Callers |-> 1]
  /\ answer  = [k \in Callers |-> Nothing]

\* parallel_corner_sweep(box, fn, n) begins: every corner is submitted.  On
\* the caller's own thread a corner waits until it is read.
Call(k, n, b) ==
  /\ phase[k] = "idle"
  /\ phase'   = [phase EXCEPT ![k] = "reading"]
  /\ threads' = [threads EXCEPT ![k] = n]
  /\ budget'  = [budget EXCEPT ![k] = b]
  /\ climb'   = [j \in Callers \X Corners |->
                   IF j[1] = k THEN [climb[j] EXCEPT !.pc = "queued"]
                   ELSE climb[j]]
  /\ UNCHANGED <<mesh, cache, reader, answer>>

\* Mutant of MayStart: workers stop when the caller stops reading.
MayStartWhileRead(k, c) ==
  /\ phase[k] = "reading"
  /\ Cardinality(Of(k, Climbing)) < threads[k]
  /\ \A d \in Of(k, {"queued"}) : c <= d
  /\ threads[k] = 1 => c = reader[k]

\* A worker is free for c, the first corner in the queue; the caller's own
\* thread takes the corner it is at.
MayStart(k, c) ==
  /\ Cardinality(Of(k, Climbing)) < threads[k]
  /\ \A d \in Of(k, {"queued"}) : c <= d
  /\ threads[k] = 1 => phase[k] = "reading" /\ c = reader[k]

Start(k, c) ==
  /\ climb[k, c].pc = "queued" /\ MayStart(k, c)
  /\ climb' = [climb EXCEPT ![<<k, c>>].pc = "get"]
  /\ UNCHANGED <<mesh, cache, sweepVars>>

Step(k, c) ==
  /\ LookUp(<<k, c>>, budget[k]) \/ RunRung(<<k, c>>, budget[k])
  /\ UNCHANGED sweepVars

----------------------------------------------------------------------------
(* The caller's loop over the results.                                     *)

\* hull_from_results: the least and the greatest.
Hull(S) == {v \in S : (\A w \in S : v <= w) \/ (\A w \in S : w <= v)}

Return(k, a) ==
  /\ answer' = [answer EXCEPT ![k] = a]
  /\ phase'  = [phase EXCEPT ![k] = "leaving"]
  /\ UNCHANGED <<mesh, cache, threads, budget, reader>>

\* Mutant of Cancelled: the slice starts one corner late.
CancelledLate(k, c) == Of(k, {"queued"}) \ {c + 1}

\* futures[idx + 1:], those no worker has taken; a serial sweep's corners
\* were never submitted.
Cancelled(k, c) == Of(k, {"queued"})

\* Mutant of ReadErr: the first Err to be reported, whichever its corner.
ReadErrAny(k) ==
  \E c \in Corners :
    /\ phase[k] = "reading" /\ climb[k, c].pc = "err"
    /\ climb' = [j \in Callers \X Corners |->
                   IF j[1] = k /\ j[2] \in Cancelled(k, c)
                   THEN [climb[j] EXCEPT !.pc = "cancelled"] ELSE climb[j]]
    /\ Return(k, [kind |-> "err", corner |-> c])

ReadErr(k) ==
  LET c == reader[k] IN
  /\ phase[k] = "reading" /\ climb[k, c].pc = "err"
  /\ climb' = [j \in Callers \X Corners |->
                 IF j[1] = k /\ j[2] \in Cancelled(k, c)
                 THEN [climb[j] EXCEPT !.pc = "cancelled"] ELSE climb[j]]
  /\ Return(k, [kind |-> "err", corner |-> c])

\* future.result() re-raises: nothing is cancelled, and the pool works its
\* queue off before the exception gets past it.
ReadRaised(k) ==
  LET c == reader[k] IN
  /\ phase[k] = "reading" /\ climb[k, c].pc = "raised"
  /\ UNCHANGED climb
  /\ Return(k, [kind |-> "raised", corner |-> c])

ReadOk(k) ==
  LET c == reader[k] IN
  /\ phase[k] = "reading" /\ climb[k, c].pc = "ok"
  /\ UNCHANGED climb
  /\ \/ /\ c + 1 \in Corners
        /\ reader' = [reader EXCEPT ![k] = c + 1]
        /\ UNCHANGED <<mesh, cache, phase, threads, budget, answer>>
     \/ /\ c + 1 \notin Corners
        /\ Return(k, [kind |-> "ok",
                      hull |-> Hull({climb[k, d].value : d \in Corners})])

PoolIdle(k) ==
  /\ Of(k, Climbing) = {}
  /\ threads[k] = 1 \/ Of(k, {"queued"}) = {}

\* ThreadPoolExecutor.__exit__, then the caller has its answer.
Leave(k) ==
  /\ phase[k] = "leaving" /\ PoolIdle(k)
  /\ phase' = [phase EXCEPT ![k] = "done"]
  /\ UNCHANGED <<ladderVars, threads, budget, reader, answer>>

Main(k) == ReadErr(k) \/ ReadRaised(k) \/ ReadOk(k) \/ Leave(k)

Work == \E k \in Callers :
          Main(k) \/ \E c \in Corners : Start(k, c) \/ Step(k, c)

Next == \/ \E k \in Callers :
             \E n \in Pools[k], b \in Budgets \cup {NoBudget} : Call(k, n, b)
        \/ Work

\* Threads that can run do; nobody has to call.
Spec == SweepInit /\ [][Next]_vars /\ WF_vars(Work)

----------------------------------------------------------------------------
(* Properties. *)

ClimbType ==
  [pc : {"idle", "queued", "cancelled"} \cup Climbing \cup Ended,
   rung : Rungs, prev : Int, prevEps : Nat \cup {Nothing}, value : Int,
   eps : Nat]

AnswerType ==
  [kind : {"err", "raised"}, corner : Corners]
    \cup [kind : {"ok"}, hull : SUBSET Int]

TypeOK ==
  /\ mesh \in Meshes
  /\ cache \in [Corners \X Rungs -> Int \cup {Nothing}]
  /\ climb \in [Callers \X Corners -> ClimbType]
  /\ phase \in [Callers -> {"idle", "reading", "leaving", "done"}]
  /\ threads \in [Callers -> Nat \ {0}]
  /\ budget \in [Callers -> Budgets \cup {NoBudget}]
  /\ reader \in [Callers -> Corners]
  /\ answer \in [Callers -> AnswerType \cup {Nothing}]

\* What a sweep of the meshes ms on the caller's thread, with nothing
\* cached, comes to.
SerialAnswer(ms, b) ==
  IF \A c \in Corners : Outcome(ms[c], b) = "ok"
  THEN [kind |-> "ok", hull |-> Hull({ValueOf(ms[c], b) : c \in Corners})]
  ELSE LET first == CHOOSE c \in Corners :
                      /\ Outcome(ms[c], b) # "ok"
                      /\ \A d \in Corners : d < c => Outcome(ms[d], b) = "ok"
       IN  [kind |-> Outcome(ms[first], b), corner |-> first]

\* FINV-9: at any thread count, whatever order the corners finish in,
\* whichever rungs other sweeps have cached by then, the answer is the
\* serial one; the first Err in enumeration order is the one reported.
AnswersAreSerial ==
  \A k \in Callers :
    answer[k] # Nothing => answer[k] = SerialAnswer(mesh, budget[k])

\* L3: once the Err is known, no further corner is begun.
NothingStartsBehindAnErr ==
  [][\A k \in Callers, c \in Corners :
       answer[k] # Nothing /\ answer[k].kind = "err"
         /\ climb[k, c].pc = "queued"
         => climb'[k, c].pc = "queued"]_vars

\* Only a pool begins a corner while an earlier one is unfinished.
SerialShortCircuits ==
  \A k \in Callers, c, d \in Corners :
    threads[k] = 1 /\ d < c /\ climb[k, c].pc \in Climbing \cup Ended
      => climb[k, d].pc = "ok"

\* No climb of a sweep outlives it: what it puts into the shared cache is
\* there when the caller has its answer.
NoClimbOutlivesItsSweep ==
  \A k \in Callers : phase[k] = "done" => Of(k, Climbing) = {}

\* On meshes whose errors shrink, the extrapolated value is within the
\* reported eps of the exact one, and the eps within the budget.
EpsCoversTheTruth ==
  \A k \in Callers, c \in Corners :
    climb[k, c].pc = "ok" =>
      /\ Fits(climb[k, c].eps, budget[k])
      /\ Converges(mesh[c]) =>
           Abs(climb[k, c].value - 6 * mesh[c].limit) <= climb[k, c].eps

\* The RuntimeError is kept for ladders that are at fault: meshes whose
\* errors shrink never meet it.
ConvergingNeverRaises ==
  \A k \in Callers, c \in Corners : climb[k, c].pc = "raised" => ~ Converges(mesh[c])

\* Between them: what the ladder makes of meshes that converge is an honest
\* answer or the Err that they topped out.
LaddersAreHonest == EpsCoversTheTruth /\ ConvergingNeverRaises

\* Every sweep returns, or raises.
SweepsReturn == \A k \in Callers : phase[k] = "reading" ~> phase[k] = "done"
=============================================================================
