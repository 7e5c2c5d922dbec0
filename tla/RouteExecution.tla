--------------------------- MODULE RouteExecution --------------------------
(***************************************************************************)
(* `execute()` (src/python/feldspar/plan/execute.py) by several runners    *)
(* that share one `PayloadStepCache` while external tools come and go.     *)
(*                                                                         *)
(* A runner walks its route: per step it splits the inputs into scalars    *)
(* and payload references, inflates the scalars into a box, asks the step  *)
(* cache, otherwise calls the solver at each corner of the box, hulls the  *)
(* answers, charges the realized eps, and checks the outputs against the   *)
(* solver's domain before the next step may use them.                      *)
(***************************************************************************)
EXTENDS Integers, Sequences, FiniteSets, FiniteSetsExt, Functions

CONSTANTS
  Runners,         \* the callers of execute()
  Jobs,            \* [route, known, refs, budget]: budget is Nat or NoBudget
  Solvers,         \* solver ids
  Info,            \* Info[s]: SolverInfo, see ValidInfo
  Answers(_, _, _, _), \* Answers(s, corner, refs, remaining): what s may return
  Truth(_, _),     \* Truth(p, x): the value of port p when the knowns are x
  Exact(_, _, _),  \* Exact(s, p, y): s's output p at the inputs y, free of error
  Refs,            \* payload references, see StepRefs
  Tools, NoTool,   \* external tools; Info[s].tool of a solver without one
  NoBudget,        \* eps_budget = None
  NaN,             \* a non-finite number
  MaxChanges       \* bound: installations and removals of tools

Interval == {iv \in Int \X Int : iv[1] <= iv[2]}

\* Ports of Info are split by rank: scalar ones and payload ones.
ValidInfo(i) ==
  /\ i.outputs # {} \/ i.payloadOutputs # {}
  /\ IsFiniteSet(i.inputs) /\ IsFiniteSet(i.outputs)
  /\ \A p \in DOMAIN i.box : i.box[p] \in Interval
  /\ i.accuracy \in [i.outputs -> Nat]
  /\ i.deterministic \in BOOLEAN
  /\ i.tool \in Tools \cup {NoTool}

ASSUME ExecutionAssumption ==
  /\ \A s \in Solvers : ValidInfo(Info[s])
  /\ \A j \in Jobs :
       /\ j.route \in Seq(Solvers) /\ \A p \in DOMAIN j.known : j.known[p] \in Interval
       /\ \A p \in DOMAIN j.refs : j.refs[p] \in Refs
       /\ j.budget \in Nat \cup {NoBudget}
  /\ NoTool \notin Tools /\ MaxChanges \in Nat
  /\ NaN \notin Int /\ NoBudget \notin Nat

\* A missing scalar input "is unreachable off a well-formed Route (the planner
\* only commits steps whose inputs are achieved)".
ASSUME RoutesAssumption ==
  \A j \in Jobs : \A k \in DOMAIN j.route :
    Info[j.route[k]].inputs \subseteq
      DOMAIN j.known \cup UNION {Info[j.route[l]].outputs : l \in 1..(k - 1)}

VARIABLES
  job,        \* job[r]: the arguments of r's execute()
  pc,         \* pc[r]: "split", "probe", "sweep", "check", "done"
  pos,        \* pos[r]: the step being executed
  values,     \* values[r]: port -> interval
  eps,        \* eps[r]: port -> realized eps of its producer
  refs,       \* refs[r]: payload port -> reference
  todo,       \* todo[r]: corners of the current step not evaluated yet
  answers,    \* answers[r]: what the solver returned at the other corners
  entry,      \* entry[r]: hull, references and eps of the current step
  outcome,    \* outcome[r]: "none", "Solution" or the SolveError
  stepCache,  \* the entries stored, by key
  tools,      \* the tools installed now
  changes     \* tool changes so far

runner == <<job, pc, pos, values, eps, refs, todo, answers, entry, outcome>>
vars   == <<runner, stepCache, tools, changes>>

NoEntry == [hull |-> <<>>, refs |-> <<>>, eps |-> 0]

Init ==
  /\ job \in [Runners -> Jobs]
  /\ pc = [r \in Runners |-> "split"]
  /\ pos = [r \in Runners |-> 1]
  /\ values = [r \in Runners |-> job[r].known]
  /\ eps = [r \in Runners |-> [p \in DOMAIN job[r].known |-> 0]]
  /\ refs = [r \in Runners |-> job[r].refs]
  /\ todo = [r \in Runners |-> {}]
  /\ answers = [r \in Runners |-> {}]
  /\ entry = [r \in Runners |-> NoEntry]
  /\ outcome = [r \in Runners |-> "none"]
  /\ stepCache = <<>>
  /\ tools \in SUBSET Tools
  /\ changes = 0

----------------------------------------------------------------------------
(* The current step of runner r. *)

Solver(r) == job[r].route[pos[r]]
At(r) == Info[Solver(r)]
Installed(s) == Info[s].tool \in tools \cup {NoTool}

\* A map updated with the entries of f.
Over(f, g) == [x \in DOMAIN f \cup DOMAIN g |-> IF x \in DOMAIN f THEN f[x] ELSE g[x]]

Inflate(iv, e) == <<iv[1] - e, iv[2] + e>>
Subset(a, b) == b[1] <= a[1] /\ a[2] <= b[2]

Box(r) == [p \in At(r).inputs |-> Inflate(values[r][p], eps[r][p])]

\* The payload references the step consumes.
StepRefs(r) == [p \in At(r).payloadInputs |-> refs[r][p]]

\* enumerate_corners: each port at one end of its interval.
Corners(box) ==
  {c \in [DOMAIN box -> UNION {{box[p][1], box[p][2]} : p \in DOMAIN box}] :
     \A p \in DOMAIN box : c[p] \in {box[p][1], box[p][2]}}

\* The budget left for an eps-seeking solver.
Remaining(r) ==
  IF job[r].budget = NoBudget THEN NoBudget
  ELSE Max({0, job[r].budget - Max({0} \cup {eps[r][p] : p \in At(r).inputs})})

TrustMeasurement(i, out) ==
  IF out.err # "none" THEN {out.err}
  ELSE IF ~ i.outputs \subseteq DOMAIN out.values THEN {"MissingOutput"}
  ELSE IF \E p \in DOMAIN out.values : out.values[p] = NaN THEN {"NonFinite"} ELSE {}
\* The SolveFn's own Err, _check_step_output, the payload checks and the
\* measured_eps check.
OutputErrors(i, out) ==
  IF out.err # "none" THEN {out.err} ELSE
  (IF i.outputs \subseteq DOMAIN out.values /\ i.payloadOutputs \subseteq DOMAIN out.refs
     THEN {} ELSE {"MissingOutput"})
  \cup (IF \E p \in DOMAIN out.values : out.values[p] = NaN THEN {"NonFinite"} ELSE {})
  \cup (IF \E p \in DOMAIN out.refs \cap i.payloadOutputs : out.refs[p].kind # i.kinds[p]
          THEN {"PayloadKindMismatch"} ELSE {})
  \cup (IF \E e \in out.measured : e = NaN \/ e < 0 THEN {"InvalidMeasurement"} ELSE {})

Hull(i, outs) ==
  [p \in i.outputs |-> <<Min({o.values[p] : o \in outs}), Max({o.values[p] : o \in outs})>>]
Produced(i, outs) == [p \in i.payloadOutputs |-> (CHOOSE o \in outs : TRUE).refs[p]]

\* The worst measurement of any corner, else the declared accuracy.
BestMeasured(i, outs) ==
  LET measured == UNION {o.measured : o \in outs} IN
  IF measured # {} THEN Min(measured) ELSE Max({0} \cup {i.accuracy[p] : p \in i.outputs})
StepEps(i, outs) ==
  LET measured == UNION {o.measured : o \in outs} IN
  IF measured # {} THEN Max(measured) ELSE Max({0} \cup {i.accuracy[p] : p \in i.outputs})

\* A payload output that differs between two corners.
Varies(i, outs) ==
  \E p \in i.payloadOutputs : Cardinality({o.refs[p] : o \in outs}) > 1

\* _check_step_output_domain: the hull, inflated, inside the box.
RawHullInBox(i, e) ==
  \A p \in DOMAIN i.box \cap DOMAIN e.hull : Subset(e.hull[p], i.box[p])
OutputInBox(i, e) ==
  \A p \in DOMAIN i.box \cap DOMAIN e.hull : Subset(Inflate(e.hull[p], e.eps), i.box[p])

\* PayloadStepCache.key and the steps that take part.
PayloadDigests(r) == [p \in DOMAIN StepRefs(r) |-> StepRefs(r)[p].digest]
KeyWithoutBox(r) == <<Solver(r), <<>>, PayloadDigests(r)>>
StepKey(r) == <<Solver(r), Box(r), PayloadDigests(r)>>
UsesStepCache(r) ==
  At(r).deterministic /\ (At(r).payloadInputs # {} \/ At(r).payloadOutputs # {})

StepHit(r) == UsesStepCache(r) /\ StepKey(r) \in DOMAIN stepCache /\ Installed(Solver(r))

----------------------------------------------------------------------------
(* The actions of runner r. *)

Fail(r, err) == /\ outcome' = [outcome EXCEPT ![r] = err]
                /\ pc' = [pc EXCEPT ![r] = "done"]

\* _split_step_inputs: every payload is there and of the declared kind.
Split(r) ==
  /\ pc[r] = "split" /\ pos[r] <= Len(job[r].route)
  /\ LET missing == {p \in At(r).payloadInputs : p \notin DOMAIN refs[r]}
         wrong == {p \in At(r).payloadInputs \ missing : refs[r][p].kind # At(r).kinds[p]}
     IN \/ missing # {} /\ Fail(r, "MissingPayload")
        \/ wrong # {} /\ Fail(r, "PayloadKindMismatch")
        \/ missing \cup wrong = {} /\ pc' = [pc EXCEPT ![r] = "probe"] /\ UNCHANGED outcome
  /\ UNCHANGED <<job, pos, values, eps, refs, todo, answers, entry, stepCache, tools, changes>>

ServeHit(r) ==
  /\ pc[r] = "probe" /\ StepHit(r)
  /\ entry' = [entry EXCEPT ![r] = stepCache[StepKey(r)]]
  /\ pc' = [pc EXCEPT ![r] = "check"]
  /\ UNCHANGED <<job, pos, values, eps, refs, todo, answers, outcome, stepCache, tools, changes>>

StartSweep(r) ==
  /\ pc[r] = "probe" /\ ~ StepHit(r)
  /\ todo' = [todo EXCEPT ![r] = Corners(Box(r))]
  /\ answers' = [answers EXCEPT ![r] = {}]
  /\ pc' = [pc EXCEPT ![r] = "sweep"]
  /\ UNCHANGED <<job, pos, values, eps, refs, entry, outcome, stepCache, tools, changes>>

WaitForTool(r, c) ==
  /\ pc[r] = "sweep" /\ c \in todo[r] /\ Installed(Solver(r))
  /\ \E out \in Answers(Solver(r), c, StepRefs(r), Remaining(r)) :
       /\ OutputErrors(At(r), out) = {}
       /\ todo' = [todo EXCEPT ![r] = @ \ {c}]
       /\ answers' = [answers EXCEPT ![r] = @ \cup {out}]
  /\ UNCHANGED <<job, pc, pos, values, eps, refs, entry, outcome, stepCache, tools, changes>>

\* One call of the SolveFn: the first bad corner ends the sweep.
Corner(r, c) ==
  /\ pc[r] = "sweep" /\ c \in todo[r]
  /\ \/ /\ ~ Installed(Solver(r))
        /\ Fail(r, "ToolMissing")
        /\ UNCHANGED <<todo, answers>>
     \/ /\ Installed(Solver(r))
        /\ \E out \in Answers(Solver(r), c, StepRefs(r), Remaining(r)) :
             \/ \E err \in OutputErrors(At(r), out) : Fail(r, err) /\ UNCHANGED <<todo, answers>>
             \/ /\ OutputErrors(At(r), out) = {}
                /\ todo' = [todo EXCEPT ![r] = @ \ {c}]
                /\ answers' = [answers EXCEPT ![r] = @ \cup {out}]
                /\ UNCHANGED <<pc, outcome>>
  /\ UNCHANGED <<job, pos, values, eps, refs, entry, stepCache, tools, changes>>

EntryOf(i, outs) ==
  [hull |-> Hull(i, outs), refs |-> Produced(i, outs), eps |-> StepEps(i, outs)]
SweptEntry(r) == EntryOf(At(r), answers[r])

\* All corners answered: hull, charge and store; or the payload varied.
FinishSweep(r) ==
  /\ pc[r] = "sweep" /\ todo[r] = {}
  /\ \/ /\ Varies(At(r), answers[r])
        /\ Fail(r, "InvalidMeasurement")
        /\ UNCHANGED <<entry, stepCache>>
     \/ /\ ~ Varies(At(r), answers[r])
        /\ entry' = [entry EXCEPT ![r] = SweptEntry(r)]
        /\ stepCache' = IF UsesStepCache(r) THEN Over([k \in {StepKey(r)} |-> SweptEntry(r)], stepCache)
                        ELSE stepCache
        /\ pc' = [pc EXCEPT ![r] = "check"]
        /\ UNCHANGED outcome
  /\ UNCHANGED <<job, pos, values, eps, refs, todo, answers, tools, changes>>

\* The output check, of a cached entry too, and the hand-over to the next step.
EndStep(r) ==
  /\ pc[r] = "check"
  /\ \/ /\ ~ OutputInBox(At(r), entry[r])
        /\ Fail(r, "OutputOutOfDomain")
        /\ UNCHANGED <<pos, values, eps, refs>>
     \/ /\ OutputInBox(At(r), entry[r])
        /\ values' = [values EXCEPT ![r] = Over(entry[r].hull, @)]
        /\ eps' = [eps EXCEPT ![r] = Over([p \in DOMAIN entry[r].hull |-> entry[r].eps], @)]
        /\ refs' = [refs EXCEPT ![r] = Over(entry[r].refs, @)]
        /\ pos' = [pos EXCEPT ![r] = @ + 1]
        /\ pc' = [pc EXCEPT ![r] = "split"]
        /\ UNCHANGED outcome
  /\ UNCHANGED <<job, todo, answers, entry, stepCache, tools, changes>>

Finish(r) ==
  /\ pc[r] = "split" /\ pos[r] > Len(job[r].route)
  /\ outcome' = [outcome EXCEPT ![r] = "Solution"]
  /\ pc' = [pc EXCEPT ![r] = "done"]
  /\ UNCHANGED <<job, pos, values, eps, refs, todo, answers, entry, stepCache, tools, changes>>

ToolChange(t) ==
  /\ changes < MaxChanges
  /\ tools' = IF t \in tools THEN tools \ {t} ELSE tools \cup {t}
  /\ changes' = changes + 1
  /\ UNCHANGED <<runner, stepCache>>

Step(r) == \/ Split(r) \/ ServeHit(r) \/ StartSweep(r) \/ FinishSweep(r)
           \/ EndStep(r) \/ Finish(r)
           \/ \E c \in todo[r] : Corner(r, c)

Next == (\E r \in Runners : Step(r)) \/ (\E t \in Tools : ToolChange(t))

Spec == Init /\ [][Next]_vars

\* The thread inside execute() keeps running.
FairSpec == Spec /\ \A r \in Runners : WF_vars(Step(r))

----------------------------------------------------------------------------
(* Properties. *)

Outcomes == {"none", "Solution", "MissingPayload", "PayloadKindMismatch", "ToolMissing", "ToolFailed",
             "MissingOutput", "NonFinite", "InvalidMeasurement", "OutputOutOfDomain"}

TypeOK ==
  /\ job \in [Runners -> Jobs]
  /\ pc \in [Runners -> {"split", "probe", "sweep", "check", "done"}]
  /\ outcome \in [Runners -> Outcomes]
  /\ \A r \in Runners :
       /\ pos[r] \in 1..(Len(job[r].route) + 1)
       /\ \A p \in DOMAIN values[r] : values[r][p] \in Interval /\ eps[r][p] \in Nat
  /\ tools \subseteq Tools

\* The points of a box of known intervals.
Points(known) ==
  {x \in [DOMAIN known -> UNION {known[p][1]..known[p][2] : p \in DOMAIN known}] :
     \A p \in DOMAIN known : x[p] \in known[p][1]..known[p][2]}

(* Audit A-1, "one error-math home": whatever the knowns are in their        *)
(* intervals and whichever steps came from the cache, the true value of each *)
(* port lies in its interval inflated by the eps charged to it, so the total *)
(* error of the Solution really bounds the error.                            *)
ErrorCoversTruth ==
  \A r \in Runners : \A p \in DOMAIN values[r] : \A x \in Points(job[r].known) :
    Truth(p, x) \in (values[r][p][1] - eps[r][p])..(values[r][p][2] + eps[r][p])

(* No result outside its solver's declared domain reaches a later step or    *)
(* the Solution, be it fresh or stored by a runner that rejected it.         *)
ResultsInDomain ==
  \A r \in Runners : \A k \in 1..(pos[r] - 1) :
    LET i == Info[job[r].route[k]] IN
    \A p \in i.outputs \cap DOMAIN i.box :
      (\A l \in (k + 1)..(pos[r] - 1) : p \notin Info[job[r].route[l]].outputs)
        => Subset(<<values[r][p][1] - eps[r][p], values[r][p][2] + eps[r][p]>>, i.box[p])

\* Everything a fresh sweep of r's current step could come to.
Recomputed(r) ==
  LET corners == Corners(Box(r))
      can(c) == {o \in Answers(Solver(r), c, StepRefs(r), Remaining(r)) : OutputErrors(At(r), o) = {}}
      runs == {f \in [corners -> UNION {can(c) : c \in corners}] : \A c \in corners : f[c] \in can(c)}
  IN  {EntryOf(At(r), Range(f)) : f \in {g \in runs : ~ Varies(At(r), Range(g))}}

(* "everything a deterministic step's output is a function of" (cache.py,    *)
(* PayloadStepCache): a step served from the cache is a step this very call  *)
(* could have computed.                                                      *)
StepHitEqualsRecompute ==
  [][\A r \in Runners : pc[r] = "probe" /\ pc'[r] = "check" => entry'[r] \in Recomputed(r)]_vars

(* Every execution ends, with tools vanishing between two corners too.       *)
ExecutionReturns == \A r \in Runners : <>(pc[r] = "done")

----------------------------------------------------------------------------
(* What a solver promises, at inputs from N and payloads from R: the proofs   *)
(* assume it of all integers and references.                                 *)

Calls(s, N, R) ==
  [corner : [Info[s].inputs -> N], refs : [Info[s].payloadInputs -> R],
   remaining : (N \cap Nat) \cup {NoBudget}]
Replies(s, a) == Answers(s, a.corner, a.refs, a.remaining)

\* Replies are values of the SolveFn's own types.
SolversReply(N, R) ==
  \A s \in Solvers : \A a \in Calls(s, N, R) : \A o \in Replies(s, a) :
    /\ o.err \in {"none", "ToolFailed"}
    /\ \A p \in DOMAIN o.values : o.values[p] \in Int \cup {NaN}
    /\ o.measured \subseteq Int \cup {NaN} /\ IsFiniteSet(o.measured)
    /\ \A p \in DOMAIN o.refs : o.refs[p] \in Refs

\* The class docstring of PayloadStepCache, "component by component": a
\* deterministic step's replies depend on the corner and the payloads' content.
RepliesByContent(N, R) ==
  \A s \in Solvers :
    Info[s].deterministic /\ (Info[s].payloadInputs # {} \/ Info[s].payloadOutputs # {}) =>
      \A a, b \in Calls(s, N, R) :
        /\ a.corner = b.corner
        /\ \A p \in Info[s].payloadInputs : a.refs[p].digest = b.refs[p].digest
        => Replies(s, a) = Replies(s, b)

\* The error a reply o of s admits for its output p.
Charge(s, p, o) == IF o.measured = {} THEN {Info[s].accuracy[p]} ELSE o.measured
Sane(o) == o.err = "none" /\ o.measured \subseteq Nat

\* The corners of a box bound s over the box, a sane reply is within its charge
\* of the exact value, and a solver that measures does so at every corner.
SolversAreAccurate(N, R) ==
  \A s \in Solvers :
    /\ \A p \in Info[s].outputs, y \in [Info[s].inputs -> N] : Exact(s, p, y) \in Int
    /\ \A box \in [Info[s].inputs -> (N \X N) \cap Interval], y \in [Info[s].inputs -> N] :
         (\A q \in Info[s].inputs : box[q][1] <= y[q] /\ y[q] <= box[q][2]) =>
           \A p \in Info[s].outputs : \E c, d \in Corners(box) :
             Exact(s, p, c) <= Exact(s, p, y) /\ Exact(s, p, y) <= Exact(s, p, d)
    /\ \A a \in Calls(s, N, R) : \A o \in Replies(s, a) :
         Sane(o) => \A p \in Info[s].outputs \cap DOMAIN o.values :
           o.values[p] # NaN => \E e \in Charge(s, p, o) :
             o.values[p] - e <= Exact(s, p, a.corner) /\ Exact(s, p, a.corner) <= o.values[p] + e
    /\ \E measures \in BOOLEAN : \A a \in Calls(s, N, R) : \A o \in Replies(s, a) :
         Sane(o) => (o.measured # {}) = measures

\* A port of a job's route has the value its producers compute, exactly, from
\* those of their inputs; a known port has the value it is known to have.
TruthIsExact ==
  \A j \in Jobs : \A x \in Points(j.known) :
    /\ \A p \in DOMAIN j.known : Truth(p, x) = x[p]
    /\ \A k \in DOMAIN j.route : LET s == j.route[k] IN
         \A p \in Info[s].outputs :
           Truth(p, x) = Exact(s, p, [q \in Info[s].inputs |-> Truth(q, x)])
============================================================================
