# feldspar: specifications, model checking and proofs

feldspar is an engineering solver: a registry of *solvers* (closed-form formulas, correlations,
finite-element steps), a *planner* that finds the cheapest route of solvers from known quantities to a
target within an error budget, an *executor* that runs the route over intervals and charges an honest
error, and a *facade* `solve()` that reroutes around failures and caches its answers on disk. Above it,
the models of the regolith *pack* judge claims with what the engine answers over the built-in *catalog*
of laws. This directory holds TLA+ modules for that core and that catalog, the TLC runs that check them
on small instances, and TLAPS proofs of what holds for every instance.

Paths below are relative to `src/` unless they start with `tla/`; `plan/`, `solve/`, `pack/` and so on
stand for `python/feldspar/plan/` and its neighbours.

## 1. The system

### Components, their state and their operations

| component | code | state | operations |
|---|---|---|---|
| facade | `plan/solve.py` | per call: exclusion set, trail of attempts | plan, look up, execute, blame and reroute, store |
| solve cache | `plan/cache.py` `SolveCache` | a directory of JSON blobs, key = digest of registry, request, settings, version | `get` (with the tool recheck), `put` |
| step cache | `plan/cache.py` `PayloadStepCache` | as above, one blob per payload-touching step | `key`, `get`, `put` |
| planner | `crates/feldspar-core/src/search.rs` | Pareto labels per port, frontier, pushed set | one call, `plan()` |
| arithmetic | `interval.rs`, `accuracy.rs`, `propagation.rs`, `domain.rs` | none | hull, inflate, corners, total error, admission |
| executor | `plan/execute.py` | values, eps and payloads per port | split, box, step cache, corner sweep, checks |
| registry | `solve/registry.py` | solvers, port table, frozen flag | `declare_ports`, `register`, `freeze`, roll back |
| pack loader | `solve/packs.py` | owner of each id; lists of loaded and skipped packs | `load_solver_packs` |
| catalog | `catalog.py` and the `register()` of each library | the registry being composed | families declare ports and register laws in a fixed order; freeze |
| sweep | `plan/parallel.py` | futures, results so far | submit, run, read in order, cancel, shut down |
| calibration | `calib/` | a directory of records, written in place | `write_record`, `read_record`, sweeps |
| seeking and ladder | `solve/seeking.py`, `fea/ladder.py`, `fea/richardson.py` | one module-level `RungCache` | climb rungs until the pair's eps fits |
| coupled groups and other sugar | `solve/sugar.py`, `symbolic.rs` | none | damped fixed point over member solvers |
| tools | `fea/ccx.py`, `fea/mesh.py`, `elec/ngspice.py` | a scratch directory per run | find, run with a timeout, parse |
| regolith pack | `pack/` | per estimate: budget, attempt, last solution | `estimate()`: compose the catalog, solve, then tighten the budget to the claim's margin |
| libraries | `mech/`, `fluids/`, `heat/`, ..., `crates/feldspar-library` | none | formulas over floats |

### How they interact

`solve()` calls the planner through a view of the registry that hides the excluded solvers, asks the
solve cache with the key of the route just planned, and otherwise calls `execute_with_attribution()`,
which names the step that failed. The executor calls each `SolveFn` once per corner of the step's box,
serially or from a thread pool; a `SolveFn` may start a tool. Both caches are plain directories that
threads and processes share without a lock. Whether a tool is installed is asked when a solver runs and
again when an entry of a cache is about to be used. A finite-element law climbs a ladder of meshes
until a pair of them agrees to within the budget it is given; the values of the rungs are kept in one
cache per process. A pack model composes the catalog, calls `solve()` with a loose budget, and calls it
again with the claim's margin as budget while the answer is too wide. Solver packs are composed onto the registry before it is
frozen; afterwards nothing changes it.

### What is hard

* Callers share the caches, and tools come and go between any two of their steps: a check and the use
  of what was checked are apart (`cache.py:324`, `cache.py:381`, `execute.py:498`).
* The reroute loop must neither repeat itself nor give up early, its trail must explain it, and what it
  hands out must meet the budget, also when it comes from the cache.
* The search prunes; a wrong order or a wrong comparison loses the only plan that meets the budget.
* Error is charged along a route: every port's true value must stay in its interval inflated by its eps.
* Writers are killed, fail half way and overwrite one another; a loaded pack fails in the middle.
* Corners of a box run on worker threads beside other sweeps that fill the same cache of rungs; the
  answer must not depend on who was first.
* Some hundred laws and sixty wrappers, written by hand in two dozen files, must fit together: one home
  per port and id, and for each claim the law its model names, by the cheapest route, or an honest Err.
* A claim is discharged by comparing a margin with an eps the engine chose knowing that margin.

`PROJECT.json`, "hazards", has each of these at its line with the property that watches it, or the
reason why none does yet.

### What makes each component correct

* facade: trails explain reroutes, no solver blamed twice, budget kept, exhaustion is real, hits are
  right for the request, its tools and its route, every call returns;
* planner: labels are an antichain, commits come in cost order, nothing better was pruned, the Route
  replays, the search returns;
* executor: the charged error covers the truth, results handed on are in domain, a cached step equals a
  recomputed one, every execution ends;
* stores: atomic blobs, misses instead of exceptions, whole records;
* registry and packs: a pack lands whole or not at all, checked ports stay, owners are true;
* catalog and models: the families compose, a claim reaches its law, an Err is never the catalog's fault, a closed claim holds, every estimate ends;
* sweep and ladder: the answer is the serial, uncached one, nothing starts behind an Err or outlives the
  sweep, the reported eps covers the truth, meshes that converge never raise.

## 2. Modules

| module | models | state ~ code |
|---|---|---|
| `SolveFacade` | `solve()` by several clients over one `SolveCache` | `excluded`, `attempts`, `route`: the loop's locals; `pc`: where the call is; `cache`: the directory, one entry per key; `tools`: what `find_ccx` would find |
| `PlannerSearch` | one call of `plan()` in `search.rs` | `labels`, `frontier`, `pushed`: the locals of that name; `nodes`: the `StepNode`s, by number |
| `RouteExecution` | `execute_with_attribution()` by several runners over one step cache | `values`, `eps`, `refs`: `values`, `eps_map`, the payloads; `todo`, `answers`: the sweep under way; `stepCache`: the directory |
| `CacheStore` | the files of both caches and of the calibration records | `path`: directory entries; `data`: contents of inodes; `temps`: names given by `mkstemp`; `pc`, `file`, `at`, `got`: a process inside `put` or `get` |
| `BlobStore` | abstract: an atomic map that may lose a blob | what `CacheStore` implements |
| `SolverPacks` | `SolverRegistry` and `load_solver_packs` | `base`, `staging`: the two registries; `owner`: `owner_of`; `landed`: `registered_this_pack`; `newPorts`, `loaded`, `skipped`: the locals |
| `Laws`, `MechLaws`, `ThermofluidLaws`, `ElecLaws`, `MaterialLaws`, `FeaLaws` | every solver direction of the libraries, as the registry and the planner see it | constants: one record per direction, one family per `register()` |
| `PackModels` | the models `pack.register()` adds to a regolith registry | constants: one record per model |
| `EngineCatalog` | composition of the families into a registry, by `build_engine_catalog` or another host | `registered`: what the registry holds; `complaint`: the last `Result` of `register()` |
| `CatalogRoutes` | what the planner makes of the frozen catalog for a model's request | none: operators |
| `MarginLoop` | `_FeaModel.estimate` over an ideal engine | `budget`, `attempt`, `solution`: its locals; `verdict`: how it ended |
| `Discharge` | `estimate()` from the catalog's composition to the verdict; extends the four above, implements `MarginLoop` | `stage`, `excluded`, `route`, `ran`: where the `solve()` under way is; `memo`: what deterministic routes answered |
| `MeshLadder` | `climb_richardson_ladder`, `richardson_extrapolate`, `RungCache` | `climb`: the locals of each climb; `cache`: the module-level cache; `mesh`: what meshing and solving would give |
| `MeshSweep` | `parallel_corner_sweep` over ladders, by several callers | `phase`, `reader`: the caller's place in its loop; the state of a future is its climb's `pc` |
| `MarginLoopProofs`, `MeshSweepProofs` | theorems about `MarginLoop` and `MeshSweep` | |
| `SolverPacksProofs` | theorems about `SolverPacks` | |
| `SolveFacadeProofs` | theorems about `SolveFacade` | |
| `PlannerSearchProofs` | theorems about `PlannerSearch` | |
| `RouteExecutionProofs` | theorems about `RouteExecution` | |
| `DischargeProofs` | theorems about `Discharge`, and that it implements `MarginLoop`; extends `MarginLoopProofs` | |
| `CacheStoreProofs` | theorems about `CacheStore`, and that it implements `BlobStore` | |
| `MC...` | values for the constants of the module they extend | |

Each action is one operation or one step between two points where another process can act. What is
abstracted:

* *Facade.* Requests are a question and a budget; the planner is the constant function `Planned` from a
  request and an exclusion set to a route, of which only the contract the code states is assumed
  (a planned route holds no excluded solver: `_ExcludingRegistryView`). A step succeeds, errs, or finds
  its tool missing; the realized error is one of the outcomes of the route. A digest is injective in
  what the code folds into it, and in nothing else: `CacheKey` holds the request digest and the
  settings digests of the route, so routes that share settings share a key, as in the code.
* *Planner.* Ports, costs and bounds are small integers; the order in which solver ids sort is the
  order of the registry. `TieKey` keeps what the code's tie key keeps. Each pop of the frontier is one
  step, with regeneration before it as in the loop.
* *Executor.* Integers stand for floats, and NaN is a value of its own. A `SolveFn` is the set
  `Answers` of results it may give at a corner; `Truth` is the value the port really has, against which
  the charge is judged. The corners of a step are taken in any order, which covers the serial sweep and
  what the thread pool can return.
* *Store.* A blob is two pieces of text, each written and read by itself. `mkstemp`, each `write`,
  `os.replace`, `unlink`, `exists`, `open` and each `read` are steps of their own; a process may be
  killed, and a step may raise, at each of them. A reader keeps the inode it opened.
* *Packs.* A namespace is a sequence of pieces so that `startswith` is a prefix; the complaints of
  `register()` about a record by itself are one Boolean; a call of a pack is *strict* when the pack
  unwraps its `Result`.

* *Laws.* A direction is its id, ports, regime tags and declared cost, with what its body can do beyond
  returning numbers: refuse values inside its box, run tools, resolve or store a payload, take a budget.
  Formulas are left out, so any subset of a request's laws may be *unfit* (its values leave their boxes)
  or, for those that can, *failing*. Costs keep their order, not their ratio, above one second.
* *Discharge.* The catalog is composed once, before the request, though the code composes it in every
  estimate; the tools are fixed during an estimate (`SolveFacade` moves them); the solve and step caches
  are left out, but for `memo`: a deterministic route answers the same request alike. An answer is any
  solution that covers the truth and fits what the route's laws promise. `Routes` are the irredundant
  sets of laws that derive the target: which of them the search finds, with widths, is `PlannerSearch`.
* *Sweep and ladder.* The unit of the rungs' values is free; extrapolated values and eps are in sixths of
  it, so that order 2 and the safety factor 1.5 stay integers. Submitting all corners is one step, and so
  are a lookup with what follows from it, a run of a rung with its entry into the cache, and the reading
  of a future. A hull is the set of its two ends. The executor sweeps serially today; the module composes
  the pool, exported for hosts, with the one corner function that shares state.

## 3. Runs

The bounds are named in each cfg. All passing runs finish in under two minutes on two workers.

| run | what it asks | bounds, and why they are enough |
|---|---|---|
| `solve_distinct` | two clients, a cache, three policies, tools that change: are trails, blame, answers, exhaustion and hits right, and does every call return? | 2 calls per client and 2 tool changes: a put, the tool's departure and return, and a get by another client fit; five solvers make routes that fail by tool, by error, by budget and by chance |
| `solve_steady` | is a hit the route a fresh loop would end on? | tools left alone, one policy, settings shared by all solvers: the case in which keys collide |
| `planner_searches` | all planner properties | every registry of up to four solvers of a pool of eight, over budgets, signs of the known interval, tags and senses; cyclic relations with boxes; a chain where each port has one producer, under twelve budgets; a step that sets the known port again; a known target, narrow and wide. `MaxNodes` bounds the commits (never reached: `SearchReturns` holds), `MaxCost` the derivations a result is compared with |
| `execute_shared` | two runners with any two of ten jobs, over one step cache | one tool change between any two steps; jobs share steps, miss payloads, give wrong kinds, vary a payload across corners, seek an eps, and fail |
| `store_files` | do the files behave as an atomic map, and do records end up whole? | three processes and three calls reach two writers and a reader of one key, a writer killed between them, and files cut or overwritten with bytes that are no text |
| `catalog_discharge` | do the shipped families compose, in the catalog's order and in any other, and is every claim answered by its law, soundly and in the end, and no answer missed? | all 23 families of the catalog in order; nine families of other hosts in every order; every model with every subset of its tools, unfit and failing laws; true values up to three from the limit, solutions up to 2 wide with eps up to 5, so that the margin can tighten once more often than `_MAX_MARGIN_ATTEMPTS` = 4 allows; no catalog route is deeper than `MaxDepth` = 4 |
| `mesh_sweep` | does a sweep on a pool answer as a serial one while another sweeps the same box? | a pool of two workers beside a serial caller, four corners, three rungs; boxes whose corners converge at the fastest, slowest and most swinging rate, whose eps grows, whose last or first rung fails; budgets that the first pair, a later one or none meets |
| `packs_pairs` | composition of every pair of twelve kinds of packs over three hosts | the second pack meets whatever the first left: ids, owners, ports; the host may freeze at any point before loading |

### Fairness

`CallsReturn`, `ExecutionReturns` and `SearchReturns` assume weak fairness of each client's, runner's
or search's own steps: these are synchronous functions on a thread of their own that waits for nobody.
`EstimateEnds` and `SweepsReturn` assume weak fairness of `Work`: something that can run does. An estimate
is one synchronous call; in a sweep no step undoes another's, so which thread is favoured does not matter.
Nothing obliges a client to call, and no fairness is assumed of tools: they may stay away for good.
In the facade a solver that fails once need not fail again, and nothing is assumed of that either.

### Disagreements with the documents

Four runs expect a violation.

* `solve_known`: a target that is already known, but wider than the budget, executes as a route of no
  steps, exceeds the budget and makes `solve.py:217` read the last of no steps: `IndexError`, where
  04-routing.md:87 says such cases are defined.
* `solve_vanished`: when solvers share a settings digest (`settings=None` is the default), a hit can
  serve the Solution of another route than the one whose tools were probed (`cache.py:324`).
  `solve_distinct` shows that with settings that tell solvers apart this cannot happen.
* `planner_diamond`: a step that feeds two others counts twice in the cost (`search.rs:342`), so a
  dearer route can win; 04-routing.md:42 asks for minimal total cost. What does hold is
  `PruningLosesNothing`: no derivation is better *in the planner's own cost*.

* `store_called`: `fea.mesh.cantilever` calls `resolver.store()` once its payload resolves and gmsh has
  meshed it (`fea/payload_steps.py:153`), and both resolvers of the pack raise `AssertionError` there:
  the estimate of the geometry-payload model ends in an exception, where `pack/payload_bridge.py:31`
  calls `store()` unreachable.

Others were met while modelling and have no run:

* `cache.py:381` reads the exclusions before the last failure, so the solver that failed last is never
  probed and its detour is served after its tool is back (04-routing.md:177).
* The cache key holds no part of the policy: `fallback=False` can be answered with a rerouted Solution
  (04-routing.md:145). `solve_steady` therefore keeps to one policy.
* `search.rs:332` admits a one-sided solver of several outputs for an output that is not the target
  (04-routing.md:37 says final step only).
* `walk_route` may return a Route with two producers of one port, or with a step that sets a port the caller
  knew: the executor keeps the last value (`execute.py:578`), so a later step planned on the first one, or on
  the known one, runs on another box (04-routing.md:47). Hence the condition `OneProducer` in `RouteReplays`,
  without which TLC finds such a Route among the registries over `Again`. A target known already is returned
  as it is, however wide (the finding of `solve_known`), and `RouteReplays` leaves it out.
* `execute.py:461` does not check the box of real inputs against the solver's domain
  (04-routing.md:27); outputs are checked.
* The step key (`cache.py:429`) leaves out the remaining budget that `execute.py:466` hands to a seeking
  solver. No solver of the tree both seeks and touches payloads, and the run keeps the two apart.
* `_load_cache_json` names `OSError` and `JSONDecodeError`; bytes that are no UTF-8 raise
  `UnicodeDecodeError` (`cache.py:86`). `CacheReadsRaiseOnBytesOnly` states exactly this.
* A calibration record is rewritten in place: a reader beside the writer can find it cut and raise
  (`calib/store.py:34` against its docstring's "same shape as SolveCache").
* A pack that ignores the `Err` of `declare_ports` is loaded in spite of the conflict (`packs.py:378`
  against 10-solver-metamodel.md:88), and the prefix test of namespaces lacks a dot (`packs.py:294`).
* `Solution.attempts` records failures only.
* `FeaStaticStressModel` says it wraps `fea.static_stress.cylinder_bore`, but the planner prefers the
  closed form `mech.bore_von_mises` wherever its box fits (`pack/models.py:404`); the prediction's
  `solver_version` then still names ccx and gmsh (`pack/models.py:405`). `ClaimsReachTheirLaw` leaves this
  model out; it holds for all others.
* The fallback of `richardson_extrapolate` is called strictly larger, more conservative than the
  extrapolated eps (`fea/richardson.py:87`); it is taken only when the correction exceeds the raw
  difference, and then the extrapolated eps, 1.5 times the correction, is the larger. The only order the
  code passes is 2, at which the fallback is out of reach.
* `RungCache.key` holds the declared version of the law, and nothing of the ccx or gmsh that ran
  (`fea/ladder.py:63`): a tool replaced during the process's life is served the old one's rungs.
* `mech/vibe.py:330` says `fea/payload_steps.py` declares `mech.material.youngs_modulus`; `mech` does, and
  `payload_steps` declares payload ports only. The conflict it warns of does not exist (`OnePortOneHome`).
* `solve/registry.py:26` says families may register in any order; `catalog.py:24` and `OnePortOneHome`
  say that those that borrow the mech vocabulary must come after `mech`.

## 4. Proofs

`SolveFacadeProofs` proves, for every set of clients, solvers, requests, policies, routes, tools and
settings digests, with any number of calls and tool changes:

| theorem | property | argument |
|---|---|---|
| `TypeCorrect` | `TypeOK` | inductive with `RouteInHand`: a client that looks up or executes has a route |
| `BudgetKept` | `AnswerWithinBudget` | `TypeOK` says nothing of what the cache holds, so the invariant is strengthened by `CacheSound`: an entry reached by a request's key fits that request. It is kept because the key names its request (`KeyNamesRequest`): the budget is part of the digest |
| `TrailsReconstruct` | `TrailReconstructsReroutes` | inductive with the types; the trail lemma `AppendTrail` extends a trail by one record |
| `BlamedOnce` | `NoSolverBlamedTwice` | needs `RoutePlanned` (the route in hand is the planned one for the current exclusions) and the trail theorem's invariant: a step of a planned route is not excluded, hence not blamed before |
| `ExhaustionHolds` | `ExhaustionIsReal` | the trail holds a record for each exclusion, and the search is complete: with no route left each known route holds an excluded solver |
| `HitsMatch` | `HitMatchesPlannedRoute` | `CacheNamed`: an entry's route has the settings its key names; where settings tell solvers apart they name the route. Hypothesis: `SettingsTellApart` |
| `HitsHaveTheirTools` | `HitUsesInstalledTools` | the same, with the probe of the planned route in the step that serves the hit. Hypothesis: `SettingsTellApart` |
| `HitsAreRecomputes` | `HitEqualsRecompute` | `RerunInv`: every exclusion set of a running call is one the loop from scratch comes through, the steps run so far pass, and every entry is where that loop stays, for each request whose key reaches it |
| `CallsDescend` | `CallsComeCloser` (proved only) | from the invariant of `BlamedOnce` with `PosFits` (no client is further than one past its route): blaming a step of the planned route leaves a solver less, planning and looking up leave a stage less, a step that succeeds leaves a step less |

`CallsDescend` is what `CallsReturn` rests on, for any registry: a call that keeps taking steps ends. That it
does take them is the fairness assumed there, and that it always can (some outcome of each step, some
realized error of each route) is left to the run.

The assumptions are the module's `ConstantsAssumption`, that the registry is finite, and of the planner
`PlannerAvoidsExcluded`, which `_ExcludingRegistryView` provides, and `PlannerFindsOpenRoutes`: the search
is complete, so it fails only when each route it would return elsewhere uses a solver that is left out. The
bounds `MaxCalls` and `MaxToolChanges` are arbitrary naturals. `HitsMatch` and `HitsHaveTheirTools` do not
hold without their hypothesis: `solve_vanished` is the counterexample. `HitsAreRecomputes` needs no distinct
settings, but `MaxToolChanges = 0`, that policies fall back alike, as the key holds no policy, and
`OneWayToFail`: a route fails in one way at most, and a cacheable one that can fail does not succeed.
A solver may still be left to chance where nothing it does can be cached. The run's registry satisfies it
(`MCSolveFacade`). That the loop from scratch, a recursion over exclusion sets, is a function at all rests
on blamed solvers being new (`BlameIsNew`): each call leaves fewer solvers (`LoopExists`).

`PlannerSearchProofs` proves, for any ports, any set of registries and requests, and any `MaxNodes` and
`MaxCost`:

| theorem | property | argument |
|---|---|---|
| `SearchTypes` | `TypeOK` | part of the invariant `SearchInv` |
| `LabelsStayAntichain` | `LabelsAntichain` | `Insert` keeps an antichain (`InsertAntichain`), and `Commit` changes labels by `Insert` alone |
| `CommitsOrdered` | `CommitsInCostOrder` | `InCostOrder`: no candidate, waiting or still to be pushed, is cheaper than a label. A candidate pushed later has an input label committed later, and costs at least one more than it |
| `NothingIsLost` | `PruningLosesNothing` | by rounds: whatever is derived from pairs that labels dominate is dominated by a label too (`RoundMatched`), since the combination of the dominating labels has been pushed, hence popped, as all that waits is dearer, hence settled (`PushedOK`) |
| `RoutesReplay` | `RouteReplays` | from `BackedInv`: the result's steps are in order and its label is what its node gives; then by steps (`RouteStep`): each step finds in the executor's environment the labels it was planned on, so its box is the one admission saw |

The inductive invariant `SearchInv` says of each combination ever pushed that it waits in the frontier or is
settled: not admitted, or each of its outputs dominated by a label that is there. Tie keys, which forget the
node of a label, lose nothing because combinations of one tie key give the same outputs (`SameCandidate`). Below it
is that charging an error is monotone: a wider input box gives a wider output and a larger worst-case error
(`BetterInputs`, and `TotalMonotone` for sums of any finite number of inputs).

`BackedInv`, the second invariant, says where values come from: every label, every input of a waiting
candidate and every input of a node is known or is the label one of the nodes committed before it gives that
port, and every node was admitted. The frontier needs a clause of its own, as a label may be replaced while a
candidate that holds it waits. So the children of a node have smaller numbers, the recursion of `Walk` is
well founded (`VisitsExist`), and it lists each node after its children (`WalkInOrder`). The replay then
keeps, for each port a step has set, what that step's node gives it, and for each known port its value
(`HoldsAfter`); `OneProducer` is needed exactly there, to know that no later step overwrites either. Only
`InstancesAssumption`, the types of the arguments, is assumed; that a solver costs one or more is part of it.

`RouteExecutionProofs` proves, for any runners, jobs, routes and solvers over one step cache, with any number
of tool changes:

| theorem | property | hypotheses | argument |
|---|---|---|---|
| `ExecutionTypes` | `TypeOK` | `SolversReply` | part of the invariant `ExecInv` |
| `HitsEqualRecompute` | `StepHitEqualsRecompute` | and `RepliesByContent` | `CacheInv`: each entry is one that some sweep of a step with its key could have computed; the key holds all such a step's replies depend on |
| `DomainsRespected` | `ResultsInDomain` | `SolversReply` | the check stands between the entry, swept or served, and the values |
| `ErrorBoundIsSound` | `ErrorCoversTruth` | `SolversReply`, `SolversAreAccurate`, `TruthIsExact` | an entry covers the exact value over the whole box of its step (the hull contains the corners' answers, each within its charge, and the corners bound the rest), and the box, inflated, covers the inputs' true values |

`ExecInv` says of each runner which ports it has achieved (`ValuesOK`), that a sweep under way has clean
answers at all corners but those to do (`SweepSoFar`), and that the entry it checks is one its step could
have computed with payloads of the same content (`EntryComputed`); `CacheInv` says so of the entries stored.
The hypotheses are what a `SolveFn` promises: values of its types; for a step that is cached, replies that
depend on the corner and the payloads' content alone, which the docstring of `PayloadStepCache` lists; a
declared or measured accuracy that is met; extremes at the corners of a box, which is why the executor sweeps
corners. `MCRouteExecution` checks that its solvers keep them over a few numbers and references. Assumed of a
route is that each step finds its inputs (`RoutesAssumption`), which `execute.py` relies on.

`CacheStoreProofs` proves, for every set of keys, values, processes and inodes and any number of pieces
per blob:

| theorem | property | argument |
|---|---|---|
| `TypeCorrect` | `TypeOK` | part of the invariant `IInv` |
| `ImplementsBlobStore` | `ActsAsBlobStore` | every step maps to a step of `BlobStore` or to nothing (`StepRefines`): the put happens at `Replace`, the get at `Open`, damage is `Lose` |
| `ReadsRaiseOnBytesOnly` | `CacheReadsRaiseOnBytesOnly` | only `Load` can raise in a cache's get, and what it raises over was read |
| `RecordsWhole` | `RecordsWholeAtRest` | `Refilled`: each piece of an unharmed record is its content, or a writer that will still write it is at work |

`IInv` has one part for each thing the refinement needs and the types do not say: a file has one path
(`OnePath`); the file of a cache's writer is under a temporary name, is held by nobody else and contains
what was written so far (`OwnTemp`), so that the rename publishes a whole blob; the file of a reader is
neither a temporary one nor a record's, so no writer can reach it, and what was read is what it holds
(`Settled`). The assumptions are
`StoreAssumption` (the answers that are compared are distinct from one another and from the values; a
record's key determines its content) and `NoCallAssumption`.

`MarginLoopProofs` proves, for every set of limits, true values and solutions, any loose budget and any
bound on the attempts:

| theorem | property | argument |
|---|---|---|
| `DischargeIsSound` | `ClosedClaimsHold` | the last solution covers the truth, so an eps within the margin at its worst corner keeps the truth on the right side of the limit |
| `StuckIsUnreachable` | `NeverStuck` | an answer's eps is within the budget it was asked with, so a margin thinner than the eps is thinner than the budget |
| `LoopTightens` | `RefinementTightens` | the next answer's eps is within the new budget, the margin, which the last answer's eps exceeded: this needs the part of the invariant that says so between two solves |

`NeverStuck` and `RefinementTightens` are not run for themselves: TLC checks `ImplementsMarginLoop`, and
the theorems say what every behaviour of the loop then has.

What is assumed of the engine is the guard of `Answered`: an answer covers the truth and its total error
fits the budget. The executor's and the facade's runs are about that (`ErrorCoversTruth`,
`AnswerWithinBudget`).

`DischargeProofs` proves, for any solutions, limits, true values, loose budget and attempts, of the laws,
families and models the repository ships:

| theorem | property | argument |
|---|---|---|
| `RefinesMarginLoop` | `ImplementsMarginLoop` | each step of `Discharge` is a step of `MarginLoop` or leaves its variables alone |
| `ClaimsAreSound` | `ClosedClaimsHold` | from the refinement and `DischargeIsSound` |
| `DischargeTypes` | `TypeOK` | part of `EngineInv` |
| `LawsAreReached` | `ClaimsReachTheirLaw` | `PredictedFromRoute`: a prediction comes from a whole route of the model asked. Hypothesis: `ModelsWrapTheirLaws` |
| `NoAnswerIsMissed` | `NoAnswerMissed` | `FirstAttempt`: before the first answer only laws that fail on this request are excluded. Hypothesis: `LooseBudgetIsLoose` |

`EngineInv` ties the stage of `solve()` to the verdict, and the planned route to the model's routes. The
assumption `CatalogAnswers` (each model has routes) and `LooseBudgetIsLoose` are about given data, which TLC
evaluates at the start of `catalog_discharge`. `ModelsWrapTheirLaws` is true of the shipped catalog
(TLC evaluates it to TRUE); no run asks it by itself, as `ClaimsReachTheirLaw` takes each model over all of
its routes. The theorems say what then holds however an estimate goes.

`MeshSweepProofs` proves, for any callers, corners, rungs, mesh values, budgets and thread counts:

| theorem | property | argument |
|---|---|---|
| `SweepTypes` | `TypeOK` | part of the invariant `SweepInv` |
| `SweepsAreSerial` | `AnswersAreSerial` | see below |
| `SerialSweepsStop` | `SerialShortCircuits` | a conjunct of `CallerOK` |
| `SweepsLeaveNothing` | `NoClimbOutlivesItsSweep` | `CallerOK`: at the end the pool is idle, and no step leaves `PoolIdle` |
| `ErrStopsTheSweep` | `NothingStartsBehindAnErr` | `CallerOK`: after an Err nothing is in the queue |
| `HonestLadders` | `LaddersAreHonest` | its two halves: `EpsIsTrue` by lemma `PairCovers`, applied to the pair at which the climb stopped; `ConvergingLaddersEnd` by lemma `PairsShrink`, applied to that pair and the one before |

`SweepInv` says of the cache that each entry is the rung's own value (`CacheOK`); of a climb under way that
it has stopped at no rung below its own and carries the values of the last one (`Climbs`); of one that is
over that it came to its `Outcome`, a function of the corner and the budget alone (`IsOver`); and of a
caller that every corner before the one it reads is ok (`CallerOK`). Then the first Err it reads is at the
first corner whose outcome is not ok (`FirstDecides`), and a hull is one of the same values as the serial
one. `Shrinks` bounds the ratio of neighbouring errors by -1/5 and 5/11: outside that band the factor 1.5
does not cover the truth, so the theorem is as strong as the code. `SerialShortCircuits` and
`NoClimbOutlivesItsSweep` are proved only. The assumptions are `LadderAssumption`
and `PoolsAssumption`.

`SolverPacksProofs` proves, for any host, any list of packs and any sets of namespaces:

| theorem | property | argument |
|---|---|---|
| `PackTypes` | `TypeOK` | part of the invariant `PackInv` |
| `OwnersHold` | `OwnersAreTrue` | `OwnerOK`: while a pack lands, the ids it owns are those that have landed, which is what a roll back disowns |
| `GuardHolds` | `GuardedPortsStay` | `GuardOK`: a checked solver's ports were there before the pack that is landing, unless the solver is one of its own, and then both go together |
| `PacksAreAtomic` | `AllOrNothing` | `LandingOK`: while a pack lands, the base is what it was with all the pack's ports and the solvers landed so far; so taking those away restores it (`RollBackRestores`), and with none left to land it is whole (`FinishedIsWhole`) |
| `DeclarationsStand` | `FirstDeclarationStands` (proved only) | every call extends the registry it is made on (`CallKeeps`); a roll back takes away only what was not there before its pack |
| `FrozenStays` | `FrozenIsFinal` (proved only) | `FrozenInv`: on a frozen base no pack has landed anything, as `register` and `declare_ports` refuse, so there is nothing to roll back |

`PackInv` needs that ids collide with nothing once a pack is checked (`StagedOK`, from `CheckStaged`, which
asks `owner` and not the registry), and that `declare_ports` cannot refuse a staged port part-way, unless
the base is frozen (`DeclareAdds`): the staging registry starts with the base's ports and refuses the same
declarations itself. The lemmas about `register` and `declare_ports` hold of every registry. The assumption
is `CompositionsAssumption`: calls and packs are lists and an id is its rank in the order of ids, so that
`Min` is what `sorted` yields first.

Only model-checked: liveness (`CallsReturn`, `SearchReturns`, `ExecutionReturns`, `EstimateEnds`,
`SweepsReturn`: fairness and ENABLED are outside the proof system) and `OnePortOneHome`, a computation over
the shipped families with no constant to generalise. Where a recursion had to be reasoned about (sums of any
number of inputs, the rounds of `PruningLosesNothing`, the post-order of `walk_route` and the executor's loop
over it, the reroute loop from scratch) the proofs take a least counterexample instead of an induction scheme.

## 5. Plan

In order of what matters most:

1. *done* `SolveFacade`, `PlannerSearch`, `RouteExecution`, `CacheStore` over `BlobStore`, `SolverPacks`, the
   facade's and the store's theorems.
2. *done* `MeshLadder` and `MeshSweep`: the pool of `plan/parallel.py` over ladders that share the
   `RungCache`, and their theorems.
3. *done* The laws, `EngineCatalog`, `CatalogRoutes`, `PackModels`, `MarginLoop` and `Discharge`, and the
   theorems of the margin loop.
4. `ToolBoundary`: subprocess, timeout and scratch directory of ccx, gmsh and ngspice.
5. *done* The theorems about packs.
6. *done* The theorems about the planner, the executor, the discharge and the facade's hits.
7. *done* `RouteReplays`, with the recursion of `walk_route` written so that the prover can unfold it.

## 6. Not modelled

Formulas, unit tables, the symbolic engine, deck writing and result parsing: pure functions over floats
or text, without state, order or partial failure of their own. Floating-point rounding is not modelled
anywhere: the properties of the arithmetic are those of exact numbers. The digests of routes and
registries, the JSON inside a whole file, log lines and report wording are left out. The bindings in
`feldspar-py` only convert values.

* The Hardy-Cross iteration of `fluids/network.py` and the pack models over a solved network: whether the
  loop converges is a question about floats. Its direction is in `ThermofluidLaws`.
* `CoupledGroup` (`solve/sugar.py`): the damped fixed point calls its members in order and stops when the
  damped step is small, wherever the iterate is; whether that is near a solution depends on the members'
  derivatives. The catalog registers no group.
* The cost curves of `solve/seeking.py`: `plan()` reads one cost per solver and no curve.
* Orders other than 2, and the fixed pairs of meshes of the cylinder and ngspice directions, which share
  no state.
