---------------------------- MODULE SolverPacks ----------------------------
(***************************************************************************)
(* `SolverRegistry` (solve/registry.py) and `load_solver_packs`            *)
(* (solve/packs.py): a host fills a registry and may freeze it, then each  *)
(* discovered pack registers on a staging registry, is checked, and is     *)
(* replayed onto the host's registry or rolled back from it.               *)
(***************************************************************************)
EXTENDS Integers, Sequences, FiniteSets, FiniteSetsExt, SequencesExt

CONSTANTS
  Compositions,  \* [host, packs]: the host's calls and the packs, by name
  Standard,      \* DEFAULT_STANDARD_NAMESPACES
  Reviewed,      \* reviewed_namespaces
  MaxFreeze      \* bound: 1 if the host may freeze before loading, else 0

\* A name is a sequence of pieces, "." among them: startswith is a prefix.
\* A solver is [id, namespace, ports, sound, method]: sound when register()
\* has no complaint about the record itself (cost, accuracy, citations),
\* method when its id or namespace holds a method word.  A declaration is
\* [port, meaning, known]: meaning stands for unit and rank.
\* A call is [do, decls, solver, strict]: strict when the pack unwraps the
\* Result, so that an Err raises.
Builtin == <<"<builtin>">>

VARIABLES
  plan,     \* the composition being run
  base,     \* the host's registry: [solvers, ports, frozen]
  staging,  \* the scratch registry of the current pack
  phase,    \* "host", "pack", "stage", "check", "ports", "replay", "undo", "done"
  at,       \* the pack being composed
  op,       \* the call made next, by the host or by the pack
  newPorts, \* ports the pack adds to the base
  landed,   \* registered_this_pack
  owner,    \* owner_of
  loaded,   \* names and versions of the packs composed
  skipped,  \* [pack, why] of the packs left out
  before,   \* history: the base when the current pack began
  guarded   \* history: the solvers registered against a port table

cursor == <<phase, at, op>>
result == <<loaded, skipped>>
vars == <<plan, base, staging, cursor, newPorts, landed, owner, result, before, guarded>>

NoFun == [x \in {} |-> x]
Empty == [solvers |-> NoFun, ports |-> NoFun, frozen |-> FALSE]
Packs == plan.packs
Pack  == Packs[at]
Without(f, S) == [x \in DOMAIN f \ S |-> f[x]]

\* f, and what g maps beside it.
Over(f, g) ==
  [x \in DOMAIN f \cup DOMAIN g |-> IF x \in DOMAIN f THEN f[x] ELSE g[x]]

\* A list of calls, each with a list of declarations or a solver; an id is
\* its rank in the order in which ids sort.
CallOK(c) == c.decls \in Seq(Range(c.decls)) /\ c.solver.id \in Nat
CallsOK(calls) ==
  calls \in Seq(Range(calls)) /\ \A i \in DOMAIN calls : CallOK(calls[i])

ASSUME CompositionsAssumption ==
  \A c \in Compositions :
    /\ CallsOK(c.host)
    /\ c.packs \in Seq(Range(c.packs))
    /\ \A i \in DOMAIN c.packs : CallsOK(c.packs[i].calls)

Init ==
  /\ plan \in Compositions
  /\ base = Empty /\ staging = Empty /\ before = Empty
  /\ phase = "host" /\ at = 1 /\ op = 1
  /\ newPorts = {} /\ landed = {} /\ owner = NoFun /\ guarded = {}
  /\ loaded = <<>> /\ skipped = <<>>

----------------------------------------------------------------------------
(* SolverRegistry                                                            *)

\* The port of decls[i] is declared already: a conflict, or an exact repeat.
Taken(reg, decls, i) ==
  \/ decls[i].port \in DOMAIN reg.ports
  \/ \E j \in 1..(i - 1) : decls[j].port = decls[i].port

\* declare_ports: the declarations before the first refused one stay.
Declare(reg, decls) ==
  LET bad  == {i \in DOMAIN decls : ~ decls[i].known \/ Taken(reg, decls, i)}
      upTo == IF bad = {} THEN Len(decls) ELSE Min(bad) - 1
      new  == [p \in {decls[i].port : i \in 1..upTo} |->
                 decls[CHOOSE i \in 1..upTo : decls[i].port = p]]
  IN  IF reg.frozen THEN [reg |-> reg, err |-> "Frozen"]
      ELSE [reg |-> [reg EXCEPT !.ports = Over(new, @)],
            err |-> IF bad = {} THEN "none"
                    ELSE IF ~ decls[upTo + 1].known THEN "UnknownPayloadKind"
                    ELSE "PortConflict"]

\* Mutant of RegisterError: the record itself is not looked at.
RegisterUnchecked(reg, s) ==
  CASE reg.frozen                  -> "Frozen"
    [] s.id \in DOMAIN reg.solvers -> "DuplicateSolverId"
    [] OTHER                       -> "none"

\* register: F12 binds as soon as one port is declared.
RegisterError(reg, s) ==
  CASE reg.frozen                                              -> "Frozen"
    [] s.id \in DOMAIN reg.solvers                             -> "DuplicateSolverId"
    [] ~ s.sound                                               -> "Rejected"
    [] reg.ports # NoFun /\ ~ s.ports \subseteq DOMAIN reg.ports -> "UnknownPort"
    [] OTHER                                                   -> "none"

Register(reg, s) ==
  LET err == RegisterError(reg, s)
  IN  [reg |-> IF err = "none" THEN [reg EXCEPT !.solvers = Over([id \in {s.id} |-> s], @)] ELSE reg, err |-> err]

Apply(reg, c) == IF c.do = "declare" THEN Declare(reg, c.decls) ELSE Register(reg, c.solver)

\* Solvers checked against the table they met, after a call on the base.
Guarded(reg, s) == IF reg.ports # NoFun /\ RegisterError(reg, s) = "none" THEN {s.id} ELSE {}

----------------------------------------------------------------------------
(* The host                                                                  *)

HostCall ==
  /\ phase = "host" /\ op <= Len(plan.host)
  /\ LET c == plan.host[op] IN
       /\ base' = Apply(base, c).reg
       /\ guarded' = guarded \cup (IF c.do = "register" THEN Guarded(base, c.solver) ELSE {})
  /\ op' = op + 1
  /\ UNCHANGED <<plan, staging, phase, at, newPorts, landed, owner, result, before>>

Freeze ==
  /\ phase = "host" /\ ~ base.frozen /\ MaxFreeze = 1
  /\ base' = [base EXCEPT !.frozen = TRUE]
  /\ UNCHANGED <<plan, staging, cursor, newPorts, landed, owner, result, before, guarded>>

StartLoading ==
  /\ phase = "host" /\ op > Len(plan.host)
  /\ phase' = IF Packs = <<>> THEN "done" ELSE "pack"
  /\ owner' = [id \in DOMAIN base.solvers |-> Builtin]
  /\ UNCHANGED <<plan, base, staging, at, op, newPorts, landed, result, before, guarded>>

----------------------------------------------------------------------------
(* load_solver_packs, one entry point after the other                        *)

NextPack ==
  /\ at' = at + 1 /\ op' = 1
  /\ phase' = IF at < Len(Packs) THEN "pack" ELSE "done"

Skip(why) ==
  /\ skipped' = Append(skipped, [pack |-> Pack.name, why |-> why])
  /\ UNCHANGED loaded
  /\ NextPack

\* staging declares the base's own port table first.
Seed == [Empty EXCEPT !.ports = base.ports]

LoadTarget ==
  /\ phase = "pack"
  /\ before' = base
  /\ IF Pack.malformed
       THEN Skip("MalformedSolverPack") /\ UNCHANGED staging
       ELSE /\ staging' = Seed /\ phase' = "stage"
            /\ UNCHANGED <<at, op, result>>
  /\ UNCHANGED <<plan, base, newPorts, landed, owner, guarded>>

StageCall ==
  /\ phase = "stage" /\ op <= Len(Pack.calls)
  /\ LET out == Apply(staging, Pack.calls[op]) IN
       /\ staging' = out.reg
       /\ IF out.err # "none" /\ Pack.calls[op].strict
            THEN Skip("PackRegisterRaised")
            ELSE op' = op + 1 /\ UNCHANGED <<phase, at, result>>
  /\ UNCHANGED <<plan, base, newPorts, landed, owner, before, guarded>>

RegisterReturns ==
  /\ phase = "stage" /\ op > Len(Pack.calls)
  /\ IF Pack.raises
       THEN Skip("PackRegisterRaised")
       ELSE phase' = "check" /\ UNCHANGED <<at, op, result>>
  /\ UNCHANGED <<plan, base, staging, newPorts, landed, owner, before, guarded>>

\* _namespace_violation
NamespaceViolation(s) ==
  /\ ~ (s.namespace = Pack.name \/ IsPrefix(Append(Pack.name, "."), s.namespace))
  /\ s.namespace \notin Reviewed
  /\ \A std \in Standard : ~ IsPrefix(std \o <<".">> \o Pack.name, s.namespace)

Violation(s) ==
  CASE s.method              -> "MethodNamedSolverId"
    [] NamespaceViolation(s) -> "NamespaceViolation"
    [] s.id \in DOMAIN owner -> "DuplicateSolverId"
    [] OTHER                 -> "none"

\* The first violation in id order decides.
CheckStaged ==
  /\ phase = "check"
  /\ LET bad == {id \in DOMAIN staging.solvers : Violation(staging.solvers[id]) # "none"} IN
       IF bad # {}
         THEN Skip(Violation(staging.solvers[Min(bad)]))
         ELSE phase' = "ports" /\ UNCHANGED <<at, op, result>>
  /\ UNCHANGED <<plan, base, staging, newPorts, landed, owner, before, guarded>>

DeclareNewPorts ==
  /\ phase = "ports"
  /\ LET new   == DOMAIN staging.ports \ DOMAIN base.ports
         decls == SetToSeq({staging.ports[p] : p \in new})
         out   == IF new = {} THEN [reg |-> base, err |-> "none"] ELSE Declare(base, decls) IN
       /\ base' = out.reg
       /\ IF out.err # "none"
            THEN Skip("PortDeclarationFailed") /\ newPorts' = {}
            ELSE newPorts' = new /\ phase' = "replay" /\ UNCHANGED <<at, op, result>>
  /\ landed' = {}
  /\ UNCHANGED <<plan, staging, owner, before, guarded>>

\* The staged solvers in id order, up to the first the base refuses.
Replay ==
  /\ phase = "replay" /\ landed # DOMAIN staging.solvers
  /\ LET s   == staging.solvers[Min(DOMAIN staging.solvers \ landed)]
         out == Register(base, s) IN
       /\ base' = out.reg
       /\ guarded' = guarded \cup Guarded(base, s)
       /\ IF out.err = "none"
            THEN /\ landed' = landed \cup {s.id}
                 /\ owner' = Over([id \in {s.id} |-> Pack.name], owner)
                 /\ UNCHANGED <<phase, skipped>>
            ELSE /\ skipped' = Append(skipped, [pack |-> Pack.name, why |-> "RegistrationRejected"])
                 /\ phase' = "undo"
                 /\ UNCHANGED <<landed, owner>>
  /\ UNCHANGED <<plan, staging, at, op, newPorts, loaded, before>>

\* Mutants of RolledBack: the ports stay; every staged port goes.
RolledBackSolvers(reg) == [reg EXCEPT !.solvers = Without(@, landed)]
RolledBackAll(reg) ==
  [reg EXCEPT !.solvers = Without(@, landed), !.ports = Without(@, DOMAIN staging.ports)]

\* _rollback_registration, _rollback_port_decl
RolledBack(reg) ==
  [reg EXCEPT !.solvers = Without(@, landed), !.ports = Without(@, newPorts)]

\* Mutant of Disowned: the ids stay taken.
KeepOwner(o) == o

Disowned(o) == Without(o, landed)

RollBack ==
  /\ phase = "undo"
  /\ base' = RolledBack(base)
  /\ owner' = Disowned(owner)
  /\ guarded' = guarded \ landed
  /\ NextPack
  /\ UNCHANGED <<plan, staging, newPorts, landed, result, before>>

FinishPack ==
  /\ phase = "replay" /\ landed = DOMAIN staging.solvers
  /\ loaded' = Append(loaded, [name |-> Pack.name, version |-> Pack.version])
  /\ NextPack
  /\ UNCHANGED <<plan, base, staging, newPorts, landed, owner, skipped, before, guarded>>

Next ==
  \/ HostCall \/ Freeze \/ StartLoading
  \/ LoadTarget \/ StageCall \/ RegisterReturns \/ CheckStaged
  \/ DeclareNewPorts \/ Replay \/ RollBack \/ FinishPack

Spec == Init /\ [][Next]_vars

----------------------------------------------------------------------------
(* Properties                                                                *)

\* Between two packs, or after the last.
AtRest == phase \in {"pack", "done"}

TypeOK ==
  /\ plan \in Compositions
  /\ \A reg \in {base, staging, before} :
       /\ \A id \in DOMAIN reg.solvers : reg.solvers[id].id = id /\ reg.solvers[id].sound
       /\ \A p \in DOMAIN reg.ports : reg.ports[p].port = p /\ reg.ports[p].known
       /\ reg.frozen \in BOOLEAN
  /\ phase \in {"host", "pack", "stage", "check", "ports", "replay", "undo", "done"}
  /\ at \in 1..(Len(Packs) + 1)
  /\ phase \in {"replay", "undo"} =>
       /\ landed \subseteq DOMAIN staging.solvers \cap DOMAIN base.solvers
       /\ newPorts = DOMAIN base.ports \ DOMAIN before.ports

(* A pack reported as loaded has every solver and port of its staging        *)
(* registry on the base, beside what was there; and "a skipped pack really   *)
(* never partially lands" (packs.py, L1): whichever step of its composition  *)
(* failed, the base registry is as it was.                                   *)
AllOrNothing ==
  [][/\ loaded' # loaded => /\ base.solvers = Over(staging.solvers, before.solvers)
                           /\ base.ports = Over(staging.ports, before.ports)
     /\ at' # at /\ loaded' = loaded => base' = before']_vars

(* owner_of, which names the owner in DuplicateSolverId, holds the ids of    *)
(* the registry and nothing else, also after a roll back: an id that a       *)
(* skipped pack wanted stays free for the next pack.                         *)
OwnersAreTrue ==
  AtRest => /\ DOMAIN owner = DOMAIN base.solvers
            /\ \A id \in DOMAIN owner :
                 owner[id] = Builtin \/ \E i \in DOMAIN loaded : loaded[i].name = owner[id]

(* F12: a solver that was checked against the port table has its ports there *)
(* for good, whatever is rolled back later.                                  *)
GuardedPortsStay ==
  \A id \in guarded : id \in DOMAIN base.solvers /\ base.solvers[id].ports \subseteq DOMAIN base.ports

============================================================================
