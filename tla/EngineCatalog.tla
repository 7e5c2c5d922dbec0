---------------------------- MODULE EngineCatalog ----------------------------
(***************************************************************************)
(* Composition of solver families into one engine registry.  The catalog   *)
(* (`build_engine_catalog`, catalog.py) registers its families in a fixed  *)
(* order and freezes; any other host registers families of its own choice  *)
(* in an order of its own.  A family declares its ports, then registers    *)
(* its laws, and unwraps every Result: an Err leaves register() as an      *)
(* exception.                                                              *)
(***************************************************************************)
EXTENDS MechLaws, ThermofluidLaws, ElecLaws, MaterialLaws, FeaLaws

CONSTANT HostFamilies   \* the families other hosts choose from

VARIABLES
  host,        \* "catalog" or "other"
  registered,  \* names of the families whose register() returned
  phase,       \* "composing", "frozen" or "raised"
  complaint    \* [family, why]: how the last register() ended

catalogVars == <<host, registered, phase, complaint>>

\* The families with a register() of their own, by module.
Family ==
  [mech |-> MechCoreFamily, member_capacity |-> MemberCapacityFamily,
   bolted_joints |-> BoltedJointsFamily, weld_groups |-> WeldGroupsFamily,
   bearing_life |-> BearingLifeFamily, fatigue |-> FatigueFamily,
   leadscrew |-> LeadscrewFamily, critical_speed |-> CriticalSpeedFamily,
   drive |-> DriveFamily, plate |-> PlateFamily,
   signal_integrity |-> SignalIntegrityFamily,
   incompressible |-> IncompressibleFamily,
   compressible |-> CompressibleFamily, heat |-> HeatFamily,
   thermal |-> ThermalFamily, thermo |-> ThermoFamily,
   kinetics |-> KineticsFamily, hardenability |-> HardenabilityFamily,
   phase_equilibria |-> PhaseEquilibriaFamily,
   selection |-> SelectionFamily, fea |-> FeaFamily,
   payload_steps |-> PayloadStepsFamily, network |-> NetworkFamily,
   modal |-> ModalFamily, vibe |-> VibeFamily, struct |-> StructFamily,
   circuits |-> CircuitsFamily, ngspice |-> NgspiceFamily]

\* build_engine_catalog's order: mech first, network last.
CatalogOrder ==
  <<"mech", "member_capacity", "bolted_joints", "weld_groups",
    "bearing_life", "fatigue", "leadscrew", "critical_speed", "drive",
    "plate", "signal_integrity", "incompressible", "compressible", "heat",
    "thermal", "thermo", "kinetics", "hardenability", "phase_equilibria",
    "selection", "fea", "payload_steps", "network">>

CatalogFamilies == {CatalogOrder[i] : i \in DOMAIN CatalogOrder}

ASSUME HostFamilies \subseteq DOMAIN Family

PortsOf(R) == UNION {Family[f].ports : f \in R}
LawsOf(R)  == UNION {Family[f].laws : f \in R}
Touched(f) == UNION {l.ins \cup l.outs : l \in Family[f].laws}

\* F12: once the table holds a port, every law's ports must be in it.  The
\* ports of f's laws that are not, after f declared its own.
Missing(f, R) ==
  LET table == PortsOf(R \cup {f})
  IN  IF table = {} THEN {} ELSE Touched(f) \ table

\* The first thing f.register() complains about on a registry holding R.
Complaint(f, R) ==
  CASE Family[f].ports \cap PortsOf(R) # {}            -> "PortConflict"
    [] \E l \in Family[f].laws, k \in LawsOf(R) : l.id = k.id
                                                       -> "DuplicateSolverId"
    [] Missing(f, R) # {}                              -> "UnknownPort"
    [] OTHER                                           -> "none"

CatalogInit ==
  /\ host \in {"catalog", "other"}
  /\ registered = {} /\ phase = "composing"
  /\ complaint = [family |-> "none", why |-> "none"]

NextFamily(f) == f = CatalogOrder[Cardinality(registered) + 1]

Offered(f) ==
  IF host = "catalog" THEN registered # CatalogFamilies /\ NextFamily(f)
                      ELSE f \in HostFamilies \ registered

RegisterFamily(f) ==
  /\ phase = "composing" /\ Offered(f)
  /\ complaint' = [family |-> f, why |-> Complaint(f, registered)]
  /\ \/ /\ Complaint(f, registered) = "none"
        /\ registered' = registered \cup {f} /\ UNCHANGED phase
     \/ /\ Complaint(f, registered) # "none"
        /\ phase' = "raised" /\ UNCHANGED registered
  /\ UNCHANGED host

Freeze ==
  /\ phase = "composing"
  /\ host = "catalog" => registered = CatalogFamilies
  /\ phase' = "frozen"
  /\ UNCHANGED <<host, registered, complaint>>

CatalogNext == (\E f \in DOMAIN Family : RegisterFamily(f)) \/ Freeze

----------------------------------------------------------------------------
(* Properties. *)

CatalogTypeOK ==
  /\ host \in {"catalog", "other"}
  /\ registered \subseteq DOMAIN Family
  /\ phase \in {"composing", "frozen", "raised"}
  /\ complaint \in [family : DOMAIN Family \cup {"none"},
                   why : {"none", "PortConflict", "DuplicateSolverId",
                          "UnknownPort"}]

\* The catalog composes; and every port and every id has one home: whatever
\* other hosts put together and in whichever order, a family is turned away
\* only for ports it borrows, which a family still missing would declare.
OnePortOneHome ==
  phase = "raised" =>
    /\ host # "catalog"
    /\ complaint.why = "UnknownPort"
    /\ Missing(complaint.family, registered) \subseteq
         PortsOf(DOMAIN Family \ registered)
=============================================================================
