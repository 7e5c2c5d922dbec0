----------------------------- MODULE PackModels -----------------------------
(***************************************************************************)
(* The regolith models of `feldspar.pack` (pack/models.py): which engine   *)
(* port each asks for, from which inputs, in which regime, and which       *)
(* direction its docstring says it wraps.                                  *)
(***************************************************************************)
EXTENDS MechLaws, ThermofluidLaws, ElecLaws, MaterialLaws, FeaLaws

\* The senses a model is registered under: one, or one instance per half of
\* a `within [lo, hi]` claim.
Ceiling == {TRUE}
Floor   == {FALSE}
Window  == {TRUE, FALSE}

\* tags: engine_tags, the regime offered to the planner.  payloads: the
\* payload ports of the signature.
Model(kind, law, target, ins, tags, senses) ==
  [kind |-> kind, law |-> law.id, target |-> target, ins |-> ins,
   payloads |-> {}, tags |-> tags, senses |-> senses]

\* _FeaModel: margin-driven refinement, the finite-element regime by default.
FeaTags == {"linear_elastic", "small_deflection"}
FeaModel(law, target, ins, senses) == Model("fea", law, target, ins, FeaTags,
    senses)

\* _ClosedFormEngineModel: the same plumbing, the direction's own regime.
ClosedFormModel(law, target, ins, tags, senses) ==
  Model("closed_form", law, target, ins, tags, senses)

\* A payload model: a single solve() over scalars and one payload port.
PayloadModel(law, target, ins, port, tags, senses) ==
  [Model("payload", law, target, ins, tags, senses) EXCEPT !.payloads = {port}]

\* A model that calls the formula itself, over every corner: no law, no route.
DirectModel(ins, senses) ==
  [kind |-> "direct", law |-> "none", target |-> "none", ins |-> ins,
   payloads |-> {}, tags |-> {}, senses |-> senses]

----------------------------------------------------------------------------
(* Models that go through the finite-element regime.                       *)

FeaStaticStressModel ==
  FeaModel(fea_cylinder_bore, "mech.stress.von_mises",
      At("mech", {"load.internal_pressure", "geom.cylinder.inner_radius",
        "geom.cylinder.outer_radius", "material.youngs_modulus",
        "material.poisson"}), Ceiling)

FeaStaticDeflectionModel ==
  FeaModel(fea_cantilever, "mech.deflection.tip",
      At("mech", {"geom.cantilever.length", "geom.cantilever.width",
        "geom.cantilever.height", "material.youngs_modulus",
        "material.poisson", "load.tip_force"}), Ceiling)

FeaStaticDeflectionFromGeometryModel ==
  PayloadModel(static_from_mesh, "mech.deflection.tip",
      At("mech", {"material.youngs_modulus", "material.poisson",
        "load.tip_force"}), "mech.geom.cantilever.parametric", FeaTags,
    Ceiling)

----------------------------------------------------------------------------
(* Models that sweep a formula directly.                                   *)

MechStiffnessModel == DirectModel({"e_modulus", "i_area", "length"}, Floor)
ElecRailModel      == DirectModel({"vin", "r1", "r2", "rload"}, Window)

----------------------------------------------------------------------------
(* Models over one closed-form direction.                                  *)

MemberFlexuralCapacityModel ==
  ClosedFormModel(flexural_yield_capacity_f2, "mech.member.flexure.capacity",
      At("mech.member.flexure", {"fy", "zx"}), {"braced", "compact", "steel"},
      Floor)

MemberAxialCapacityModel ==
  ClosedFormModel(axial_yield_buckling_capacity_e3,
      "mech.member.axial.capacity",
      At("mech.member.axial", {"fy", "ag", "e", "kl_over_r"}),
      {"no_slender_elements", "steel"}, Floor)

EulerBucklingLoadModel ==
  ClosedFormModel(euler_critical_buckling_load, "mech.member.euler.pcr",
      At("mech.member.euler", {"e", "i", "k", "length"}),
      {"elastic", "no_slender_elements", "prismatic"}, Floor)

BoltLoadFactorModel ==
  ClosedFormModel(bolt_single_load_factor_vdi2230,
      "mech.joint.bolt.load_factor",
      At("mech.joint.bolt", {"cb", "cp", "fv", "fa"}),
      {"concentric_load", "elastic", "friction_grip_out_of_scope",
        "no_gasket_creep"},
      Floor)

WeldUtilizationModel ==
  ClosedFormModel(weld_group_utilization, "mech.weld.group.utilization_ratio",
      At("mech.weld.group", {"inplane_line_force", "bending_line_force",
        "leg_size", "allowable_stress"}),
      {"elastic", "fillet", "static"}, Ceiling)

BearingRatingLifeModel ==
  ClosedFormModel(bearing_basic_rating_life_l10h, "mech.bearing.l10h",
      At("mech.bearing", {"l10", "speed_rpm"}), {"constant_speed", "iso_281"},
      Floor)

FatigueGoodmanFactorOfSafetyModel ==
  ClosedFormModel(fatigue_goodman_factor_of_safety,
      "mech.fatigue.goodman.factor_of_safety",
      At("mech.fatigue.goodman", {"se", "sut", "sigma_a", "sigma_m"}),
      {"fatigue_governs", "hcf", "steel"}, Floor)

FatigueGerberFactorOfSafetyModel ==
  ClosedFormModel(fatigue_gerber_factor_of_safety,
      "mech.fatigue.gerber.factor_of_safety",
      At("mech.fatigue.gerber", {"se", "sut", "sigma_a", "sigma_m"}),
      {"fatigue_governs", "hcf", "steel"}, Floor)

FatigueSnCyclesToFailureModel ==
  ClosedFormModel(fatigue_sn_cycles_to_failure,
      "mech.fatigue.sn.cycles_to_failure",
      At("mech.fatigue.sn", {"sigma_a", "sut", "se", "f"}), {"hcf", "steel"},
      Floor)

FatigueMinerDamageModel ==
  PayloadModel(miner_damage, "mech.fatigue.miner.damage",
      At("mech.fatigue.miner", {"sut", "se", "f"}),
      "mech.fatigue.miner.spectrum", {"steel", "hcf"}, Ceiling)

LeadscrewTorqueRaiseModel ==
  ClosedFormModel(leadscrew_torque_raise, "mech.drive.leadscrew.torque_raise",
      At("mech.drive.leadscrew", {"force", "dm", "lead", "friction"}),
      {"no_collar", "square_thread"}, Ceiling)

ThermalTransientStepTemperatureModel ==
  ClosedFormModel(step_temperature, "heat.transient.temperature",
      At("heat.transient", {"t_amb", "power", "r_th", "c_th", "time",
        "biot_number"}),
      {"constant_properties", "lumped_capacitance", "single_node"}, Ceiling)

ThermalTransientDutyCyclePeakTemperatureModel ==
  ClosedFormModel(duty_cycle_peak_temperature,
      "heat.transient.duty_peak_temperature",
      At("heat.transient", {"t_amb", "power", "r_th", "c_th", "t_on", "t_off",
        "biot_number"}),
      {"constant_properties", "lumped_capacitance", "periodic_steady_state",
        "single_node"},
      Ceiling)

ShaftCriticalSpeedModel ==
  ClosedFormModel(shaft_critical_speed_from_stiffness,
      "mech.critical_speed.rpm",
      At("mech.critical_speed", {"stiffness", "mass"}),
      {"first_mode", "single_mass", "undamped"}, Floor)

DriveAccelTorqueModel ==
  ClosedFormModel(drive_acceleration_torque,
      "mech.drive.accel.torque_required",
      At("mech.drive.accel", {"j_motor", "j_load", "gear_ratio", "efficiency",
        "alpha", "t_load"}),
      {"constant_efficiency", "rigid_drivetrain", "single_stage"}, Ceiling)

PlateMaxStressModel ==
  ClosedFormModel(plate_circular_uniform_ss_max_stress,
      "mech.plate.circular.ss_max_stress",
      At("mech.plate.circular", {"q", "a", "t", "e", "nu"}),
      {"circular", "small_deflection", "thin_plate"}, Ceiling)

PlateMaxDeflectionModel ==
  ClosedFormModel(plate_circular_uniform_ss_max_deflection,
      "mech.plate.circular.ss_max_deflection",
      At("mech.plate.circular", {"q", "a", "t", "e", "nu"}),
      {"circular", "small_deflection", "thin_plate"}, Ceiling)

MicrostripImpedanceModel ==
  ClosedFormModel(microstrip_z0, "elec.si.microstrip.z0",
      At("elec.si.microstrip", {"w", "h", "t", "er"}),
      {"hammerstad_jensen", "surface_microstrip", "tem"}, Window)

StriplineImpedanceModel ==
  ClosedFormModel(stripline_z0, "elec.si.stripline.z0",
      At("elec.si.stripline", {"w", "b", "er"}),
      {"centred_track", "symmetric_stripline", "tem", "zero_thickness"},
      Window)

SeriesTerminationModel ==
  ClosedFormModel(series_termination, "elec.si.series_termination.rs",
      At("elec.si.series_termination", {"z0", "ro"}),
      {"matched_line", "source_series"}, Floor)

TheveninTerminationR1Model ==
  ClosedFormModel(thevenin_termination_r1, "elec.si.thevenin_termination.r1",
      At("elec.si.thevenin_termination", {"z0", "vcc", "vbias"}),
      {"matched_line", "thevenin_parallel"}, Floor)

TheveninTerminationR2Model ==
  ClosedFormModel(thevenin_termination_r2, "elec.si.thevenin_termination.r2",
      At("elec.si.thevenin_termination", {"z0", "vcc", "vbias"}),
      {"matched_line", "thevenin_parallel"}, Floor)

AcShuntResistorModel ==
  ClosedFormModel(ac_shunt_sizing_r, "elec.si.ac_shunt.r",
      {"elec.si.ac_shunt.z0"}, {"ac_shunt"}, Floor)

\* Mutant of AcShuntCapacitorModel: the resistor's wiring, copied.
AcShuntCapacitorModelCopied ==
  ClosedFormModel(ac_shunt_sizing_c, "elec.si.ac_shunt.r",
      {"elec.si.ac_shunt.z0"}, {"ac_shunt"}, Floor)

AcShuntCapacitorModel ==
  ClosedFormModel(ac_shunt_sizing_c, "elec.si.ac_shunt.c",
      At("elec.si.ac_shunt", {"rise_time", "r"}),
      {"ac_shunt", "quarter_rise_time_heuristic"}, Floor)

----------------------------------------------------------------------------
\* pack.register(): the models feldspar adds to a regolith registry, but for
\* those over a solved flow network.
PackModelSet == {FeaStaticStressModel, FeaStaticDeflectionModel,
  FeaStaticDeflectionFromGeometryModel, FatigueMinerDamageModel,
  MechStiffnessModel, ElecRailModel, MemberFlexuralCapacityModel,
  MemberAxialCapacityModel, EulerBucklingLoadModel, BoltLoadFactorModel,
  WeldUtilizationModel, BearingRatingLifeModel,
  FatigueGoodmanFactorOfSafetyModel, FatigueGerberFactorOfSafetyModel,
  FatigueSnCyclesToFailureModel, LeadscrewTorqueRaiseModel,
  ThermalTransientStepTemperatureModel,
  ThermalTransientDutyCyclePeakTemperatureModel, ShaftCriticalSpeedModel,
  DriveAccelTorqueModel, PlateMaxStressModel, PlateMaxDeflectionModel,
  MicrostripImpedanceModel, StriplineImpedanceModel, SeriesTerminationModel,
  TheveninTerminationR1Model, TheveninTerminationR2Model,
  AcShuntResistorModel, AcShuntCapacitorModel}
=============================================================================
