---------------------------- MODULE MechLaws ----------------------------
(***************************************************************************)
(* The solver directions of `feldspar.mech`: what register() of each       *)
(* module declares and registers.                                          *)
(***************************************************************************)
EXTENDS Laws

----------------------------------------------------------------------------
(* Beam, section and thick-walled cylinder; owns the shared mech vocabulary.*)

MechCorePorts == At("mech", {"material.youngs_modulus", "material.poisson",
  "geom.cantilever.length", "geom.cantilever.width", "geom.cantilever.height",
  "geom.cylinder.inner_radius", "geom.cylinder.outer_radius",
  "load.tip_force", "load.internal_pressure", "section.width",
  "section.height", "section.second_moment", "deflection.tip",
  "stress.von_mises"})

rect_second_moment ==
  Law("mech.rect_second_moment", At("mech.section", {"width", "height"}),
      {"mech.section.second_moment"}, {}, Algebraic)

bore_von_mises ==
  Refusing(Law("mech.bore_von_mises",
      {"mech.load.internal_pressure"} \cup At("mech.geom.cylinder",
        {"inner_radius", "outer_radius"}),
      {"mech.stress.von_mises"}, {"linear_elastic"}, Algebraic))

cantilever_tip_deflection ==
  Law("mech.cantilever_tip_deflection",
      At("mech", {"load.tip_force", "geom.cantilever.length",
        "material.youngs_modulus", "section.second_moment"}),
      {"mech.deflection.tip"}, {"linear_elastic", "small_deflection"},
      Algebraic)

cantilever_required_youngs_modulus ==
  Law("mech.cantilever_required_youngs_modulus",
      At("mech", {"load.tip_force", "geom.cantilever.length",
        "section.second_moment", "deflection.tip"}),
      {"mech.material.youngs_modulus"}, {"linear_elastic", "small_deflection"},
      Algebraic)

MechCoreFamily ==
  [ports |-> MechCorePorts,
   laws  |-> {rect_second_moment, bore_von_mises, cantilever_tip_deflection,
             cantilever_required_youngs_modulus}]

----------------------------------------------------------------------------
(* Steel member capacities.                                                *)

MemberCapacityPorts == At("mech.member", {"flexure.fy", "flexure.zx",
  "flexure.capacity", "axial.fy", "axial.ag", "axial.e", "axial.kl_over_r",
  "axial.capacity", "euler.e", "euler.i", "euler.k", "euler.length",
  "euler.pcr"})

flexural_yield_capacity_f2 ==
  Law("mech.member.flexural_yield_capacity_f2",
      At("mech.member.flexure", {"fy", "zx"}),
      {"mech.member.flexure.capacity"}, {"braced", "compact", "steel"},
      Algebraic)

axial_yield_buckling_capacity_e3 ==
  Law("mech.member.axial_yield_buckling_capacity_e3",
      At("mech.member.axial", {"fy", "ag", "e", "kl_over_r"}),
      {"mech.member.axial.capacity"}, {"no_slender_elements", "steel"},
      Algebraic)

euler_critical_buckling_load ==
  Law("mech.member.euler_critical_buckling_load",
      At("mech.member.euler", {"e", "i", "k", "length"}),
      {"mech.member.euler.pcr"},
      {"elastic", "no_slender_elements", "prismatic"}, Algebraic)

MemberCapacityFamily ==
  [ports |-> MemberCapacityPorts,
   laws  |-> {flexural_yield_capacity_f2, axial_yield_buckling_capacity_e3,
             euler_critical_buckling_load}]

----------------------------------------------------------------------------
(* Bolted joints.                                                          *)

BoltedJointsPorts == At("mech.joint.bolt", {"cb", "cp", "fv", "fa",
  "load_factor", "working_load", "residual_clamp_load"})
  \cup At("mech.joint.group", {"n", "vx", "vy", "torque", "j_polar", "xi",
  "yi", "shear_resultant", "moment", "sum_y_sq", "y_critical",
  "tension_critical"})

bolt_single_load_factor_vdi2230 ==
  Law("mech.joint.bolt_single_load_factor_vdi2230",
      At("mech.joint.bolt", {"cb", "cp", "fv", "fa"}),
      At("mech.joint.bolt", {"load_factor", "working_load",
        "residual_clamp_load"}),
      {"concentric_load", "elastic", "friction_grip_out_of_scope",
        "no_gasket_creep"},
      Algebraic)

bolt_group_shear_torsion ==
  Law("mech.joint.bolt_group_shear_torsion",
      At("mech.joint.group", {"n", "vx", "vy", "torque", "j_polar", "xi",
        "yi"}),
      {"mech.joint.group.shear_resultant"},
      {"elastic", "planar", "rigid_plate_assumption"}, Algebraic)

bolt_group_tension_from_moment ==
  Law("mech.joint.bolt_group_tension_from_moment",
      At("mech.joint.group", {"moment", "sum_y_sq", "y_critical"}),
      {"mech.joint.group.tension_critical"},
      {"elastic", "linear_distribution", "no_prying_action"}, Algebraic)

BoltedJointsFamily ==
  [ports |-> BoltedJointsPorts,
   laws  |-> {bolt_single_load_factor_vdi2230, bolt_group_shear_torsion,
             bolt_group_tension_from_moment}]

----------------------------------------------------------------------------
(* Fillet weld groups.                                                     *)

WeldGroupsPorts == At("mech.weld.group", {"vx", "vy", "torque", "aw", "jw",
  "xi", "yi", "inplane_line_force", "moment", "iw", "c", "bending_line_force",
  "leg_size", "allowable_stress", "peak_stress", "utilization_ratio"})

weld_group_inplane_shear_torsion ==
  Law("mech.weld.weld_group_inplane_shear_torsion",
      At("mech.weld.group", {"vx", "vy", "torque", "aw", "jw", "xi", "yi"}),
      {"mech.weld.group.inplane_line_force"},
      {"elastic", "fillet", "planar", "static"}, Algebraic)

weld_group_outofplane_bending ==
  Law("mech.weld.weld_group_outofplane_bending",
      At("mech.weld.group", {"moment", "iw", "c"}),
      {"mech.weld.group.bending_line_force"}, {"elastic", "fillet", "static"},
      Algebraic)

weld_group_utilization ==
  Law("mech.weld.weld_group_utilization",
      At("mech.weld.group", {"inplane_line_force", "bending_line_force",
        "leg_size", "allowable_stress"}),
      At("mech.weld.group", {"peak_stress", "utilization_ratio"}),
      {"elastic", "fillet", "static"}, Algebraic)

WeldGroupsFamily ==
  [ports |-> WeldGroupsPorts,
   laws  |-> {weld_group_inplane_shear_torsion, weld_group_outofplane_bending,
             weld_group_utilization}]

----------------------------------------------------------------------------
(* Rolling bearing life.                                                   *)

BearingLifePorts == At("mech.bearing", {"dynamic_rating", "equivalent_load",
  "l10", "l10h", "speed_rpm"})

bearing_basic_rating_life_l10_ball ==
  Law("mech.bearing.bearing_basic_rating_life_l10_ball",
      At("mech.bearing", {"dynamic_rating", "equivalent_load"}),
      {"mech.bearing.l10"}, {"ball", "basic_rating", "iso_281", "no_a_iso"},
      Algebraic)

bearing_basic_rating_life_l10_roller ==
  Law("mech.bearing.bearing_basic_rating_life_l10_roller",
      At("mech.bearing", {"dynamic_rating", "equivalent_load"}),
      {"mech.bearing.l10"}, {"basic_rating", "iso_281", "no_a_iso", "roller"},
      Algebraic)

bearing_basic_rating_life_l10h ==
  Law("mech.bearing.bearing_basic_rating_life_l10h",
      At("mech.bearing", {"l10", "speed_rpm"}), {"mech.bearing.l10h"},
      {"constant_speed", "iso_281"}, Algebraic)

BearingLifeFamily ==
  [ports |-> BearingLifePorts,
   laws  |-> {bearing_basic_rating_life_l10_ball,
             bearing_basic_rating_life_l10_roller,
             bearing_basic_rating_life_l10h}]

----------------------------------------------------------------------------
(* High-cycle fatigue of steel.                                            *)

FatiguePorts == At("mech.fatigue", {"baseline.sut", "baseline.se_prime",
  "surface.sut_mpa", "surface.coeff_a", "surface.exponent_b", "surface.ka",
  "marin.se_prime", "marin.ka", "marin.kb", "marin.kc", "marin.kd",
  "marin.ke", "marin.se", "goodman.se", "goodman.sut", "goodman.sigma_a",
  "goodman.sigma_m", "goodman.sa_limit", "goodman.sm_limit",
  "goodman.factor_of_safety", "gerber.se", "gerber.sut", "gerber.sigma_a",
  "gerber.sigma_m", "gerber.factor_of_safety", "sn.sigma_a", "sn.sut",
  "sn.se", "sn.f", "sn.cycles_to_failure", "miner.sut", "miner.se", "miner.f",
  "miner.damage", "miner.spectrum"})

fatigue_endurance_limit_baseline ==
  Law("mech.fatigue.fatigue_endurance_limit_baseline",
      {"mech.fatigue.baseline.sut"}, {"mech.fatigue.baseline.se_prime"},
      {"hcf", "steel"}, Algebraic)

fatigue_marin_surface_factor ==
  Law("mech.fatigue.fatigue_marin_surface_factor",
      At("mech.fatigue.surface", {"sut_mpa", "coeff_a", "exponent_b"}),
      {"mech.fatigue.surface.ka"}, {"steel"}, Algebraic)

fatigue_marin_endurance_limit ==
  Law("mech.fatigue.fatigue_marin_endurance_limit",
      At("mech.fatigue.marin", {"se_prime", "ka", "kb", "kc", "kd", "ke"}),
      {"mech.fatigue.marin.se"}, {"hcf", "steel"}, Algebraic)

fatigue_goodman_factor_of_safety ==
  Law("mech.fatigue.fatigue_goodman_factor_of_safety",
      At("mech.fatigue.goodman", {"se", "sut", "sigma_a", "sigma_m"}),
      At("mech.fatigue.goodman", {"sa_limit", "sm_limit", "factor_of_safety"}),
      {"fatigue_governs", "hcf", "steel"}, Algebraic)

fatigue_gerber_factor_of_safety ==
  Law("mech.fatigue.fatigue_gerber_factor_of_safety",
      At("mech.fatigue.gerber", {"se", "sut", "sigma_a", "sigma_m"}),
      {"mech.fatigue.gerber.factor_of_safety"},
      {"fatigue_governs", "hcf", "steel"}, Algebraic)

fatigue_sn_cycles_to_failure ==
  Refusing(Law("mech.fatigue.fatigue_sn_cycles_to_failure",
      At("mech.fatigue.sn", {"sigma_a", "sut", "se", "f"}),
      {"mech.fatigue.sn.cycles_to_failure"}, {"hcf", "steel"}, Algebraic))

miner_damage ==
  Refusing(Resolving(Law("mech.fatigue.miner_damage",
      At("mech.fatigue.miner", {"sut", "se", "f", "spectrum"}),
      {"mech.fatigue.miner.damage"}, {"hcf", "steel"}, Iterated)))

FatigueFamily ==
  [ports |-> FatiguePorts,
   laws  |-> {fatigue_endurance_limit_baseline, fatigue_marin_surface_factor,
             fatigue_marin_endurance_limit, fatigue_goodman_factor_of_safety,
             fatigue_gerber_factor_of_safety, fatigue_sn_cycles_to_failure,
             miner_damage}]

----------------------------------------------------------------------------
(* Square-thread leadscrew.                                                *)

LeadscrewPorts == At("mech.drive.leadscrew", {"force", "dm", "lead",
  "friction", "torque_raise", "torque_lower", "efficiency",
  "self_locking_margin", "collar_friction", "collar_dc", "collar_torque"})

leadscrew_torque_raise ==
  Refusing(Law("mech.drive.leadscrew_torque_raise",
      At("mech.drive.leadscrew", {"force", "dm", "lead", "friction"}),
      {"mech.drive.leadscrew.torque_raise"}, {"no_collar", "square_thread"},
      Algebraic))

leadscrew_torque_lower ==
  Law("mech.drive.leadscrew_torque_lower",
      At("mech.drive.leadscrew", {"force", "dm", "lead", "friction"}),
      {"mech.drive.leadscrew.torque_lower"}, {"no_collar", "square_thread"},
      Algebraic)

leadscrew_efficiency ==
  Law("mech.drive.leadscrew_efficiency",
      At("mech.drive.leadscrew", {"force", "lead", "torque_raise"}),
      {"mech.drive.leadscrew.efficiency"}, {"square_thread"}, Algebraic)

leadscrew_self_locking_margin ==
  Law("mech.drive.leadscrew_self_locking_margin",
      At("mech.drive.leadscrew", {"dm", "lead", "friction"}),
      {"mech.drive.leadscrew.self_locking_margin"}, {"square_thread"},
      Algebraic)

leadscrew_collar_torque ==
  Law("mech.drive.leadscrew_collar_torque",
      At("mech.drive.leadscrew", {"force", "collar_friction", "collar_dc"}),
      {"mech.drive.leadscrew.collar_torque"}, {"thrust_collar"}, Algebraic)

LeadscrewFamily ==
  [ports |-> LeadscrewPorts,
   laws  |-> {leadscrew_torque_raise, leadscrew_torque_lower,
             leadscrew_efficiency, leadscrew_self_locking_margin,
             leadscrew_collar_torque}]

----------------------------------------------------------------------------
(* Shaft critical speed.                                                   *)

CriticalSpeedPorts == At("mech.critical_speed", {"stiffness", "mass", "rpm",
  "static_deflection", "rayleigh_rpm"})

shaft_critical_speed_from_stiffness ==
  Law("mech.critical_speed.shaft_critical_speed_from_stiffness",
      At("mech.critical_speed", {"stiffness", "mass"}),
      {"mech.critical_speed.rpm"}, {"first_mode", "single_mass", "undamped"},
      Algebraic)

shaft_critical_speed_rayleigh_single_mass ==
  Law("mech.critical_speed.shaft_critical_speed_rayleigh_single_mass",
      {"mech.critical_speed.static_deflection"},
      {"mech.critical_speed.rayleigh_rpm"},
      {"first_mode", "single_mass", "undamped"}, Algebraic)

CriticalSpeedFamily ==
  [ports |-> CriticalSpeedPorts,
   laws  |-> {shaft_critical_speed_from_stiffness,
             shaft_critical_speed_rayleigh_single_mass}]

----------------------------------------------------------------------------
(* Drive acceleration torque.                                              *)

DrivePorts == At("mech.drive.accel", {"j_motor", "j_load", "gear_ratio",
  "efficiency", "alpha", "t_load", "torque_required"})

drive_acceleration_torque ==
  Law("mech.drive.drive_acceleration_torque",
      At("mech.drive.accel", {"j_motor", "j_load", "gear_ratio", "efficiency",
        "alpha", "t_load"}),
      {"mech.drive.accel.torque_required"},
      {"constant_efficiency", "rigid_drivetrain", "single_stage"}, Algebraic)

DriveFamily == [ports |-> DrivePorts, laws |-> {drive_acceleration_torque}]

----------------------------------------------------------------------------
(* Circular plates under uniform load.                                     *)

PlatePorts == At("mech.plate.circular", {"q", "a", "t", "e", "nu",
  "ss_max_stress", "ss_max_deflection", "clamped_max_stress",
  "clamped_max_deflection"})

plate_circular_uniform_ss_max_stress ==
  Law("mech.plate.plate_circular_uniform_ss_max_stress",
      At("mech.plate.circular", {"q", "a", "t", "e", "nu"}),
      {"mech.plate.circular.ss_max_stress"},
      {"circular", "small_deflection", "thin_plate"}, Algebraic)

plate_circular_uniform_ss_max_deflection ==
  Law("mech.plate.plate_circular_uniform_ss_max_deflection",
      At("mech.plate.circular", {"q", "a", "t", "e", "nu"}),
      {"mech.plate.circular.ss_max_deflection"},
      {"circular", "small_deflection", "thin_plate"}, Algebraic)

plate_circular_uniform_clamped_max_stress ==
  Law("mech.plate.plate_circular_uniform_clamped_max_stress",
      At("mech.plate.circular", {"q", "a", "t", "e", "nu"}),
      {"mech.plate.circular.clamped_max_stress"},
      {"circular", "small_deflection", "thin_plate"}, Algebraic)

plate_circular_uniform_clamped_max_deflection ==
  Law("mech.plate.plate_circular_uniform_clamped_max_deflection",
      At("mech.plate.circular", {"q", "a", "t", "e", "nu"}),
      {"mech.plate.circular.clamped_max_deflection"},
      {"circular", "small_deflection", "thin_plate"}, Algebraic)

PlateFamily ==
  [ports |-> PlatePorts,
   laws  |-> {plate_circular_uniform_ss_max_stress,
             plate_circular_uniform_ss_max_deflection,
             plate_circular_uniform_clamped_max_stress,
             plate_circular_uniform_clamped_max_deflection}]

----------------------------------------------------------------------------
(* First modes, Miles' equation, mask containment.                         *)

VibePorts == At("mech", {"vibe.first_mode_freq", "vibe.stiffness",
  "vibe.mass", "vibe.grms", "vibe.q", "vibe.spectrum", "vibe.profile",
  "vibe.mask", "vibe.mask_containment", "material.density", "section.area"})

beam_cantilever_first_mode ==
  Law("mech.beam_cantilever_first_mode",
      At("mech", {"geom.cantilever.length", "section.second_moment",
        "material.youngs_modulus", "material.density", "section.area"}),
      {"mech.vibe.first_mode_freq"}, {"linear_elastic"}, Algebraic)

sdof_first_mode ==
  Law("mech.sdof_first_mode", At("mech.vibe", {"stiffness", "mass"}),
      {"mech.vibe.first_mode_freq"}, {}, Algebraic)

miles_grms ==
  Refusing(Resolving(Law("mech.vibe.miles_grms",
      At("mech.vibe", {"first_mode_freq", "q", "spectrum"}),
      {"mech.vibe.grms"}, {}, Iterated)))

mask_containment ==
  Refusing(Resolving(Law("mech.vibe.mask_containment",
      At("mech.vibe", {"profile", "mask"}), {"mech.vibe.mask_containment"}, {},
      Listed)))

VibeFamily ==
  [ports |-> VibePorts,
   laws  |-> {beam_cantilever_first_mode, sdof_first_mode, miles_grms,
             mask_containment}]

----------------------------------------------------------------------------
(* Frame payloads: the direction always refuses.                           *)

StructPorts == At("mech.struct", {"frame", "result"})

frame2d ==
  Refusing(Resolving(Law("mech.struct.frame2d", {"mech.struct.frame"},
      {"mech.struct.result"}, {}, Tabulated)))

StructFamily == [ports |-> StructPorts, laws |-> {frame2d}]

============================================================================
