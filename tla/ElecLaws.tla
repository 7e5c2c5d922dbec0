---------------------------- MODULE ElecLaws ----------------------------
(***************************************************************************)
(* The solver directions of `feldspar.elec`.                               *)
(***************************************************************************)
EXTENDS Laws

----------------------------------------------------------------------------
(* Bias points and small circuits.                                         *)

CircuitsPorts == At("elec", {"source.vin", "divider.r1", "divider.r2",
  "divider.rl", "divider.vout", "rc.vf", "rc.resistance", "rc.capacitance",
  "rc.time", "rc.vc", "rlc.resistance", "rlc.inductance", "rlc.capacitance",
  "rlc.f0", "rlc.q", "bjt.vcc", "bjt.r1", "bjt.r2", "bjt.re", "bjt.rc",
  "bjt.beta", "bjt.vbe", "bjt.ic", "bjt.vc", "nmos.k", "nmos.vgs", "nmos.vth",
  "nmos.id"})

divider_loaded ==
  Law("elec.divider_loaded",
      {"elec.source.vin"} \cup At("elec.divider", {"r1", "r2", "rl"}),
      {"elec.divider.vout"}, {"linear", "small_signal"}, Algebraic)

rc_step ==
  Law("elec.rc_step",
      At("elec.rc", {"vf", "resistance", "capacitance", "time"}),
      {"elec.rc.vc"}, {"linear", "small_signal"}, Algebraic)

rlc_resonance ==
  Law("elec.rlc_resonance",
      At("elec.rlc", {"resistance", "inductance", "capacitance"}),
      At("elec.rlc", {"f0", "q"}), {"linear", "small_signal"}, Algebraic)

bjt_bias ==
  Refusing(Law("elec.bjt_bias",
      At("elec.bjt", {"vcc", "r1", "r2", "re", "rc", "beta", "vbe"}),
      At("elec.bjt", {"ic", "vc"}), {"linear", "small_signal"}, Algebraic))

nmos_bias ==
  Refusing(Law("elec.nmos_bias", At("elec.nmos", {"k", "vgs", "vth"}),
      {"elec.nmos.id"}, {"linear", "small_signal"}, Algebraic))

CircuitsFamily ==
  [ports |-> CircuitsPorts,
   laws  |-> {divider_loaded, rc_step, rlc_resonance, bjt_bias, nmos_bias}]

----------------------------------------------------------------------------
(* Transmission lines and terminations.                                    *)

SignalIntegrityPorts == At("elec.si", {"microstrip.w", "microstrip.h",
  "microstrip.t", "microstrip.er", "microstrip.z0", "stripline.w",
  "stripline.b", "stripline.er", "stripline.z0", "series_termination.z0",
  "series_termination.ro", "series_termination.rs", "thevenin_termination.z0",
  "thevenin_termination.vcc", "thevenin_termination.vbias",
  "thevenin_termination.r1", "thevenin_termination.r2", "ac_shunt.z0",
  "ac_shunt.r", "ac_shunt.rise_time", "ac_shunt.c"})

microstrip_z0 ==
  Approximate(Law("elec.si.microstrip_z0",
      At("elec.si.microstrip", {"w", "h", "t", "er"}),
      {"elec.si.microstrip.z0"},
      {"hammerstad_jensen", "surface_microstrip", "tem"}, Algebraic))

stripline_z0 ==
  Law("elec.si.stripline_z0", At("elec.si.stripline", {"w", "b", "er"}),
      {"elec.si.stripline.z0"},
      {"centred_track", "symmetric_stripline", "tem", "zero_thickness"},
      Algebraic)

series_termination ==
  Refusing(Law("elec.si.series_termination",
      At("elec.si.series_termination", {"z0", "ro"}),
      {"elec.si.series_termination.rs"}, {"matched_line", "source_series"},
      Algebraic))

thevenin_termination_r1 ==
  Refusing(Law("elec.si.thevenin_termination_r1",
      At("elec.si.thevenin_termination", {"z0", "vcc", "vbias"}),
      {"elec.si.thevenin_termination.r1"},
      {"matched_line", "thevenin_parallel"}, Algebraic))

thevenin_termination_r2 ==
  Refusing(Law("elec.si.thevenin_termination_r2",
      At("elec.si.thevenin_termination", {"z0", "vcc", "vbias"}),
      {"elec.si.thevenin_termination.r2"},
      {"matched_line", "thevenin_parallel"}, Algebraic))

ac_shunt_sizing_r ==
  Law("elec.si.ac_shunt_sizing_r", {"elec.si.ac_shunt.z0"},
      {"elec.si.ac_shunt.r"}, {"ac_shunt"}, Algebraic)

ac_shunt_sizing_c ==
  Approximate(Law("elec.si.ac_shunt_sizing_c",
      At("elec.si.ac_shunt", {"rise_time", "r"}), {"elec.si.ac_shunt.c"},
      {"ac_shunt", "quarter_rise_time_heuristic"}, Algebraic))

SignalIntegrityFamily ==
  [ports |-> SignalIntegrityPorts,
   laws  |-> {microstrip_z0, stripline_z0, series_termination,
             thevenin_termination_r1, thevenin_termination_r2,
             ac_shunt_sizing_r, ac_shunt_sizing_c}]

----------------------------------------------------------------------------
(* The same circuits through ngspice; declares no port of its own.         *)

ngspice_divider ==
  Through({"ngspice"}, Refusing(Approximate(Law("elec.ngspice.divider",
      {"elec.source.vin"} \cup At("elec.divider", {"r1", "r2", "rl"}),
      {"elec.divider.vout"}, {"linear", "small_signal"}, Simulated))))

ngspice_rc_step ==
  Through({"ngspice"}, Refusing(Approximate(Law("elec.ngspice.rc_step",
      At("elec.rc", {"vf", "resistance", "capacitance", "time"}),
      {"elec.rc.vc"}, {"linear", "small_signal"}, Simulated))))

NgspiceFamily == [ports |-> {}, laws |-> {ngspice_divider, ngspice_rc_step}]

============================================================================
