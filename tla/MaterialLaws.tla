---------------------------- MODULE MaterialLaws ----------------------------
(***************************************************************************)
(* The solver directions of `feldspar.materials`.                          *)
(***************************************************************************)
EXTENDS Laws

----------------------------------------------------------------------------
(* Martensite and diffusional kinetics.                                    *)

KineticsPorts == At("materials.kinetics", {"km.ms_temperature",
  "km.quench_temperature", "km.alpha", "km.martensite_fraction",
  "diffusional.t0", "diffusional.activation_energy",
  "diffusional.temperature", "diffusional.onset_time", "gk.ms_base",
  "gk.depression", "gk.ms_shifted"})

koistinen_marburger_martensite_fraction ==
  Law("materials.kinetics.koistinen_marburger_martensite_fraction",
      At("materials.kinetics.km", {"ms_temperature", "quench_temperature",
        "alpha"}),
      {"materials.kinetics.km.martensite_fraction"},
      {"athermal", "martensite"}, Algebraic)

kirkaldy_diffusional_onset_time ==
  Law("materials.kinetics.kirkaldy_diffusional_onset_time",
      At("materials.kinetics.diffusional", {"t0", "activation_energy",
        "temperature"}),
      {"materials.kinetics.diffusional.onset_time"},
      {"diffusional", "ttt_onset"}, Algebraic)

grange_kiefer_ms_shift ==
  Law("materials.kinetics.grange_kiefer_ms_shift",
      At("materials.kinetics.gk", {"ms_base", "depression"}),
      {"materials.kinetics.gk.ms_shifted"}, {"martensite_start_shift"}, Tiny)

KineticsFamily ==
  [ports |-> KineticsPorts,
   laws  |-> {koistinen_marburger_martensite_fraction,
             kirkaldy_diffusional_onset_time, grange_kiefer_ms_shift}]

----------------------------------------------------------------------------
(* Hardenability and tempering.                                            *)

HardenabilityPorts == At("materials.hardenability",
  {"grossmann.base_diameter", "grossmann.multiplying_factor",
  "grossmann.ideal_critical_diameter", "jominy.distance", "jominy.coeff",
  "jominy.exponent", "jominy.cooling_rate", "hollomon_jaffe.temperature",
  "hollomon_jaffe.time", "hollomon_jaffe.constant_c",
  "hollomon_jaffe.parameter"})

grossmann_ideal_critical_diameter ==
  Law("materials.hardenability.grossmann_ideal_critical_diameter",
      At("materials.hardenability.grossmann", {"base_diameter",
        "multiplying_factor"}),
      {"materials.hardenability.grossmann.ideal_critical_diameter"},
      {"hardenability"}, Tiny)

jominy_distance_to_cooling_rate ==
  Law("materials.hardenability.jominy_distance_to_cooling_rate",
      At("materials.hardenability.jominy", {"distance", "coeff", "exponent"}),
      {"materials.hardenability.jominy.cooling_rate"},
      {"hardenability", "jominy"}, Tiny)

hollomon_jaffe_tempering_parameter ==
  Law("materials.hardenability.hollomon_jaffe_tempering_parameter",
      At("materials.hardenability.hollomon_jaffe", {"temperature", "time",
        "constant_c"}),
      {"materials.hardenability.hollomon_jaffe.parameter"}, {"tempering"},
      Tiny)

HardenabilityFamily ==
  [ports |-> HardenabilityPorts,
   laws  |-> {grossmann_ideal_critical_diameter,
             jominy_distance_to_cooling_rate,
             hollomon_jaffe_tempering_parameter}]

----------------------------------------------------------------------------
(* Lever rule and regular solutions.                                       *)

PhaseEquilibriaPorts == At("materials.phase_equilibria.lever",
  {"alpha_fraction", "beta_fraction", "overall_fraction",
  "phase_alpha_fraction"})
  \cup At("materials.phase_equilibria.regular_solution", {"mole_fraction",
  "temperature", "omega", "gibbs_mixing"})

lever_rule_phase_fraction ==
  Refusing(Law("materials.phase_equilibria.lever_rule_phase_fraction",
      At("materials.phase_equilibria.lever", {"alpha_fraction",
        "beta_fraction", "overall_fraction"}),
      {"materials.phase_equilibria.lever.phase_alpha_fraction"},
      {"tie_line", "two_phase"}, Tiny))

regular_solution_binary_free_energy ==
  Law("materials.phase_equilibria.regular_solution_binary_free_energy",
      At("materials.phase_equilibria.regular_solution", {"mole_fraction",
        "temperature", "omega"}),
      {"materials.phase_equilibria.regular_solution.gibbs_mixing"},
      {"calphad_lite", "regular_solution"}, Algebraic)

PhaseEquilibriaFamily ==
  [ports |-> PhaseEquilibriaPorts,
   laws  |-> {lever_rule_phase_fraction, regular_solution_binary_free_energy}]

----------------------------------------------------------------------------
(* Ranking of candidate materials.                                         *)

SelectionPorts == At("materials.selection", {"hardness_target_hv",
  "required_diameter_m", "cost_class_ceiling_rank", "candidates",
  "ranked_candidates"})

rank_candidates ==
  Refusing(Storing(Resolving(Law(
      "materials.selection.rank_candidates_for_requirements",
      At("materials.selection", {"hardness_target_hv", "required_diameter_m",
        "cost_class_ceiling_rank", "candidates"}),
      {"materials.selection.ranked_candidates"}, {"selection"}, Listed))))

SelectionFamily == [ports |-> SelectionPorts, laws |-> {rank_candidates}]

============================================================================
