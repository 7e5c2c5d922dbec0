-------------------------- MODULE ThermofluidLaws --------------------------
(***************************************************************************)
(* The solver directions of `feldspar.fluids`, `feldspar.heat` and         *)
(* `feldspar.thermo`.                                                      *)
(***************************************************************************)
EXTENDS Laws

----------------------------------------------------------------------------
(* Pipes, fittings, pumps.                                                 *)

IncompressiblePorts == At("fluids", {"pipe.reynolds",
  "pipe.relative_roughness", "pipe.friction_factor",
  "pipe.friction_factor.haaland", "pipe.length", "pipe.diameter",
  "pipe.velocity", "pipe.dp", "fitting.k_factor", "fitting.dp",
  "fluid.density", "fluid.p_vapor", "env.p_atm", "env.gravity",
  "suction.static_head", "suction.friction_head", "npsh_margin",
  "network.dp1", "network.dp2", "network.dp_series", "network.q1",
  "network.q2", "network.q_parallel", "pump.h0", "pump.a_coeff",
  "pump.q_star", "pump.h_star", "system.h_static", "system.r_coeff",
  "transient.wave_speed", "transient.delta_velocity", "transient.hammer_dp"})

laminar_friction_factor ==
  Law("fluids.laminar_friction_factor", {"fluids.pipe.reynolds"},
      {"fluids.pipe.friction_factor"}, {"incompressible", "laminar"},
      Algebraic)

colebrook_friction_factor ==
  Law("fluids.colebrook_friction_factor",
      At("fluids.pipe", {"reynolds", "relative_roughness"}),
      {"fluids.pipe.friction_factor"}, {"incompressible", "turbulent"},
      Iterated)

haaland_friction_factor ==
  Law("fluids.haaland_friction_factor",
      At("fluids.pipe", {"reynolds", "relative_roughness"}),
      {"fluids.pipe.friction_factor.haaland"}, {"incompressible", "turbulent"},
      Algebraic)

darcy_dp ==
  Law("fluids.darcy_dp",
      At("fluids.pipe", {"friction_factor", "length", "diameter",
        "velocity"}) \cup {"fluids.fluid.density"},
      {"fluids.pipe.dp"}, {"incompressible"}, Algebraic)

minor_loss_dp ==
  Law("fluids.minor_loss_dp",
      At("fluids", {"fitting.k_factor", "fluid.density", "pipe.velocity"}),
      {"fluids.fitting.dp"}, {"incompressible"}, Algebraic)

series_dp ==
  Law("fluids.series_dp", At("fluids.network", {"dp1", "dp2"}),
      {"fluids.network.dp_series"}, {"incompressible", "network_series"}, Tiny)

parallel_flow ==
  Law("fluids.parallel_flow", At("fluids.network", {"q1", "q2"}),
      {"fluids.network.q_parallel"}, {"incompressible", "network_parallel"},
      Tiny)

npsh_available ==
  Law("fluids.npsh_available",
      At("fluids", {"env.p_atm", "fluid.p_vapor", "fluid.density",
        "env.gravity", "suction.static_head", "suction.friction_head"}),
      {"fluids.npsh_margin"}, {"incompressible", "turbomachinery"}, Algebraic)

joukowsky_dp ==
  Law("fluids.joukowsky_dp",
      At("fluids.transient", {"wave_speed", "delta_velocity"})
        \cup {"fluids.fluid.density"},
      {"fluids.transient.hammer_dp"}, {"incompressible", "transient"},
      Algebraic)

pump_operating_flow ==
  Law("fluids.pump_operating_flow",
      At("fluids.pump", {"h0", "a_coeff", "h_star"}) \cup At("fluids.system",
        {"h_static", "r_coeff"}),
      {"fluids.pump.q_star"}, {"incompressible", "turbomachinery"}, Algebraic)

pump_operating_head ==
  Law("fluids.pump_operating_head",
      At("fluids.pump", {"h0", "a_coeff", "q_star"}) \cup At("fluids.system",
        {"h_static", "r_coeff"}),
      {"fluids.pump.h_star"}, {"incompressible", "turbomachinery"}, Algebraic)

IncompressibleFamily ==
  [ports |-> IncompressiblePorts,
   laws  |-> {laminar_friction_factor, colebrook_friction_factor,
             haaland_friction_factor, darcy_dp, minor_loss_dp, series_dp,
             parallel_flow, npsh_available, joukowsky_dp, pump_operating_flow,
             pump_operating_head}]

----------------------------------------------------------------------------
(* Isentropic flow, shocks, Fanno flow.                                    *)

CompressiblePorts == At("fluids.compressible", {"mach", "mach_upstream",
  "mach_downstream", "stagnation_temp_ratio", "stagnation_pressure_ratio",
  "shock_pressure_ratio", "fanno_function"}) \cup {"fluids.gas.gamma"}

isentropic_stagnation_temp_ratio ==
  Law("fluids.isentropic_stagnation_temp_ratio",
      {"fluids.compressible.mach", "fluids.gas.gamma"},
      {"fluids.compressible.stagnation_temp_ratio"}, {"compressible"},
      Algebraic)

isentropic_stagnation_pressure_ratio ==
  Law("fluids.isentropic_stagnation_pressure_ratio",
      {"fluids.compressible.mach", "fluids.gas.gamma"},
      {"fluids.compressible.stagnation_pressure_ratio"}, {"compressible"},
      Algebraic)

normal_shock_mach2 ==
  Law("fluids.normal_shock_mach2",
      {"fluids.compressible.mach_upstream", "fluids.gas.gamma"},
      {"fluids.compressible.mach_downstream"},
      {"compressible", "normal_shock"}, Algebraic)

normal_shock_pressure_ratio ==
  Law("fluids.normal_shock_pressure_ratio",
      {"fluids.compressible.mach_upstream", "fluids.gas.gamma"},
      {"fluids.compressible.shock_pressure_ratio"},
      {"compressible", "normal_shock"}, Algebraic)

fanno_function ==
  Law("fluids.fanno_function",
      {"fluids.compressible.mach", "fluids.gas.gamma"},
      {"fluids.compressible.fanno_function"}, {"compressible", "fanno"},
      Algebraic)

CompressibleFamily ==
  [ports |-> CompressiblePorts,
   laws  |-> {isentropic_stagnation_temp_ratio,
             isentropic_stagnation_pressure_ratio, normal_shock_mach2,
             normal_shock_pressure_ratio, fanno_function}]

----------------------------------------------------------------------------
(* Conduction, convection, heat exchangers.                                *)

HeatPorts == At("heat", {"wall.thickness", "wall.conductivity", "wall.area",
  "wall.resistance", "cylinder.inner_radius", "cylinder.outer_radius",
  "cylinder.conductivity", "cylinder.length", "cylinder.resistance",
  "convection.coefficient", "convection.area", "convection.resistance",
  "convection.nusselt", "network.r1", "network.r2", "network.r_series",
  "network.resistance", "network.delta_temp", "network.rate",
  "internal_flow.reynolds", "internal_flow.prandtl", "internal_flow.nusselt",
  "fluid.conductivity", "pipe.diameter", "internal_flow.friction_factor",
  "internal_flow.nusselt.gnielinski",
  "internal_flow.nusselt.laminar_const_temp",
  "internal_flow.nusselt.laminar_const_flux", "natural_convection.rayleigh",
  "natural_convection.prandtl",
  "natural_convection.nusselt.horizontal_cylinder",
  "natural_convection.nusselt.vertical_plate", "hx.ua", "hx.c_min", "hx.c_r",
  "hx.ntu", "hx.effectiveness", "hx.effectiveness.parallel_flow",
  "hx.effectiveness.counterflow", "hx.effectiveness.shell_and_tube_one_pass",
  "hx.t_hot_in", "hx.t_cold_in", "hx.rate", "hx.t_in", "hx.capacity_rate",
  "hx.t_out.hot", "hx.t_out.cold"})

plane_wall_resistance ==
  Law("heat.plane_wall_resistance",
      At("heat.wall", {"thickness", "conductivity", "area"}),
      {"heat.wall.resistance"}, {}, Algebraic)

cylindrical_wall_resistance ==
  Law("heat.cylindrical_wall_resistance",
      At("heat.cylinder", {"inner_radius", "outer_radius", "conductivity",
        "length"}),
      {"heat.cylinder.resistance"}, {}, Algebraic)

convection_resistance ==
  Law("heat.convection_resistance",
      At("heat.convection", {"coefficient", "area"}),
      {"heat.convection.resistance"}, {}, Algebraic)

series_resistance ==
  Law("heat.series_resistance", At("heat.network", {"r1", "r2"}),
      {"heat.network.r_series"}, {"network_series"}, Tiny)

rate_from_resistance ==
  Law("heat.rate_from_resistance",
      At("heat.network", {"delta_temp", "resistance"}), {"heat.network.rate"},
      {}, Tiny)

dittus_boelter_nusselt_heating ==
  Law("heat.dittus_boelter_nusselt_heating",
      At("heat.internal_flow", {"reynolds", "prandtl"}),
      {"heat.internal_flow.nusselt"}, {"forced_convection", "heating"},
      Algebraic)

coefficient_from_nusselt ==
  Law("heat.coefficient_from_nusselt",
      At("heat", {"convection.nusselt", "fluid.conductivity",
        "pipe.diameter"}),
      {"heat.convection.coefficient"}, {}, Algebraic)

dittus_boelter_nusselt_cooling ==
  Law("heat.dittus_boelter_nusselt_cooling",
      At("heat.internal_flow", {"reynolds", "prandtl"}),
      {"heat.internal_flow.nusselt"}, {"cooling", "forced_convection"},
      Algebraic)

gnielinski_nusselt ==
  Law("heat.gnielinski_nusselt",
      At("heat.internal_flow", {"reynolds", "prandtl", "friction_factor"}),
      {"heat.internal_flow.nusselt.gnielinski"},
      {"f_coupled", "forced_convection"}, Algebraic)

laminar_fully_developed_nusselt_const_temp ==
  Law("heat.laminar_fully_developed_nusselt_const_temp", {},
      {"heat.internal_flow.nusselt.laminar_const_temp"},
      {"constant_wall_temp", "laminar"}, Tiny)

laminar_fully_developed_nusselt_const_flux ==
  Law("heat.laminar_fully_developed_nusselt_const_flux", {},
      {"heat.internal_flow.nusselt.laminar_const_flux"},
      {"constant_heat_flux", "laminar"}, Tiny)

churchill_chu_horizontal_cylinder_nusselt ==
  Law("heat.churchill_chu_horizontal_cylinder_nusselt",
      At("heat.natural_convection", {"rayleigh", "prandtl"}),
      {"heat.natural_convection.nusselt.horizontal_cylinder"},
      {"horizontal_cylinder", "natural_convection"}, Algebraic)

churchill_chu_vertical_plate_nusselt ==
  Law("heat.churchill_chu_vertical_plate_nusselt",
      At("heat.natural_convection", {"rayleigh", "prandtl"}),
      {"heat.natural_convection.nusselt.vertical_plate"},
      {"natural_convection", "vertical_plate"}, Algebraic)

ntu_from_ua ==
  Law("heat.ntu_from_ua", At("heat.hx", {"ua", "c_min"}), {"heat.hx.ntu"},
      {"ntu_effectiveness"}, Tiny)

effectiveness_parallel_flow ==
  Law("heat.effectiveness_parallel_flow", At("heat.hx", {"ntu", "c_r"}),
      {"heat.hx.effectiveness.parallel_flow"},
      {"ntu_effectiveness", "parallel_flow"}, Algebraic)

effectiveness_counterflow ==
  Law("heat.effectiveness_counterflow", At("heat.hx", {"ntu", "c_r"}),
      {"heat.hx.effectiveness.counterflow"},
      {"counterflow", "ntu_effectiveness"}, Algebraic)

effectiveness_shell_and_tube_one_pass ==
  Law("heat.effectiveness_shell_and_tube_one_pass",
      At("heat.hx", {"ntu", "c_r"}),
      {"heat.hx.effectiveness.shell_and_tube_one_pass"},
      {"ntu_effectiveness", "shell_and_tube"}, Algebraic)

hx_rate_from_effectiveness ==
  Law("heat.hx_rate_from_effectiveness",
      At("heat.hx", {"effectiveness", "c_min", "t_hot_in", "t_cold_in"}),
      {"heat.hx.rate"}, {"ntu_effectiveness"}, Tiny)

hx_outlet_temp_hot ==
  Law("heat.hx_outlet_temp_hot",
      At("heat.hx", {"t_in", "rate", "capacity_rate"}), {"heat.hx.t_out.hot"},
      {"ntu_effectiveness"}, Tiny)

hx_outlet_temp_cold ==
  Law("heat.hx_outlet_temp_cold",
      At("heat.hx", {"t_in", "rate", "capacity_rate"}), {"heat.hx.t_out.cold"},
      {"ntu_effectiveness"}, Tiny)

HeatFamily ==
  [ports |-> HeatPorts,
   laws  |-> {plane_wall_resistance, cylindrical_wall_resistance,
             convection_resistance, series_resistance, rate_from_resistance,
             dittus_boelter_nusselt_heating, coefficient_from_nusselt,
             dittus_boelter_nusselt_cooling, gnielinski_nusselt,
             laminar_fully_developed_nusselt_const_temp,
             laminar_fully_developed_nusselt_const_flux,
             churchill_chu_horizontal_cylinder_nusselt,
             churchill_chu_vertical_plate_nusselt, ntu_from_ua,
             effectiveness_parallel_flow, effectiveness_counterflow,
             effectiveness_shell_and_tube_one_pass,
             hx_rate_from_effectiveness, hx_outlet_temp_hot,
             hx_outlet_temp_cold}]

----------------------------------------------------------------------------
(* Lumped thermal transients.                                              *)

ThermalPorts == At("heat.transient", {"convection_coefficient",
  "characteristic_length", "conductivity", "biot_number", "t_amb", "power",
  "r_th", "c_th", "time", "temperature", "t_threshold", "time_to_threshold",
  "t_on", "t_off", "duty_peak_temperature"})

biot_number_from_convection ==
  Law("heat.transient.biot_number_from_convection",
      At("heat.transient", {"convection_coefficient", "characteristic_length",
        "conductivity"}),
      {"heat.transient.biot_number"}, {}, Algebraic)

step_temperature ==
  Law("heat.transient.step_temperature",
      At("heat.transient", {"t_amb", "power", "r_th", "c_th", "time",
        "biot_number"}),
      {"heat.transient.temperature"},
      {"constant_properties", "lumped_capacitance", "single_node"}, Algebraic)

time_to_threshold ==
  Refusing(Law("heat.transient.time_to_threshold",
      At("heat.transient", {"t_amb", "power", "r_th", "c_th", "t_threshold",
        "biot_number"}),
      {"heat.transient.time_to_threshold"},
      {"constant_properties", "lumped_capacitance", "single_node"}, Algebraic))

duty_cycle_peak_temperature ==
  Refusing(Law("heat.transient.duty_cycle_peak_temperature",
      At("heat.transient", {"t_amb", "power", "r_th", "c_th", "t_on", "t_off",
        "biot_number"}),
      {"heat.transient.duty_peak_temperature"},
      {"constant_properties", "lumped_capacitance", "periodic_steady_state",
        "single_node"},
      Algebraic))

ThermalFamily ==
  [ports |-> ThermalPorts,
   laws  |-> {biot_number_from_convection, step_temperature,
             time_to_threshold, duty_cycle_peak_temperature}]

----------------------------------------------------------------------------
(* Hardy-Cross over a flow network payload.                                *)

NetworkPorts == At("fluids.network", {"flownet", "solution"})

hardy_cross ==
  Refusing(Storing(Resolving(Law("fluids.network.hardy_cross",
      {"fluids.network.flownet"}, {"fluids.network.solution"},
      {"incompressible", "network"}, Networked))))

NetworkFamily == [ports |-> NetworkPorts, laws |-> {hardy_cross}]

----------------------------------------------------------------------------
(* Fluid properties through CoolProp, one direction per fluid and property.*)

ThermoFluids == {"water", "air", "nitrogen"}
ThermoProperties == {"density", "specific_heat_cp", "viscosity"}

PropertyPort(fluid, property) == "thermo." \o fluid \o "." \o property

ThermoPorts == {PropertyPort(f, p) : f \in ThermoFluids,
                  p \in {"temperature", "pressure"} \cup ThermoProperties}

fluid_property(f, p) ==
  Through({"CoolProp"}, Approximate(Refusing(
    Law("thermo." \o f \o "_" \o p,
        {PropertyPort(f, "temperature"), PropertyPort(f, "pressure")},
        {PropertyPort(f, p)}, {"thermo", f, "single_phase"}, Tabulated))))

ThermoFamily ==
  [ports |-> ThermoPorts,
   laws  |-> {fluid_property(f, p) :
                f \in ThermoFluids, p \in ThermoProperties}]

============================================================================
