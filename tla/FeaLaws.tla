---------------------------- MODULE FeaLaws ----------------------------
(***************************************************************************)
(* The solver directions of `feldspar.fea`.                                *)
(***************************************************************************)
EXTENDS Laws

----------------------------------------------------------------------------
(* ccx on gmsh meshes; declares no port of its own.                        *)

fea_cantilever ==
  Seeking(Through({"gmsh", "ccx"}, Refusing(Approximate(Law(
      "fea.static_deflection.cantilever",
      At("mech", {"geom.cantilever.length", "geom.cantilever.width",
        "geom.cantilever.height", "material.youngs_modulus",
        "material.poisson", "load.tip_force"}),
      {"mech.deflection.tip"}, {"linear_elastic", "small_deflection"},
      Simulated)))))

fea_cylinder_bore ==
  Through({"gmsh", "ccx"}, Refusing(Approximate(Law(
      "fea.static_stress.cylinder_bore",
      At("mech", {"load.internal_pressure", "geom.cylinder.inner_radius",
        "geom.cylinder.outer_radius", "material.youngs_modulus",
        "material.poisson"}),
      {"mech.stress.von_mises"}, {"linear_elastic"}, Simulated))))

FeaFamily == [ports |-> {}, laws |-> {fea_cantilever, fea_cylinder_bore}]

----------------------------------------------------------------------------
(* Meshing and solving payload by payload.                                 *)

\* Mutant of PayloadStepsPorts: a port of the mech vocabulary is declared here
\* too.
PayloadStepsPortsShared == {"mech.geom.cantilever.parametric",
  "mech.mesh.cantilever", "mech.deflection.tip"}

PayloadStepsPorts == {"mech.geom.cantilever.parametric",
  "mech.mesh.cantilever"}

mesh_cantilever ==
  Through({"gmsh"}, Refusing(Storing(Resolving(Law("fea.mesh.cantilever",
      {"mech.geom.cantilever.parametric"}, {"mech.mesh.cantilever"},
      {"linear_elastic", "small_deflection"}, Meshed)))))

static_from_mesh ==
  Approximate(Through({"ccx"}, Refusing(Resolving(Law(
      "fea.static_deflection.cantilever_from_mesh",
      At("mech", {"mesh.cantilever", "material.youngs_modulus",
        "material.poisson", "load.tip_force"}),
      {"mech.deflection.tip"}, {"linear_elastic", "small_deflection"},
      FromMesh)))))

PayloadStepsFamily ==
  [ports |-> PayloadStepsPorts,
   laws  |-> {mesh_cantilever, static_from_mesh}]

----------------------------------------------------------------------------
(* ccx modal analysis; declares no port of its own.                        *)

modal_from_mesh ==
  Approximate(Through({"ccx"}, Refusing(Resolving(Law(
      "fea.modal.cantilever_from_mesh",
      {"mech.mesh.cantilever"} \cup At("mech.material", {"youngs_modulus",
        "poisson", "density"}),
      {"mech.vibe.first_mode_freq"}, {"linear_elastic", "small_deflection"},
      Simulated)))))

ModalFamily == [ports |-> {}, laws |-> {modal_from_mesh}]

============================================================================
