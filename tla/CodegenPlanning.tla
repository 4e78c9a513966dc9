--------------------------- MODULE CodegenPlanning ---------------------------
(***************************************************************************)
(* From the model to the agent that writes the program: the planning nodes *)
(* of the code generation subgraph and the message its project agent is    *)
(* started with (g4_codegen/planners, module_context_builder.py,           *)
(* project_agent.py), after a modelling phase that passed.                 *)
(***************************************************************************)
EXTENDS Modeling

CONSTANT Many      \* components of a model that is simple at most

ASSUME PlanningAssumption == Many \in Nat

VARIABLES
    planned,   \* the plans, contracts and contexts the nodes have made
    told       \* the message the project agent is started with

codegenVars == <<planned, told>>
allVars == <<at, task, ir, errors, verdict, disk, planned, told>>

Modules == {"simulation_core", "beam_physics", "runtime_app"}

\* detect_scenario_type looks for words in the component types, of which the schema allows
\* none that speaks of a detector; a shield is the only role that shows.
ScenarioOf(model) ==
    CASE \E i \in DOMAIN model.parts : model.parts[i].role = "shield" -> "shielding"
      [] /\ \A i \in DOMAIN model.parts : model.parts[i].role # "shield"
         /\ Len(model.parts) > Many -> "complex_detector"
      [] OTHER -> "simple_geometry"

\* plan_geometry_strategy: the shape is looked for in a part of the component the schema
\* does not have, so every component is a primitive and none comes from a file.
StrategyOf(model) == [id \in {model.parts[i].id : i \in DOMAIN model.parts} |-> "primitive"]
ExternalFiles(model) == {}

\* plan_code_architecture and build_module_contracts: fixed, and not of one mind on the
\* class of the physics list.
Classes == {"DetectorConstruction", "MaterialRegistry", "PlacementManager", "SensitiveDetector",
            "Hit", "ScoringManager", "PrimaryGeneratorAction", "PhysicsList", "OutputManager",
            "ActionInitialization", "RunAction", "EventAction", "SteppingAction"}

Symbols ==
    [m \in Modules |->
        CASE m = "simulation_core" -> {"MaterialRegistry", "PlacementManager",
                 "DetectorConstruction", "Hit", "SensitiveDetector", "ScoringManager"}
          [] m = "beam_physics" -> {"PrimaryGeneratorAction", "PhysicsListFactoryWrapper"}
          [] m = "runtime_app" -> {"OutputManager", "ActionInitialization", "RunAction",
                 "EventAction", "SteppingAction", "main"}]

\* _extract_ir_subset
SectionsOf(m) ==
    CASE m = "simulation_core" -> {"parts", "interfaces", "materials", "scoring", "detectors"}
      [] m = "beam_physics" -> {"sources", "physics", "scoring"}
      [] m = "runtime_app" -> {"parts", "sources", "physics", "scoring", "detectors"}

\* build_module_context: nothing retrieved reaches the subgraph, and nothing writes lessons.
ContextOf(m, model) ==
    [model |-> [s \in SectionsOf(m) |-> model[s]], contract |-> Symbols[m],
     retrieved |-> {}, lessons |-> {}]

\* _compact_module_contexts_for_project_agent: of a context the contract and what was
\* retrieved are kept; its part of the model, with the units, is not.
Compact(context) == [contract |-> context.contract, retrieved |-> context.retrieved,
                     lessons |-> context.lessons]

\* load_model_ir: the file the modelling phase left, or nothing.
LoadModelIR == disk.model

PlanCodegen ==
    /\ verdict = "passed" /\ planned = Nothing
    /\ planned' = [model |-> LoadModelIR, scenario |-> ScenarioOf(LoadModelIR),
                   strategy |-> StrategyOf(LoadModelIR), classes |-> Classes,
                   contexts |-> [m \in Modules |-> ContextOf(m, LoadModelIR)],
                   files |-> ExternalFiles(LoadModelIR)]
    /\ UNCHANGED <<modelingVars, told>>

\* _build_project_user_message
TellAgent ==
    /\ planned # Nothing /\ told = Nothing
    /\ told' = [planned EXCEPT !.contexts = [m \in Modules |-> Compact(planned.contexts[m])]]
    /\ UNCHANGED <<modelingVars, planned>>

InitAll == ModelingInit /\ planned = Nothing /\ told = Nothing

NextAll == (ModelingNext /\ UNCHANGED codegenVars) \/ PlanCodegen \/ TellAgent
=============================================================================
