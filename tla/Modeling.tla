------------------------------ MODULE Modeling ------------------------------
(***************************************************************************)
(* The Geant4 modelling subgraph (graph/subgraphs/g4_modeling_graph.py):   *)
(* one phase turns the planned task and the confirmed requirement plan     *)
(* into a model IR, node by node, and leaves it in the job's directory     *)
(* with a verdict.  One run is modelled, over whatever an earlier run of   *)
(* the phase on the same job has left there.                               *)
(*                                                                         *)
(* Evidence retrieved by the context phase does not reach this subgraph:   *)
(* its state schema has no g4_context, web_context or context_decision, so *)
(* evidence_retrieval_node always sees "block_no_context" and only what    *)
(* the user asked for counts as evidence.                                  *)
(***************************************************************************)
EXTENDS Geometry

CONSTANTS
    Nothing,     \* an absent physics list, draft or model
    Requests,    \* what a run may be started with: see RequestShape
    Drafts(_),   \* component lists a model may answer a request with; <<>> is a failed call
    Physics,     \* physics lists a draft may carry
    Tables,      \* materials of the built-in tables
    Leftovers    \* what the stage directory may hold when the phase starts

\* The particles the words of the review are searched for, and others that planning and the
\* choice of a physics list know of.
Particles == {"neutron", "gamma", "proton", "electron"}
Hadrons == {"proton", "neutron", "alpha", "deuteron", "triton", "ion"}
Beams == Particles \cup Hadrons \cup {"muon"}

\* The fields of the review that are modelled.  A word on a source field is the particles
\* its text names, with a choice where the text begins with one of Particles and offers
\* others; a word on the others is a physics list, or the outputs asked for.
SourceFields == {"mixture", "particle", "energy"}
Fields == SourceFields \cup {"physics", "outputs"}

\* sources, target, outputs, complex: what was planned; proposed, answered, supplement:
\* the words the review of the requirements left in human_confirmation.json.
RequestShape(r) ==
    /\ DOMAIN r = {"sources", "target", "outputs", "complex", "approved",
                   "proposed", "answered", "supplement"}
    /\ r.sources \subseteq Beams /\ r.target \in Nat
    /\ {r.complex, r.approved} \subseteq BOOLEAN
    /\ \A words \in {r.proposed, r.answered, r.supplement} :
         /\ DOMAIN words \subseteq Fields
         /\ \A field \in DOMAIN words \cap SourceFields :
              /\ words[field].names \subseteq Beams
              /\ words[field].choice \in (words[field].names \cap Particles) \cup {Nothing}

ASSUME ModelingAssumption ==
    /\ \A r \in Requests : RequestShape(r)
    /\ \A r \in Requests : <<>> \in Drafts(r)
    /\ \A r \in Requests : \A draft \in Drafts(r) : ListShape(draft)
    /\ NoMother \notin {"world", "target"}
    /\ \A d \in Leftovers : DOMAIN d = {"required", "model", "status", "asks"}

VARIABLES
    at,       \* the node to run next; "idle" before and after the run
    task,     \* the task specification of this run
    ir,       \* the model IR carried between the nodes
    errors,   \* model_ir_errors is not empty
    verdict,  \* g4_modeling_status, or "raised"
    disk      \* what the stage directory holds; asks is the job's human_confirmation_required

modelingVars == <<at, task, ir, errors, verdict, disk>>

NoModel == [parts |-> <<>>, interfaces |-> {}, evidence |-> {}, materials |-> {},
            sources |-> {}, physics |-> Nothing, detectors |-> {}, scoring |-> {}]

ModelingInit ==
    /\ at = "idle"
    /\ task = Nothing
    /\ ir = NoModel
    /\ errors = FALSE
    /\ verdict = "none"
    /\ disk \in Leftovers

-----------------------------------------------------------------------------
\* load_task_spec.  What the user confirmed replaces what was planned.

\* params.update(words)
Update(params, words) ==
    [field \in DOMAIN params \cup DOMAIN words |->
        IF field \in DOMAIN words THEN words[field] ELSE params[field]]

\* Variant: what was said first outweighs what was said after it.
Parameters_FirstWord(r) == Update(Update(r.supplement, r.answered), r.proposed)

\* _confirmed_parameters: a supplement outweighs an answer, an answer a proposal.
Parameters(r) == Update(Update(r.proposed, r.answered), r.supplement)

\* _primary_source_choice_text: of a text with alternatives, the one it begins with.
PrimaryChoice(word) == IF word.choice # Nothing THEN {word.choice} ELSE word.names

\* What the confirmed fields say of the particles: a mixture outweighs a single particle,
\* whoever said it when, and the text on the energy is searched for particles too.
NamedSources(p) ==
    (CASE "mixture" \in DOMAIN p -> p["mixture"].names
       [] "mixture" \notin DOMAIN p /\ "particle" \in DOMAIN p -> PrimaryChoice(p["particle"])
       [] OTHER -> {})
    \cup (IF "energy" \in DOMAIN p THEN p["energy"].names ELSE {})

\* _particles_from_parameters: beside a neutron or a gamma no other particle is taken up,
\* and without one only the first that is named; a muon, an alpha or an ion never is.
SourcesFrom(p) ==
    LET named == NamedSources(p) \cap Particles
        neutral == named \cap {"neutron", "gamma"}
    IN  CASE neutral # {} -> neutral
          [] neutral = {} /\ "proton" \in named -> {"proton"}
          [] OTHER -> named

\* _outputs_from_parameters: the table of events comes with anything asked for.
OutputsFrom(p) ==
    IF "outputs" \notin DOMAIN p \/ p["outputs"] = {} THEN {}
    ELSE p["outputs"] \cup {"events"}

Planned(r) == [sources |-> r.sources, physics |-> Nothing, target |-> r.target,
               outputs |-> r.outputs, complex |-> r.complex, request |-> r]

ApplyConfirmedPlan(r) ==
    LET p == Parameters(r) IN
    IF ~r.approved THEN Planned(r)
    ELSE [Planned(r) EXCEPT
             !.sources = IF SourcesFrom(p) # {} THEN SourcesFrom(p) ELSE r.sources,
             !.physics = IF "physics" \in DOMAIN p THEN p["physics"] ELSE Nothing,
             !.outputs = IF OutputsFrom(p) # {} THEN OutputsFrom(p) ELSE r.outputs]

LoadTaskSpec(r) ==
    /\ at = "idle" /\ verdict = "none"
    /\ task' = ApplyConfirmedPlan(r)
    /\ ir' = NoModel
    /\ errors' = FALSE
    /\ verdict' = "running"
    /\ at' = "capture"
    /\ UNCHANGED disk

NonWorld(parts) == {i \in DOMAIN parts : ~parts[i].world}

\* A node whose G4ModelIR.model_validate refuses the IR it was handed raises, and the
\* phase ends there: a list of components must hold exactly one world, and only the world
\* may be without a mother (a draft that leaves the mother out is not refused, what is
\* made of it is).
Loads(model) ==
    \/ model.parts = <<>>
    \/ /\ Cardinality(Worlds(model.parts)) = 1
       /\ \A i \in NonWorld(model.parts) : model.parts[i].mother # NoMother

Raise ==
    /\ at' = "idle"
    /\ verdict' = "raised"
    /\ UNCHANGED <<task, ir, errors, disk>>

Goto(node) == at' = node /\ UNCHANGED <<task, verdict>>

-----------------------------------------------------------------------------
\* requirement_capture_node

World(half) ==
    [id |-> "world", mother |-> NoMother, world |-> TRUE, box |-> TRUE,
     half |-> half, pos |-> 0, role |-> "plain", mat |-> "air"]

TargetPart ==
    [id |-> "target", mother |-> "world", world |-> FALSE, box |-> TRUE,
     half |-> task.target, pos |-> 0, role |-> "sensitive", mat |-> "si"]

\* _world_dimensions: five times the target, or a fixed size without one.
WorldHalf == IF task.target > 0 THEN 5 * task.target ELSE 5

\* The components requirements.json asks for: the draft's, else the task's target.
Required(draft) ==
    IF draft # <<>> THEN draft
    ELSE IF task.target > 0 THEN <<TargetPart>> ELSE <<>>

\* _fallback_components: every required component in the middle of the world, with the
\* task's size where it is the target, and no size otherwise.
FallbackComponents(required) ==
    LET worlds == {required[i].id : i \in {j \in DOMAIN required : required[j].world}}
        size(c) == IF c.world THEN WorldHalf
                   ELSE IF c.mat = "si" THEN task.target ELSE 0
        mother(c) == IF c.world THEN NoMother
                     ELSE IF worlds = {} THEN "world" ELSE CHOOSE w \in worlds : TRUE
        placed == [i \in DOMAIN required |->
                      [required[i] EXCEPT !.half = size(required[i]), !.pos = 0,
                                          !.mother = mother(required[i])]]
    IN  IF worlds = {} THEN <<World(WorldHalf)>> \o placed ELSE placed

\* _enrich_components_from_task_spec: a missing size is filled from the task's target,
\* where the component is the target (same material) or the only box there is.
Enrich(parts) ==
    LET boxes == {i \in NonWorld(parts) : parts[i].box}
        same == {i \in boxes : parts[i].mat = "si"}
        targets == IF same # {} THEN same
                   ELSE IF Cardinality(boxes) = 1 THEN boxes ELSE {}
        size(i) == IF parts[i].half > 0 \/ ~parts[i].box THEN parts[i].half
                   ELSE IF parts[i].world THEN WorldHalf
                   ELSE IF i \in targets THEN task.target ELSE 0
    IN  IF task.target = 0 THEN parts
        ELSE [i \in DOMAIN parts |-> [parts[i] EXCEPT !.half = size(i)]]

\* source_definition_node, from the task alone; a task without a source gets protons.
SourcesOf(t) == IF t.sources = {} THEN {"proton"} ELSE t.sources

\* _default_physics_for_sources: one list for all sources, the most demanding of them; where
\* none of them is a hadron the first decides, and any of them may be the first.
DefaultPhysics(sources) ==
    CASE "neutron" \in sources -> {"QGSP_BIC_HP"}
      [] "neutron" \notin sources /\ sources \cap Hadrons # {} -> {"QGSP_BIC"}
      [] OTHER -> {IF s = "muon" THEN "QGSP_BIC" ELSE "FTFP_BERT" : s \in sources}

\* _physics_from_draft: a drafted physics list is taken as it is; without one the list the
\* user confirmed, or the default.  physics_list_node finds it there and preserves it.
PhysicsFor(drafted) ==
    CASE drafted # Nothing -> {drafted}
      [] drafted = Nothing /\ task.physics # Nothing -> {task.physics}
      [] OTHER -> DefaultPhysics(SourcesOf(task))

CaptureRequirements(draft, drafted) ==
    LET required == Required(draft)
        usable == NonWorld(draft) # {}
    IN  /\ at = "capture"
        /\ \E physics \in PhysicsFor(drafted) : ir' = [ir EXCEPT
               !.parts = IF usable THEN Enrich(draft) ELSE FallbackComponents(required),
               !.physics = physics]
        /\ disk' = [disk EXCEPT !.required = required]
        /\ UNCHANGED errors
        /\ Goto("evidence")

-----------------------------------------------------------------------------
\* evidence_retrieval_node: the dimensions the request itself speaks for; the physics
\* dimension falls back to the local reference documents.
RetrieveEvidence ==
    LET asks == disk.required # <<>> \/ task.target > 0
        speaksFor == {"physics"}
            \cup (IF asks THEN {"geometry", "materials"} ELSE {})
            \cup (IF task.sources # {} THEN {"source"} ELSE {})
            \cup (IF task.outputs # {} THEN {"scoring"} ELSE {})
    IN  /\ at = "evidence"
        /\ IF Loads(ir)
           THEN /\ ir' = [ir EXCEPT !.evidence = speaksFor]
                /\ UNCHANGED <<errors, disk>>
                /\ Goto("guard")
           ELSE Raise

\* model_scope_guard_node, under the decision "block_no_context".
Critical == {"geometry", "materials", "source"}

ScopeAllows(model) == Critical \subseteq model.evidence

GuardScope ==
    /\ at = "guard"
    /\ errors' = ~ScopeAllows(ir)
    /\ UNCHANGED <<ir, disk>>
    /\ Goto(IF ScopeAllows(ir) THEN "geometry" ELSE "persist")

-----------------------------------------------------------------------------
\* geometry_decomposition_node.  A world-only model asks the larger model once more.

WithWorld(parts) ==
    IF Worlds(parts) = {} THEN <<World(WorldHalf)>> \o parts ELSE parts

\* _generate_interfaces: every component is contained in its mother.
InterfacesOf(parts) ==
    {<<parts[i].mother, parts[i].id>> : i \in {j \in DOMAIN parts : parts[j].mother # NoMother}}

Decompose(answer) ==
    LET found == IF NonWorld(ir.parts) # {} THEN ir.parts
                 ELSE IF answer # <<>> THEN answer
                 ELSE FallbackComponents(disk.required)
    IN  /\ at = "geometry"
        /\ NonWorld(ir.parts) # {} => answer = <<>>
        /\ ir' = LET parts == Arrange(WithWorld(Enrich(found)))
                 IN  [ir EXCEPT !.parts = parts, !.interfaces = InterfacesOf(parts)]
        /\ UNCHANGED <<errors, disk>>
        /\ Goto("define")

\* coordinate_system_node to scoring_design_node: deterministic, one after the other, each
\* reloading the IR.
IdsOf(parts, P(_)) == {parts[i].id : i \in {j \in DOMAIN parts : P(parts[j])}}

\* A name or alias in _NIST_MATERIALS or _CUSTOM_MATERIALS.
Known(name) == name \in Tables

\* _define_material: a name of no table is made of silicon, to be confirmed.
Define(name) ==
    IF Known(name) THEN [id |-> name, made |-> name, open |-> FALSE]
    ELSE [id |-> name, made |-> "silicon", open |-> TRUE]

\* material_definition_node: one material per name the components use.
MaterialsOf(parts) == {Define(parts[i].mat) : i \in DOMAIN parts}

\* sensitive_detector_node: the components marked sensitive.
DetectorsOf(parts) == IdsOf(parts, LAMBDA c : c.role = "sensitive")

\* _requested_scoring_outputs: a dose distribution is asked for as a map.
WantsMaps(t) == "dose" \in t.outputs

\* scoring_design_node: the hits of every detector and the maps asked for.
IsScoringTarget(c) == c.role \in {"detector", "sensitive"}

ScoringOf(parts, maps) ==
    DetectorsOf(parts)
        \cup (IF maps THEN IdsOf(parts, LAMBDA c : ~c.world /\ IsScoringTarget(c)) ELSE {})

DefineRest ==
    /\ at = "define"
    /\ IF Loads(ir)
       THEN /\ ir' = [ir EXCEPT !.materials = MaterialsOf(ir.parts),
                                !.sources = SourcesOf(task),
                                !.detectors = DetectorsOf(ir.parts),
                                !.scoring = ScoringOf(ir.parts, WantsMaps(task))]
            /\ UNCHANGED <<errors, disk>>
            /\ Goto("validate")
       ELSE Raise

-----------------------------------------------------------------------------
\* model_ir_validation_node

Complete(model) ==
    /\ NonWorld(model.parts) # {}
    /\ \A i \in DOMAIN model.parts : model.parts[i].box => model.parts[i].half > 0
    /\ \A i \in DOMAIN model.parts : \E m \in model.materials : m.id = model.parts[i].mat
    /\ model.sources # {}
    /\ model.physics # Nothing
    /\ model.scoring # {}
    /\ model.interfaces # {}

\* GeometryInterfaceValidator._check_interface_hierarchy
InterfacesHold(model) ==
    \A link \in model.interfaces : \A i \in DOMAIN model.parts :
        model.parts[i].id = link[2] =>
            \E m \in Ancestors(model.parts, i) : model.parts[m].id = link[1]

\* NoSimplificationValidator: a request for a stack needs more than two volumes.
NotSimplified(model) == task.complex => Cardinality(NonWorld(model.parts)) > 2

\* Variant: neither the tree of mothers nor the interfaces are looked at.
Valid_IgnoringTree(model) ==
    /\ Complete(model)
    /\ NotSimplified(model)
    /\ SiblingsApart(model.parts)
    /\ InsideMothers(model.parts)

Valid(model) ==
    /\ Complete(model)
    /\ NotSimplified(model)
    /\ WellFormedTree(model.parts)
    /\ InterfacesHold(model)
    /\ SiblingsApart(model.parts)
    /\ InsideMothers(model.parts)

Validate ==
    /\ at = "validate"
    /\ errors' = ~Valid(ir)
    /\ UNCHANGED <<ir, disk>>
    /\ Goto("persist")

\* _requires_human_confirmation: the answer is noted in the job's state; no phase waits.
RequiresConfirmation(model) == \E m \in model.materials : m.open

\* persist_model_ir writes what there is, failed or not, over the run before.
PersistModelIR ==
    /\ at = "persist"
    /\ disk' = [disk EXCEPT !.model = ir, !.status = IF errors THEN "failed" ELSE "passed",
                            !.asks = RequiresConfirmation(ir)]
    /\ verdict' = IF errors THEN "failed" ELSE "passed"
    /\ at' = "idle"
    /\ UNCHANGED <<task, ir, errors>>

ModelingNext ==
    \/ \E r \in Requests : LoadTaskSpec(r)
    \/ at = "capture" /\ \E draft \in Drafts(task.request), drafted \in Physics \cup {Nothing} :
           CaptureRequirements(draft, drafted)
    \/ RetrieveEvidence
    \/ GuardScope
    \/ at = "geometry" /\ \E answer \in Drafts(task.request) : Decompose(answer)
    \/ DefineRest
    \/ Validate
    \/ PersistModelIR
=============================================================================
