------------------------------ MODULE Delivery ------------------------------
(***************************************************************************)
(* What a job hands over when its phases are through: the review package   *)
(* (artifacts/nodes.py), the final report (reports/nodes.py) and the view  *)
(* in the browser (web/visualization.py).  The package has one directory   *)
(* for all jobs, review_artifacts/g4_complex_model/latest: nothing of the  *)
(* job before is removed from it.                                          *)
(*                                                                         *)
(* The job is the one of CodegenPlanning; what its program, its gates and  *)
(* its confirmation left is one of Outcomes (modules ProjectFiles, Gates   *)
(* and Confirmations say how it comes about).                              *)
(***************************************************************************)
EXTENDS CodegenPlanning

CONSTANTS
    Outcomes,  \* how the phases in between may end: see OutcomeShape
    Shelves    \* what the shared directory may hold, by whom: see ShelfShape

\* The files of a package.  Those of the first line are made from the model.
FromModel == {"g4_model_ir", "component_specs_summary", "no_simplification_report",
              "geometry_interface_report", "evidence_traceability_report"}
FromConfirmation == {"confirmation_record", "confirmed_model_plan", "human_confirmation_report"}
Files == FromModel \cup FromConfirmation
    \cup {"gate_results", "model_review_report", "code_module_plan", "proposed_patch_summary"}

\* gates: the gates left their results; validation: validation_status; said: a
\* termination_reason is set; reserved: the job's scope names more than geant4; errors: the
\* state holds errors; confirmed: the job has been through the confirmation of its model;
\* view: the ids of the components its program showed, Nothing if what it wrote is missing
\* or older than the model.
OutcomeShape(o) ==
    /\ DOMAIN o = {"gates", "validation", "said", "reserved", "errors", "confirmed", "view"}
    /\ o.validation \in {"none", "passed", "failed"}
    /\ {o.gates, o.said, o.reserved, o.errors, o.confirmed} \subseteq BOOLEAN
    /\ o.validation # "none" => o.gates

ShelfShape(shelf) == shelf \in [Files -> {"nobody", "another"}]

ASSUME DeliveryAssumption ==
    /\ \A o \in Outcomes : OutcomeShape(o)
    /\ \A s \in Shelves : ShelfShape(s)

VARIABLES
    outcome,   \* what the phases between planning and delivery came to
    shelf,     \* whose file the shared directory holds under each name
    manifest,  \* artifact_manifest.json and review_report.json
    report     \* final_report.md, and what the phase returns

deliveryVars == <<outcome, shelf, manifest, report>>

Ends ==
    /\ told # Nothing /\ outcome = Nothing
    /\ outcome' \in Outcomes
    /\ UNCHANGED <<allVars, shelf, manifest, report>>

-----------------------------------------------------------------------------
\* collect_artifacts: what the job has replaces what was there.
Made(o) ==
    FromModel \cup {"model_review_report", "code_module_plan", "proposed_patch_summary"}
        \cup (IF o.gates THEN {"gate_results"} ELSE {})
        \cup (IF o.confirmed THEN FromConfirmation ELSE {})

CollectArtifacts ==
    /\ outcome # Nothing /\ manifest = Nothing
    /\ shelf["g4_model_ir"] # "job"
    /\ shelf' = [f \in Files |-> IF f \in Made(outcome) THEN "job" ELSE shelf[f]]
    /\ UNCHANGED <<allVars, outcome, manifest, report>>

\* generate_artifact_manifest lists the directory, whoever put the files there.  The phase
\* passes it neither the gates' results nor the confirmation: no gate counts as skipped,
\* nothing as a limitation, and no confirmation as required.
Listed(s) == {f \in Files : s[f] # "nobody"}

Manifest ==
    [files |-> Listed(shelf), validation |-> outcome.validation,
     components |-> {disk.model.parts[i].id : i \in DOMAIN disk.model.parts},
     skipped |-> {}, required |-> FALSE,
     status |-> IF Listed(shelf) = {} THEN "failed" ELSE "collected"]

GenerateArtifactManifest ==
    /\ shelf["g4_model_ir"] = "job" /\ manifest = Nothing
    /\ manifest' = Manifest
    /\ UNCHANGED <<allVars, outcome, shelf, report>>

-----------------------------------------------------------------------------
\* generate_final_report: why the job ended.  A question of the planner never gets here:
\* the phase's state has no clarification_request.
Termination(o) ==
    CASE o.validation = "passed" -> "completed_passed"
      [] o.validation # "passed" /\ o.said -> "as said"
      [] o.validation # "passed" /\ ~o.said /\ o.reserved -> "completed_with_reserved_scope"
      [] o.validation = "failed" /\ ~o.said /\ ~o.reserved -> "failed_gates"
      [] o.validation = "none" /\ ~o.said /\ ~o.reserved /\ o.errors -> "errors"
      [] OTHER -> "completed_unverified"

\* What it says of the model, section by section, from the file.
Described(model) ==
    [components |-> {model.parts[i].id : i \in DOMAIN model.parts},
     materials |-> {m.id : m \in model.materials},
     sources |-> model.sources, scoring |-> model.scoring, evidence |-> model.evidence]

\* Gates and credibility are reported from the results, if there are any.
GenerateFinalReport ==
    /\ manifest # Nothing /\ report = Nothing
    /\ report' = [verified |-> outcome.validation = "passed",
                  termination |-> Termination(outcome),
                  model |-> Described(disk.model), gates |-> outcome.gates]
    /\ UNCHANGED <<allVars, outcome, shelf, manifest>>

-----------------------------------------------------------------------------
\* get_visualization_payload.  The geometry is the program's where it wrote one that can be
\* used, and the model's otherwise; the source rays are the model's in any case.
ShownGeometry(o, model) ==
    IF o.view # Nothing /\ o.view # {} THEN o.view
    ELSE {model.parts[i].id : i \in DOMAIN model.parts}

ShownRays(model) == model.sources

\* _payload_status
PayloadStatus(o, model) ==
    CASE o.view # Nothing /\ ShownGeometry(o, model) # {} -> "ready"
      [] o.view = Nothing /\ ShownGeometry(o, model) # {} -> "partial"
      [] OTHER -> "waiting"

Payload == [components |-> ShownGeometry(outcome, disk.model), rays |-> ShownRays(disk.model),
            status |-> PayloadStatus(outcome, disk.model)]

InitJob == /\ InitAll
           /\ outcome = Nothing /\ manifest = Nothing /\ report = Nothing
           /\ shelf \in Shelves

NextJob == \/ NextAll /\ UNCHANGED deliveryVars
           \/ Ends
           \/ CollectArtifacts
           \/ GenerateArtifactManifest
           \/ GenerateFinalReport

jobVars == <<at, task, ir, errors, verdict, disk, planned, told, outcome, shelf, manifest, report>>

SpecJob == InitJob /\ [][NextJob]_jobVars

-------------------------------------------------------------------------------
(***************************************************************************)
(* What the modelling phase promises of the models it lets through, and of *)
(* what the code generation is told of them.                               *)
(***************************************************************************)

\* A part the simulation reaches: it is the world, or the world is among its ancestors.
Placed(parts, i) == ({i} \cup Ancestors(parts, i)) \cap Worlds(parts) # {}

\* The placement repairs of geometry_decomposition_node are complete: whatever the draft,
\* once they have run, every box of a well-formed tree lies inside its mother.  Moving a
\* detector behind a sibling may push it out of its mother, expanding the mother may make
\* it overlap the next sibling, and a mother nested in another passes the growth on.
RepairContains ==
    (at = "define" /\ Loads(ir) /\ WellFormedTree(ir.parts)) => InsideMothers(ir.parts)

\* A model that passed can be measured: something is scored, everything scored is part of
\* the geometry, and following the mothers from it one reaches the world.
PassedCanMeasure ==
    verdict = "passed" =>
        /\ disk.model.scoring # {}
        /\ \A id \in disk.model.scoring \cup disk.model.detectors :
             \E i \in DOMAIN disk.model.parts :
                 disk.model.parts[i].id = id /\ Placed(disk.model.parts, i)

\* The particles the user's last words on the source name: of a mixture, or else of the
\* particle chosen.
LastWord(said, field) ==
    IF field \in DOMAIN said.supplement THEN said.supplement[field]
    ELSE IF field \in DOMAIN said.answered THEN said.answered[field]
    ELSE IF field \in DOMAIN said.proposed THEN said.proposed[field]
    ELSE [names |-> {}, choice |-> Nothing]

SaidSources(said) ==
    LET mixture == LastWord(said, "mixture")
        particle == LastWord(said, "particle")
    IN  IF mixture.names # {} THEN mixture.names
        ELSE IF particle.choice # Nothing THEN {particle.choice} ELSE particle.names

\* The words can be followed: what is said of a mixture names its particles, the energy is
\* not given for another particle, and what is neither a neutron nor a gamma is asked for
\* alone.
Clear(said) ==
    /\ SaidSources(said) # {}
    /\ LastWord(said, "mixture").names = {} => "mixture" \notin DOMAIN Parameters(said)
    /\ LastWord(said, "energy").names \subseteq SaidSources(said)
    /\ \/ SaidSources(said) \subseteq {"neutron", "gamma"}
       \/ Cardinality(SaidSources(said)) = 1

\* What is due to clear words: the particles they name, but only where the projection of the
\* review onto the task knows them.  A wish for a muon, an alpha or an ion replaces nothing,
\* what was planned stays, and a task without a source is one of protons.
Due(said) ==
    IF SaidSources(said) \subseteq Particles THEN SaidSources(said)
    ELSE IF said.sources = {} THEN {"proton"} ELSE said.sources

\* Every radiation field of neutrons, gammas, a proton or an electron that the user asks for
\* clearly in the review of the requirements (a supplement before an answer before a
\* proposal) is the one that is simulated, whatever was planned before, drafted by the
\* model, or left by an earlier run; a field of another particle is not taken up, and it is
\* the planned one that is simulated, not one guessed from the answer.  The model that
\* passed, what the agent that writes the program is told, the sources of the final report
\* and the rays in the browser agree on it, and where nobody names a physics list, the
\* model has one that transports neutrons if there are any.  The package the job leaves in
\* the shared directory has its own model, and its own gate results if it says that the
\* gates passed.
ConfirmedSourceBinds ==
    LET said == task.request
        asked(sources) == (said.approved /\ Clear(said)) => sources = Due(said)
        follows(model) ==
            /\ asked(model.sources)
            /\ "neutron" \in model.sources =>
                   \/ model.physics = "QGSP_BIC_HP"
                   \/ model.physics \in Physics
                   \/ said.approved /\ model.physics = LastWord(said, "physics")
    IN  /\ verdict = "passed" => follows(disk.model)
        /\ told # Nothing => follows(told.model)
        /\ report # Nothing => asked(report.model.sources) /\ asked(Payload.rays)
        /\ manifest # Nothing =>
              {"g4_model_ir"} \cup (IF manifest.validation = "passed" THEN {"gate_results"} ELSE {})
                  \subseteq {f \in manifest.files : shelf[f] = "job"}
=============================================================================
