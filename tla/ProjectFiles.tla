----------------------------- MODULE ProjectFiles ------------------------------
(* The files of one generated Geant4 project on their way from the coding agent's *)
(* workspace to the gates: the agent edits and smoke-tests its workspace, the      *)
(* patch is read back from it, the runtime gate builds the patch in a directory of *)
(* its own, the audit and the physics review judge that run, the output is          *)
(* persisted, the patch applied, and gate validation runs what was applied.         *)
(*                                                                               *)
(* A process may die between any two steps; what is in memory is then lost and the *)
(* job goes on from what is on disk. Which phase runs next is module Pipeline,     *)
(* the repair budget module CodegenRepair, the agent's turns module AgentLoop.      *)
EXTENDS Gates, Hardening

CONSTANTS
    Paths,      \* relative paths in the project
    AutoApply,  \* those in the green zone of the file access policy
    Absent,
    Template,   \* the files of the canonical template
    Edits,      \* what the agent may do to a file: see Edit
    Expected,   \* the events the model asks for
    Asked,      \* the events the agent may pass to run_smoke
    Cases,      \* what gate validation may find: a set of Facts
    HandEvents, \* the events of a simulation started by hand
    MaxEdits,   \* bound: edits in one agent run
    MaxPasses,  \* bound: passes of the pipeline through code generation
    MaxCopies   \* bound: copies of one spelling in a file the agent goes on with

ASSUME FilesAssumption ==
    /\ AutoApply \subseteq Paths
    /\ Expected \in Nat \ {0}
    /\ Cases \subseteq Facts

VARIABLES
    at,         \* the step the job is at
    memory,     \* patch, report and verdicts of the running code generation
    workspace,  \* project_agent/geant4_project: its tree, its smoke_output and build
    attempt,    \* integration/runtime_attempt_0: the project and its outputs
    saved,      \* proposed_patch.json and the status persisted with it
    project,    \* geant4_project, the code every later phase uses
    validation, \* g4_output_package and the gates on it
    executable, \* the project built by hand, while its build tree is there
    passes      \* how often code generation came to an end

vars == <<at, memory, workspace, attempt, saved, project, validation, executable, passes>>
generation == <<workspace, attempt, saved, project, passes>>

Nothing == [p \in Paths |-> Absent]
NoMemory == [patch |-> Nothing, edits |-> 0, passed |-> FALSE,
             audited |-> FALSE, reviewed |-> FALSE]

Hardened(tree) ==
    [p \in Paths |-> IF tree[p] = Absent THEN Absent ELSE Postprocessed(p, tree[p])]
Allowed(tree) == [p \in Paths |-> IF p \in AutoApply THEN tree[p] ELSE Absent]

\* _overlay_patch_files and apply_patch: what the patch names is written, nothing
\* is deleted.
Overlaid(tree, patch) ==
    [p \in Paths |-> IF patch[p] = Absent THEN tree[p] ELSE patch[p]]

\* _reconstruct_patch_from_project: the files the policy lets through, hardened.
Reconstructed(tree) == Hardened(Allowed(tree))

\* The project's directory is removed, with the build tree in it and what lies there.
WithoutBuild(out) == [o \in Kept |-> IF o \in InBuild THEN None ELSE out[o]]

\* What is left of a validation when the job moves on: the output package.
NoVerdict(v) == [v EXCEPT !.facts = Sound, !.results = NoResults, !.passed = FALSE]

-------------------------------------------------------------------------------
\* _reset_project_workspace: the template in an empty directory, and over it the
\* patch of the run before when this run is a repair.
Start(seed) ==
    /\ workspace' = [tree |-> Overlaid(Template, seed), out |-> NoOutput]
    /\ memory' = NoMemory
    /\ validation' = NoVerdict(validation)
    /\ at' = "agent"
    /\ UNCHANGED <<attempt, saved, project, executable, passes>>

Bounded(tree) == \A p \in Paths : tree[p] # Absent =>
    \A f \in BagToSet(tree[p]) : Copies(f, tree[p]) <= MaxCopies

\* A pass of the pipeline through g4_codegen starts without a patch.
Generate ==
    /\ at \in {"idle", "saved", "applied", "validated"} /\ passes < MaxPasses
    /\ Start(Nothing)
\* continue_agentic_repair_node: an approved continuation starts from the patch on disk.
Continue ==
    /\ at \in {"idle", "saved"} /\ passes < MaxPasses
    /\ saved.status = "needs_user_input" /\ Bounded(saved.patch) /\ Start(saved.patch)
\* geant4_project_agent_node again: the patch in the graph's state is the seed.
Repair ==
    /\ at \in {"audited", "reviewed"}
    /\ ~(memory.audited /\ memory.reviewed)
    /\ Bounded(memory.patch) /\ Start(memory.patch)

\* edit_file and write_file of the repair toolkit: write_file replaces a file, edit_file
\* a spelling (e.old) that must be there exactly once. The written file is hardened.
Edit ==
    /\ at = "agent" /\ memory.edits < MaxEdits
    /\ \E e \in Edits :
        LET c == workspace.tree[e.path] IN
        /\ e.old # None => c # Absent /\ Copies(e.old, c) = 1
        /\ workspace' = [workspace EXCEPT !.tree[e.path] = Postprocessed(e.path,
              IF e.old = None THEN e.new ELSE (c (-) SetToBag({e.old})) (+) e.new)]
    /\ memory' = [memory EXCEPT !.edits = @ + 1]
    /\ UNCHANGED <<at, attempt, saved, project, validation, executable, passes>>

\* run_smoke: the same output directory every time, never cleared.
RunSmoke ==
    /\ at = "agent"
    /\ \E n \in Asked :
        workspace' = [workspace EXCEPT !.out = SmokeTest(workspace.tree, @, n).out]
    /\ UNCHANGED <<at, memory, attempt, saved, project, validation, executable, passes>>

\* The loop ends, because the last run_smoke passed or for any other reason, and
\* the patch is read back from what the workspace now holds.
Finish ==
    /\ at = "agent"
    /\ memory' = [memory EXCEPT !.patch = Reconstructed(workspace.tree)]
    /\ at' = "gate"
    /\ UNCHANGED <<generation, validation, executable>>

-------------------------------------------------------------------------------
\* _run_integration_runtime_gate: the attempt's directory is removed and the patch
\* alone is written, built and run.
GateDirectory == NoOutput

\* _summarize_runtime_gate_result.
GatePassed(r) == r.success /\ Quality(r.out, Expected)

\* The report and the patch are persisted with the gate's verdict.
RuntimeGate ==
    /\ at = "gate"
    /\ LET r == SmokeTest(memory.patch, GateDirectory, Expected) IN
       /\ attempt' = [tree |-> memory.patch, out |-> r.out]
       /\ memory' = [memory EXCEPT !.passed = GatePassed(r)]
    /\ saved' = [saved EXCEPT !.patch = memory.patch]
    /\ at' = "gated"
    /\ UNCHANGED <<workspace, project, validation, executable, passes>>

\* Variant: the outputs are not looked at again after the gate.
Deterministic_Trusting(m, out) == m.passed
\* run_runtime_execution_auditor: facts first; the model may only tighten them.
\* Facts this model does not hold (stderr, macros, the geometry) may fail too.
Deterministic(m, out) == m.passed /\ Trustworthy(out, Expected)

Audit ==
    /\ at = "gated"
    /\ \E verdict \in BOOLEAN :
        memory' = [memory EXCEPT !.audited = Deterministic(memory, attempt.out) /\ verdict]
    /\ at' = "audited"
    /\ UNCHANGED <<generation, validation, executable>>

\* physics_quality_review_node follows a passed audit.
Review ==
    /\ at = "audited" /\ memory.audited
    /\ \E verdict \in BOOLEAN : memory' = [memory EXCEPT !.reviewed = verdict]
    /\ at' = "reviewed"
    /\ UNCHANGED <<generation, validation, executable>>

\* Variant: the directory is not removed first.
Persisted_Kept(old, tree) == Overlaid(old, Allowed(tree))
\* What persist_codegen_output_node copies: the workspace without build trees, and
\* then only the files the policy lets through, into a directory just removed.
Persisted(old, tree) == Allowed(tree)

Persist ==
    /\ at \in {"audited", "reviewed"}
    /\ at = "audited" => ~memory.audited
    /\ \E status \in IF memory.audited /\ memory.reviewed THEN {"passed"}
                     ELSE {"failed", "needs_user_input"} :
        saved' = [patch |-> memory.patch, status |-> status]
    /\ project' = Persisted(project, workspace.tree)
    /\ executable' = None
    /\ validation' = [validation EXCEPT !.out = WithoutBuild(@)]
    /\ memory' = NoMemory
    /\ at' = "saved"
    /\ passes' = passes + 1
    /\ UNCHANGED <<workspace, attempt>>

-------------------------------------------------------------------------------
\* apply_patch: the reviewed patch over the persisted project.
ApplyPatch ==
    /\ at = "saved" /\ saved.status = "passed"
    /\ project' = Overlaid(project, saved.patch)
    /\ at' = "applied"
    /\ UNCHANGED <<memory, workspace, attempt, saved, validation, executable, passes>>

\* load_gate_inputs.
LoadGateInputs ==
    /\ at \in {"applied", "validated"}
    /\ \E f \in Cases : validation' = [NoVerdict(validation) EXCEPT !.facts = f]
    /\ at' = "loaded"
    /\ UNCHANGED <<memory, generation, executable>>

\* run_base_gates: a smoke run of the applied project into the job's output
\* package, which earlier runs may have filled.
RunBaseGates ==
    /\ at = "loaded"
    /\ LET f == validation.facts
           out == IF f.geant4 THEN SmokeTest(project, validation.out, Expected).out
                  ELSE validation.out
           recorded == Recorded(f, project, validation.recorded)
       IN validation' = [validation EXCEPT !.out = out, !.recorded = recorded,
              !.results = BaseGates(f, project, out, recorded, Expected)]
    /\ at' = "based"
    /\ UNCHANGED <<memory, generation, executable>>

RunModelingGates ==
    /\ at = "based"
    /\ validation' = [validation EXCEPT !.results = With(@, ModelingGates(validation.facts))]
    /\ at' = "modeled"
    /\ UNCHANGED <<memory, generation, executable>>

RunCredibilityGate ==
    /\ at = "modeled"
    /\ validation' = [validation EXCEPT !.results =
           With(@, [g \in {20} |-> CredibilityGate(validation.facts, validation.out, @)])]
    /\ at' = "weighed"
    /\ UNCHANGED <<memory, generation, executable>>

\* finalize_gate_results: what the job keeps of the results is their verdict.
FinalizeGateResults ==
    /\ at = "weighed"
    /\ validation' = [NoVerdict(validation) EXCEPT !.passed = Passed(validation.results)]
    /\ at' = "validated"
    /\ UNCHANGED <<memory, generation, executable>>

-------------------------------------------------------------------------------
Idle == at \in {"idle", "saved", "applied", "validated"}

\* build_generated_code: the executable stays where the build left it, until the
\* project's directory is removed. A configuration that fails leaves an old one.
BuildByHand ==
    /\ Idle /\ project # Nothing
    /\ executable' \in IF Builds(project) THEN {project} ELSE {None, executable}
    /\ UNCHANGED <<at, memory, generation, validation>>

\* run_simulation runs what was built, whatever the project holds by now, into the
\* job's output package.
SimulateByHand ==
    /\ Idle /\ executable # None
    /\ \E n \in HandEvents :
        validation' = [validation EXCEPT !.out =
            Materialized(executable, Simulated(executable, @, n), n)]
    /\ UNCHANGED <<at, memory, generation, executable>>

-------------------------------------------------------------------------------
\* The process dies inside a phase; the phase is run again from its beginning.
Crash ==
    \/ /\ at \in {"agent", "gate", "gated", "audited", "reviewed"}
       /\ memory' = NoMemory
       /\ at' = "idle"
       /\ UNCHANGED <<generation, validation, executable>>
    \/ /\ at \in {"loaded", "based", "modeled", "weighed"}
       /\ validation' = NoVerdict(validation)
       /\ at' = "applied"
       /\ UNCHANGED <<memory, generation, executable>>

FilesInit ==
    /\ at = "idle"
    /\ memory = NoMemory
    /\ workspace = [tree |-> Nothing, out |-> NoOutput]
    /\ attempt = [tree |-> Nothing, out |-> NoOutput]
    /\ saved = [patch |-> Nothing, status |-> "none"]
    /\ project = Nothing
    /\ validation = [out |-> NoOutput, recorded |-> NoRecord, facts |-> Sound,
                     results |-> NoResults, passed |-> FALSE]
    /\ executable = None
    /\ passes = 0

FilesNext ==
    \/ Generate \/ Continue \/ Repair \/ Edit \/ RunSmoke \/ Finish
    \/ RuntimeGate \/ Audit \/ Review \/ Persist \/ ApplyPatch
    \/ LoadGateInputs \/ RunBaseGates \/ RunModelingGates
    \/ RunCredibilityGate \/ FinalizeGateResults
    \/ BuildByHand \/ SimulateByHand \/ Crash

FilesSpec == FilesInit /\ [][FilesNext]_vars


-------------------------------------------------------------------------------
(* What ProjectFiles must not get wrong: which files a verdict is about, and      *)
(* whether later phases work on the files that got the verdict.                   *)

\* Code generation is over and its result is what the next phases take up.
Settled == at \in {"saved", "applied", "validated"}

\* The mesh and event tables may be derived by the runner from other outputs.
Derivable == {"events", "mesh"}

(* The agent stops on a smoke run of its own workspace: template files never       *)
(* hardened, files the policy drops, outputs of earlier runs and an event count it *)
(* chose itself. Code generation is nevertheless passed only for a patch whose     *)
(* files, alone and in an empty directory, build and produce a full and            *)
(* trustworthy package for the requested events.                                   *)
PassedIsReproducible ==
    Settled /\ saved.status = "passed" =>
        LET r == SmokeTest(saved.patch, NoOutput, Expected) IN
        r.success /\ Trustworthy(r.out, Expected)

(* persist copies the workspace and apply_patch only adds to that copy. What is    *)
(* there afterwards is, file by file, what the runtime gate ran: nothing is left   *)
(* from an earlier project, and nothing is there that the gate did not have.       *)
AppliedIsGated == at \in {"applied", "validated"} => project = attempt.tree

\* What the rules put into a file at most once; the summary's fallback is not among it.
InsertedOnce ==
    {"Instance();", "RegisterRegion(mass);", "Instance() {}", "RegisterRegion(mass) {}",
     "events_requested line", "table fallback", "rows from points", "dose backfill",
     "rows from deposits", "<utility>", "<filesystem>", "/run/setCut"}
    \cup {Includes[u] : u \in DOMAIN Includes}
Once(c) == IsABag(c) /\ \A f \in InsertedOnce : Copies(f, c) <= 1

\* The template and the agent write none of it twice, and the includes are no other rule's:
\* none is a spelling that a rule rewrites something to, or that needs an include itself.
ASSUME WritingAssumption ==
    /\ \A u \in DOMAIN Includes : Includes[u] \notin DOMAIN Includes \cup Rewrites
    /\ \A p \in Paths : Template[p] # Absent => Once(Template[p])
    /\ \A e \in Edits :
        /\ e.path \in Paths /\ Once(e.new)
        /\ e.old # None => \A f \in InsertedOnce : f = e.old \/ Copies(f, e.new) = 0

(* A file is post-processed each time the agent writes it, when the patch is read back *)
(* and again in every repair and continuation. However often that is, nothing is       *)
(* inserted twice, and what a patch uses after it, the spellings brought in by other    *)
(* rules included, is declared in it.                                                  *)
HardeningIsRepeatable ==
    \A tree \in {workspace.tree, memory.patch, attempt.tree, saved.patch, project} :
        \A p \in Paths : tree[p] # Absent =>
            /\ \A f \in BagToSet(tree[p]) \cap InsertedOnce : Copies(f, tree[p]) <= 1
            /\ tree # workspace.tree /\ tree # project /\ p \in Sources =>
                   Needed(tree[p]) \subseteq BagToSet(tree[p])

\* Something the deterministic gates must not let pass, by the phase that made it.
Defects ==
    LET f == validation.facts
        out == validation.out
        made(phase, bad) == IF bad THEN {phase} ELSE {}
    IN  made("context", f.context = "block_no_context")
        \cup made("task_planning", ~(f.spec /\ f.sources))
        \cup made("g4_modeling", f.ir # "valid" \/ f.flawed # {})
        \cup made("patch", f.proposed # "green")
        \cup made("g4_codegen",
                  \/ ~(f.structured /\ f.bounded)
                  \/ ~(f.geant4 /\ Builds(project) /\ Succeeds(project) /\ f.tests /\ f.smoke)
                  \/ ~Quality(out, Expected))

Weighed == at = "weighed"
Passes == Passed(validation.results)

(* The output package of the job is never cleared, and simulations started by hand  *)
(* run into it too. If gate validation passes, what the program must write itself   *)
(* was nevertheless written by the applied project and not by one before it, nor by *)
(* an executable that is older than the patch. The summary alone can be another's:   *)
(* it is then the run_summary.json that lies in the package, which the runner puts   *)
(* over what the applied project has written, whose ever it is.                      *)
FromRunSummary(out, o) ==
    /\ o = "summary" /\ out["run_summary.json"] # None
    /\ out[o].of = out["run_summary.json"].of
ValidatedIsOwn ==
    Weighed /\ Passes => \A o \in Outputs \ Derivable :
        validation.out[o].of = project \/ FromRunSummary(validation.out, o)

(* A job may arrive at the gates past a phase that failed, with artifacts of earlier *)
(* runs in its directories. It passes only if nothing any phase made is defective,  *)
(* whatever the model says of the outputs; and what fails is sent to a phase that    *)
(* made something defective, or to the report if only the outputs are in doubt.     *)
VerdictIsEarned ==
    Weighed =>
        /\ Passes => Defects = {}
        /\ ~Passes => RetryTarget(Failed(validation.results)) \in
                          IF Defects = {} THEN {"report"} ELSE Defects

ValidationIsSound == ValidatedIsOwn /\ VerdictIsEarned

===============================================================================
