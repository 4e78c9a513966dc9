--------------------------------- MODULE Gates ---------------------------------
(* The gate validation subgraph: which status each gate gets, what the job's        *)
(* validation status is, and which phase a failed validation is sent back to.       *)
(* The nodes run in the order base, modeling, credibility, finalize; each adds its  *)
(* gates to the results. Results map the ids of the gates run so far to a status.   *)
(*                                                                               *)
(* Facts are what the gates read besides the output directory. An approval may     *)
(* move a job to code generation from any earlier phase, so every earlier product   *)
(* can be missing or bad here. Gate 10 has no benchmark to compare with.            *)
EXTENDS OutputContract

Verdicts == {"plausible", "uncertain", "unavailable", "conflicting", "invalid"}

Facts ==
    [context : {"allow_rag", "allow_with_web_supplement", "block_no_context"},
     spec : BOOLEAN,        \* task_spec.json satisfies the schema
     sources : BOOLEAN,     \* every artifact of a declared external source is there
     ir : {"none", "invalid", "valid"},
     flawed : SUBSET (12 .. 16), \* validators that reject the model
     proposed : {"green", "red", "unreadable"}, \* proposed_patch.json
     structured : BOOLEAN,  \* CMakeLists.txt, src, include, the required classes
     geant4 : BOOLEAN,      \* a Geant4 environment is there
     tests : BOOLEAN,       \* ctest passes
     smoke : BOOLEAN,       \* the run ends well and its stderr is clean
     bounded : BOOLEAN,     \* headers included, no mutable statics
     named : BOOLEAN,       \* no magic numbers
     records : {"consistent", "unreadable", "conflicting"}, \* summary and provenance
     assessor : Verdicts]   \* what the model says of the outputs, if it is asked

Sound ==
    [context |-> "allow_rag", spec |-> TRUE, sources |-> TRUE, ir |-> "valid",
     flawed |-> {}, proposed |-> "green", structured |-> TRUE, geant4 |-> TRUE,
     tests |-> TRUE, smoke |-> TRUE, bounded |-> TRUE, named |-> TRUE,
     records |-> "consistent", assessor |-> "plausible"]

NoResults == [g \in {} |-> "skipped"]
PassIf(cond) == IF cond THEN "pass" ELSE "fail"
With(results, more) ==
    [g \in DOMAIN results \cup DOMAIN more |->
        IF g \in DOMAIN more THEN more[g] ELSE results[g]]

-------------------------------------------------------------------------------
\* Gate 0. A decision the gate does not know passes it.
ContextGate(f) ==
    CASE f.context = "block_no_context" -> "block"
      [] f.context = "allow_with_web_supplement" -> "warning"
      [] OTHER -> "pass"

\* Gate 1: the schema, and the artifacts of the sources the task spec declares.
TaskSpecGate(f) == PassIf(f.spec /\ f.sources)

\* Gate 2.
ModelIRGate(f) == PassIf(f.ir = "valid")

\* Gates 3 and 4, the patch: apply_patch leaves a record that lists no contents, so the zones
\* are those of the proposed patch.
PermissionGate(f) == PassIf(f.proposed = "green")

\* Gate 5.
StructureGate(f) == PassIf(f.structured)

\* The smoke run the build gate makes: without Geant4 nothing runs.
Ran(f, tree) == f.geant4 /\ Builds(tree)

\* Gates 7 and 9 read what the last smoke run that built has recorded.
Recorded(f, tree, recorded) ==
    IF Ran(f, tree) THEN [tests |-> f.tests, smoke |-> f.smoke /\ Succeeds(tree)]
    ELSE recorded
NoRecord == [tests |-> FALSE, smoke |-> FALSE]

\* Gate 11 looks at the mesh and event tables only.
PhysicsGate(out, recorded, n) ==
    PassIf(Tabulated(out, n) /\ recorded.smoke)

BaseGates(f, tree, out, recorded, n) ==
    [g \in 0 .. 11 |->
        CASE g = 0 -> ContextGate(f)
          [] g = 1 -> TaskSpecGate(f)
          [] g = 2 -> ModelIRGate(f)
          [] g = 3 -> "pass"
          [] g = 4 -> PermissionGate(f)
          [] g = 5 -> StructureGate(f)
          [] g = 6 -> PassIf(Ran(f, tree) /\ f.tests /\ f.smoke /\ Succeeds(tree))
          [] g = 7 -> PassIf(recorded.tests)
          [] g = 8 -> PassIf(Quality(out, n))
          [] g = 9 -> PassIf(recorded.smoke)
          [] g = 10 -> "skipped"
          [] g = 11 -> PhysicsGate(out, recorded, n)]

-------------------------------------------------------------------------------
\* Gates 12 to 16 need a model to look at. The confirmation gate 19 is handed a
\* state without the confirmation's fields and takes that for "not required".
BoundaryGate(f) == PassIf(f.bounded)
MagicNumberGate(f) == IF f.named THEN "pass" ELSE "warning"
ConfirmationGate == "pass"

ModelingGates(f) ==
    CASE f.ir = "none" -> NoResults
      [] f.ir = "invalid" -> [g \in 12 .. 19 |-> "fail"]
      [] OTHER ->
           [g \in 12 .. 19 |->
               CASE g <= 16 -> PassIf(g \notin f.flawed)
                 [] g = 17 -> BoundaryGate(f)
                 [] g = 18 -> MagicNumberGate(f)
                 [] g = 19 -> ConfirmationGate]

-------------------------------------------------------------------------------
Critical(g) == g \notin {10, 18}
\* Variant: a blocked gate is not counted as failed.
Failed_NotBlocked(results) == {g \in DOMAIN results : results[g] = "fail"}
Failed(results) == {g \in DOMAIN results : results[g] \in {"fail", "block"}}

\* _deterministic_assessment. It does not know how many events were asked for: the
\* summary's own number stands in.
OutputsVerdict(f, out) ==
    CASE out = NoOutput -> "unavailable"
      [] f.records = "unreadable" -> "invalid"
      [] ~Complete(out) -> "invalid"
      [] ~Quality(out, out["summary"].n) -> "invalid"
      [] f.records = "conflicting" -> "conflicting"
      [] OTHER -> "plausible"

StatusOf(verdict) ==
    CASE verdict = "plausible" -> "pass"
      [] verdict = "conflicting" -> "fail"
      [] verdict = "invalid" -> "block"
      [] OTHER -> "warning"

\* Only plausible artifacts are put before the model, whose word then decides; a
\* call that fails or an answer that cannot be read is "unavailable".
Assessed(f, verdict) == IF verdict = "plausible" THEN f.assessor ELSE verdict

\* Gate 20: an earlier critical failure takes precedence over both.
PriorFailure(results) == \E g \in Failed(results) : Critical(g)
CredibilityGate(f, out, results) ==
    IF PriorFailure(results) THEN "warning"
    ELSE StatusOf(Assessed(f, OutputsVerdict(f, out)))

-------------------------------------------------------------------------------
\* compute_validation_status.
Passed(results) ==
    /\ Failed(results) = {}
    /\ \A g \in DOMAIN results : results[g] = "skipped" => ~Critical(g)

\* classify_failure: the lowest failed gate names the phase.
Lowest(ids) == CHOOSE g \in ids : \A h \in ids : g <= h
RetryTarget(ids) ==
    IF ids = {} THEN "report"
    ELSE LET g == Lowest(ids) IN
         CASE g = 0 -> "context"
           [] g = 1 -> "task_planning"
           [] g = 2 \/ g \in 12 .. 16 -> "g4_modeling"
           [] g \in {3, 4, 10} -> "patch"
           [] g \in {5, 6, 7, 8, 9, 11, 17, 18} -> "g4_codegen"
           [] g = 19 -> "requirements_review"
           [] OTHER -> "report"

===============================================================================
