-------------------------- MODULE PipelineProperties --------------------------
(* What the pipeline of module Pipeline promises: to the user who must agree to *)
(* the requirements, to the user who comes back after a restart, and to whoever *)
(* reads the stored job.                                                        *)
EXTENDS Pipeline

-------------------------------------------------------------------------------
(* What the user is shown of a job: its status, the review of the decision that *)
(* is awaited, the diagnosis with the actions it offers, and what the copilot is *)
(* told.  Each is worked out anew from the same flags, in an order of its own;   *)
(* submit_confirmation has another one.                                         *)

ModelingFailed(s) == s.modeling = "failed"

\* get_status: a failure hides everything else, a decision hides how far the job is.
StatusShown(s, i) ==
    CASE ~s.job -> "idle"
      [] s.job /\ s.failed -> "failed"
      [] s.job /\ ~s.failed /\ (s.conf = "pending" \/ NeedsConfirmation(s)) -> "paused"
      [] s.job /\ ~s.failed /\ s.conf # "pending" /\ ~NeedsConfirmation(s) ->
             IF i = Finished THEN "completed" ELSE "running"

\* The reviews get_confirmation_review renders.  Of a repair nothing says whether it can be
\* decided, and its status, pending, is taken for a yes; the review of the confirmed plan
\* says so as long as its confirmation is open.
ReviewOfRequirements == [of |-> "requirements", actionable |-> TRUE]
ReviewOfRepair == [of |-> "repair", actionable |-> TRUE]
ReviewOfModeling == [of |-> "modeling", actionable |-> FALSE]
ReviewOfPlan(s) ==
    [of |-> "plan",
     actionable |-> s.conf \notin {"approved", "rejected", "failed"}
                    /\ (s.hc \/ s.conf = "pending")]

ReviewShown(s) ==
    CASE s.review = "needs_user_input" -> ReviewOfRequirements
      [] s.review # "needs_user_input" /\ ModelingFailed(s) -> ReviewOfModeling
      [] s.review # "needs_user_input" /\ ~ModelingFailed(s) /\ RepairPending(s) -> ReviewOfRepair
      [] OTHER -> ReviewOfPlan(s)

\* _deterministic_workflow_diagnosis; the model that rewords it may change no rule.
DiagnosedModeling == [ui |-> "modeling", actionable |-> FALSE, offers |-> {"retry"}]
DiagnosedCodegen == [ui |-> "codegen", actionable |-> FALSE, offers |-> {"retry"}]
DiagnosedRepair ==
    [ui |-> "repair", actionable |-> TRUE, offers |-> {"approve_repair", "reject_repair"}]
DiagnosedRequirements ==
    [ui |-> "requirements", actionable |-> TRUE,
     offers |-> {"answer_review", "reject_review"}]
DiagnosedStatus(status) == [ui |-> status, actionable |-> FALSE, offers |-> {}]

Diagnosis(s, i) ==
    CASE ModelingFailed(s) -> DiagnosedModeling
      [] ~ModelingFailed(s) /\ s.codegen = "failed" /\ ~RepairPending(s) -> DiagnosedCodegen
      [] ~ModelingFailed(s) /\ RepairPending(s) -> DiagnosedRepair
      [] ~ModelingFailed(s) /\ s.codegen # "failed" /\ ~RepairPending(s) /\ ReviewPending(s) ->
             DiagnosedRequirements
      [] OTHER -> DiagnosedStatus(StatusShown(s, i))

\* build_workflow_context: what the copilot is reminded of beside the status.
Reminders(s) ==
    {"status"} \cup (IF NeedsConfirmation(s) THEN {"confirmation_pending"} ELSE {})
               \cup (IF s.gate # NoGate THEN {"failed_gates"} ELSE {})

\* The copilot answers a few words without a model, from the same sources; everything else
\* is the chat's, or a simulation to be briefed (module Console).
CopilotAnswers(s, i) ==
    [status |-> StatusShown(s, i), decide |-> NeedsConfirmation(s),
     failing |-> s.gate # NoGate, memory |-> Reminders(s), confirmation |-> ReviewShown(s).of]

\* The decision submit_confirmation would take a response for.
Submitted(s) ==
    CASE RepairPending(s) -> "repair"
      [] ~RepairPending(s) /\ ReviewPending(s) -> "requirements"
      [] OTHER -> "none"

-------------------------------------------------------------------------------
(* The properties.                                                               *)
\* Modelling and everything after it run only on requirements the review approved,
\* and code generation only on a model that passed, on the job in memory and on
\* the one a restart would load, whatever gates, crashes and retries came between
\* (route_after_requirements_review, run_phase).
AgreedFor(s, i) ==
    /\ i > RequirementsReview => s.review = "approved"
    /\ i > Modeling => s.modeling = "passed"

AgreedBeforeBuilt == AgreedFor(state, idx) /\ AgreedFor(saved.state, saved.idx)

\* completed_phases is what lies behind the current phase, with at most the gate
\* phase missing: re-routing forgets the phases it will run again, and no resume
\* can jump over one (run_phase, _route_failed_patch, _route_failed_gate).
PrefixFor(c, i) ==
    /\ \A p \in c : p < i
    /\ \A p \in Phases : p < i /\ p # Gate => p \in c

ProgressIsPrefix == PrefixFor(completed, idx) /\ PrefixFor(saved.completed, saved.idx)

\* Past the gate phase, that phase is listed as completed exactly when the gates
\* passed, so _normalize_resumed_progress never turns an unvalidated job into a
\* validated one, and the code then is the code that was applied and run.
ValidatedFor(s, c, i) ==
    /\ i > Gate => (Gate \in c <=> s.validation = "passed")
    /\ i > Patch => s.patch = "applied" /\ s.visual = "ready"

ValidationIsRecorded ==
    /\ ValidatedFor(state, completed, idx)
    /\ ValidatedFor(saved.state, saved.completed, saved.idx)

\* A decision is awaited only at the phase it belongs to: nothing later runs while
\* the review or a repair continuation waits (submit_confirmation,
\* submit_repair_continuation and the pauses of run_phase).
AwaitedAtItsPhase ==
    /\ ReviewPending(state) => idx = RequirementsReview
    /\ RepairPending(state) => idx = Codegen

\* What every front end and every restart goes by when it shows where a job is or
\* takes it up again: the pieces of progress fit together.
JobInOrder == TypeOK /\ ProgressIsPrefix /\ AwaitedAtItsPhase

\* When the service is at rest and awaits a decision, a restart at this moment
\* awaits the same decision at the same place, and every front end lists the job
\* as paused (_persist_phase_state, resume_job).
AwaitingIsDurable ==
    ctl = "idle" /\ NeedsConfirmation(state) =>
        /\ saved.status = "paused"
        /\ saved.idx = idx /\ saved.completed = completed
        /\ ReviewPending(saved.state) <=> ReviewPending(state)
        /\ RepairPending(saved.state) <=> RepairPending(state)

\* The converse: a job stored as paused waits for a decision the user can make.
PausedMeansAwaiting == saved.status = "paused" => NeedsConfirmation(saved.state)

\* What is shown is what is decided: the review on the screen is of the decision that a
\* response would be taken for, it and the diagnosis offer one exactly when one is awaited,
\* and the copilot is told of it (get_confirmation_review, get_workflow_diagnosis,
\* build_workflow_context, submit_confirmation).
ShownIsDecided(s, i) ==
    LET d == Diagnosis(s, i) IN
    /\ Submitted(s) # "none" => ReviewShown(s).of = Submitted(s) /\ d.ui = Submitted(s)
    /\ d.actionable <=> NeedsConfirmation(s)
    /\ ReviewShown(s).actionable => NeedsConfirmation(s)
    /\ StatusShown(s, i) = "paused" => NeedsConfirmation(s)
    /\ "confirmation_pending" \in Reminders(s) <=> NeedsConfirmation(s)
    /\ CopilotAnswers(s, i).decide => CopilotAnswers(s, i).confirmation = Submitted(s)

\* So neither side loses a decision: what is awaited can be resumed, what is listed as
\* paused can be answered, and what is shown at rest or after a restart is what is awaited.
DecisionsSurvive ==
    /\ AwaitingIsDurable
    /\ PausedMeansAwaiting
    /\ ctl = "idle" => ShownIsDecided(state, idx)
    /\ saved.status # "none" => ShownIsDecided(saved.state, saved.idx)

\* The loop never stops silently: the job is finished, waits for a decision, or
\* says why it failed (run_until_blocked, _route_after_failed_phase).
LoopReturn == ctl \in {"loop", "routing"} /\ ctl' = "idle"

LoopReturnExplained ==
    [][LoopReturn => (idx = Finished \/ NeedsConfirmation(state) \/ state.failed)']_vars

\* The failures the loop routes back without counting them: an applied patch whose build
\* or run fails (_prepare_browser_visualization_after_patch says no more than "failed"), and
\* a patch or gate node that raises.
UncountedRetry == PatchNotRunnable \/ (idx \in {Patch, Gate} /\ PhaseRaises)

\* run_until_blocked returns, unless the same uncounted failure comes back for ever:
\* rejected patches and failed gates use up retries however they take turns with one
\* another and with uncounted ones, and the counters survive every restart, so no other
\* re-routing goes on for ever, whatever the nodes answer.
LoopTerminates ==
    \/ ctl \in {"loop", "routing"} ~> ctl \in {"idle", "down", "new"}
    \/ []<><<UncountedRetry>>_vars

-------------------------------------------------------------------------------
\* The stored job fulfils the contract every front end relies on.
Contract == INSTANCE JobContract WITH
    stage <- CASE saved.idx <= RequirementsReview -> "intake"
               [] saved.idx = Modeling -> "model"
               [] saved.idx \in {Codegen, Patch} -> "build"
               [] saved.idx = Gate -> "test"
               [] saved.idx \in {Artifact, Report} -> "wrapup"
               [] saved.idx = Finished -> "closed",
    agreed <- saved.state.review = "approved",
    validated <- saved.idx > Gate /\ saved.state.validation = "passed"

\* Every stored step is a step of the contract, whatever crashes in between.
FulfilsContract == Contract!Spec
===============================================================================
