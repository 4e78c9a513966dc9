------------------------------- MODULE Pipeline -------------------------------
(* One simulation job driven by RadAgentAppService: the ten-phase pipeline, the *)
(* loop that runs it until it blocks, single steps, the two human decisions     *)
(* (requirements review and repair continuation), the routing of rejected       *)
(* patches and failed gates, and the snapshot a restart resumes from.           *)
(*                                                                              *)
(* The service is sequential here: one call owns `state` at a time (module      *)
(* Workbench has the web server's two threads).  A phase is one step, because   *)
(* a crash inside it leaves only what the last snapshot holds.                  *)
EXTENDS Integers

CONSTANTS
    GateRetryLimit,    \* failed gate runs after which nothing is re-routed (5)
    PatchRetryLimit,   \* rejected patches after which nothing is re-routed (4)
    CounterBound,      \* bound: no user operation starts once a counter is past it
    FailingGates,      \* gate ids that may be the lowest failing one
    GuardedFrontEnd    \* TRUE: the TUI, which submits only what is awaited

ASSUME LimitsAssumption ==
    /\ GateRetryLimit \in Nat
    /\ PatchRetryLimit \in Nat
    /\ CounterBound \in Nat
    /\ FailingGates \subseteq 0..20
    /\ GuardedFrontEnd \in BOOLEAN

-------------------------------------------------------------------------------
\* PIPELINE_PHASES: a phase is its index.
PrepareWorkspace == 0
Context == 1
TaskPlanning == 2
RequirementsReview == 3
Modeling == 4
Codegen == 5
Patch == 6
Gate == 7
Artifact == 8
Report == 9
Phases == PrepareWorkspace..Report
Finished == Report + 1

NoGate == -1

VARIABLES
    state,      \* self.state: the flags the control flow reads
    idx,        \* self.current_phase_idx
    completed,  \* self.completed_phases, as a set of indices
    saved,      \* the newest snapshot with its job row
    ctl         \* which service call is in progress, if any

vars == <<state, idx, completed, saved, ctl>>

State ==
    [job : BOOLEAN,                 \* job_id is set
     review : {"none", "needs_user_input", "approved", "rejected"},
     hc : BOOLEAN,                  \* human_confirmation_required
     conf : {"none", "pending", "approved", "rejected", "failed"},
     modeling : {"none", "passed", "failed"},
     codegen : {"none", "passed", "failed", "needs_user_input"},
     request : {"none", "pending", "approved"},       \* continuation request
     answer : {"none", "pending", "approved", "rejected"}, \* and its status
     patch : {"none", "applied", "failed"},
     visual : {"none", "ready", "failed"},            \* auto_visualization_status
     validation : {"none", "passed", "failed"},
     gate : 0..20 \cup {NoGate},    \* lowest id in failed_gates
     patchRetry : Nat,
     retry : Nat,
     artifact : {"none", "collected", "failed"},
     failed : BOOLEAN]              \* termination_reason names a failure

Fresh ==
    [job |-> FALSE, review |-> "none", hc |-> FALSE, conf |-> "none",
     modeling |-> "none", codegen |-> "none", request |-> "none",
     answer |-> "none", patch |-> "none", visual |-> "none",
     validation |-> "none", gate |-> NoGate, patchRetry |-> 0, retry |-> 0,
     artifact |-> "none", failed |-> FALSE]

Snapshot ==
    [state : State, idx : 0..Finished, completed : SUBSET Phases,
     status : {"none", "running", "paused", "failed", "completed"}]

NoSnapshot ==
    [state |-> Fresh, idx |-> 0, completed |-> {}, status |-> "none"]

\* "new": no job yet; "down": the process died; "loop": run_until_blocked;
\* "step": one phase and back; "supplement": the review re-run after an answer;
\* "routing": the loop between a failed phase and _route_after_failed_phase.
Controls == {"new", "idle", "loop", "step", "supplement", "routing", "down"}

TypeOK ==
    /\ state \in State
    /\ idx \in 0..Finished
    /\ completed \subseteq Phases
    /\ saved \in Snapshot
    /\ ctl \in Controls

-------------------------------------------------------------------------------
ReviewPending(s) == s.review = "needs_user_input" /\ s.hc

RepairPending(s) == s.request = "pending" /\ s.answer \notin {"approved", "rejected"}

NeedsConfirmation(s) == ReviewPending(s) \/ RepairPending(s)

\* Variant: the repair pause is forgotten when a failure is persisted.
PersistedStatus_ReviewOnly(s, asked) ==
    IF s.conf = "pending" THEN "paused" ELSE asked

\* _persist_phase_state: the status a phase asks for, unless a decision is awaited.
PersistedStatus(s, asked) ==
    IF s.conf = "pending" \/ RepairPending(s) THEN "paused" ELSE asked

Persist(s, i, c, asked) ==
    saved' = IF s.job
             THEN [state |-> s, idx |-> i, completed |-> c,
                   status |-> PersistedStatus(s, asked)]
             ELSE saved

Running(p) ==
    /\ ctl \in {"loop", "step", "supplement"}
    /\ idx = p
    /\ ~(ctl = "loop" /\ p = RequirementsReview /\ ReviewPending(state))

\* The three ways run_phase returns.  s is self.state after the node's result
\* was merged into it.
Succeed(p, s) ==
    /\ state' = s
    /\ idx' = p + 1
    /\ completed' = completed \cup {p}
    /\ Persist(s, p + 1, completed \cup {p}, IF p = Report THEN "completed" ELSE "running")
    /\ ctl' \in CASE ctl = "loop" -> {"loop"}
                  [] ctl = "step" -> {"idle"}
                  [] ctl = "supplement" -> {"loop", "idle"}

Fail(p, s) ==
    LET t == [s EXCEPT !.failed = TRUE] IN
    /\ state' = t
    /\ Persist(t, idx, completed, "failed")
    /\ ctl' = IF ctl = "loop" /\ p \in {Patch, Gate} THEN "routing" ELSE "idle"
    /\ UNCHANGED <<idx, completed>>

Pause(s) ==
    /\ state' = s
    /\ Persist(s, idx, completed, "paused")
    /\ ctl' = "idle"
    /\ UNCHANGED <<idx, completed>>

\* An exception anywhere in the node: nothing of its result is merged.
PhaseRaises ==
    \E p \in Phases : Running(p) /\ Fail(p, state)

-------------------------------------------------------------------------------
RunPrepareWorkspace ==
    /\ Running(PrepareWorkspace)
    /\ Succeed(PrepareWorkspace, [state EXCEPT !.job = TRUE, !.retry = 0])

RunContext ==
    /\ Running(Context)
    /\ \/ Succeed(Context, state)
       \/ Fail(Context, state)                     \* block_no_context

RunTaskPlanning ==
    /\ Running(TaskPlanning)
    /\ \/ Succeed(TaskPlanning, [state EXCEPT !.failed = FALSE])
       \/ Fail(TaskPlanning, state)

\* Variant: the approval is not written into the state.
RunRequirementsReview_Unrecorded ==
    /\ Running(RequirementsReview)
    /\ Succeed(RequirementsReview, [state EXCEPT !.hc = FALSE])

\* Only the reviewing model's own pass approves; a user's answer makes it run again.
RunRequirementsReview ==
    /\ Running(RequirementsReview)
    /\ \/ Succeed(RequirementsReview,
                  [state EXCEPT !.review = "approved", !.conf = "approved", !.hc = FALSE])
       \/ Pause([state EXCEPT !.review = "needs_user_input", !.conf = "pending",
                              !.hc = TRUE])

RunModeling ==
    /\ Running(Modeling)
    /\ \E required \in BOOLEAN :
          \/ Succeed(Modeling, [state EXCEPT !.modeling = "passed", !.hc = required])
          \/ Fail(Modeling, [state EXCEPT !.modeling = "failed", !.hc = required])

\* The codegen subgraph clears an approved request before it continues; a request
\* it raises itself, or was given and never cleared, is still there on return.
CodegenResult(status, raised) ==
    LET kept == IF state.answer = "approved"
                THEN [state EXCEPT !.request = "none", !.answer = "none"] ELSE state
    IN  [kept EXCEPT !.codegen = status,
                     !.request = IF raised THEN "pending" ELSE @,
                     !.answer = IF raised THEN "pending" ELSE @]

RunCodegen ==
    /\ Running(Codegen)
    /\ \E raised \in BOOLEAN, status \in {"passed", "failed", "needs_user_input"} :
          LET s == CodegenResult(status, raised) IN
          /\ status = "needs_user_input" => raised
          /\ CASE status = "failed" -> Fail(Codegen, s)
               [] status # "failed" /\ RepairPending(s) -> Pause(s)
               [] status # "failed" /\ ~RepairPending(s) -> Succeed(Codegen, s)

\* The patch phase ends with the build and the 1000-event run for the 3D view,
\* skipped when an earlier view is still fresh.
PatchReady ==
    /\ Running(Patch)
    /\ Succeed(Patch, [state EXCEPT !.patch = "applied", !.visual = "ready"])

PatchRejected ==
    /\ Running(Patch)
    /\ Fail(Patch, [state EXCEPT !.patch = "failed", !.codegen = "failed",
                                 !.patchRetry = @ + 1])

PatchNotRunnable ==
    /\ Running(Patch)
    /\ Fail(Patch, [state EXCEPT !.patch = "failed", !.visual = "failed"])

GatePasses ==
    /\ Running(Gate)
    /\ Succeed(Gate, [state EXCEPT !.validation = "passed", !.gate = NoGate])

\* Variant: a failed gate run is not counted.
GateFails_Uncounted ==
    /\ Running(Gate)
    /\ \E g \in FailingGates :
          Fail(Gate, [state EXCEPT !.validation = "failed", !.gate = g])

GateFails ==
    /\ Running(Gate)
    /\ \E g \in FailingGates :
          Fail(Gate, [state EXCEPT !.validation = "failed", !.gate = g, !.retry = @ + 1])

RunArtifact ==
    /\ Running(Artifact)
    /\ \/ Succeed(Artifact, [state EXCEPT !.artifact = "collected"])
       \/ Fail(Artifact, [state EXCEPT !.artifact = "failed"])

\* The report replaces termination_reason: only a validated job is a success.
RunReport ==
    /\ Running(Report)
    /\ Succeed(Report, [state EXCEPT !.failed = (state.validation # "passed")])

-------------------------------------------------------------------------------
\* failure_classifier: the phase that repairs the lowest failing gate.
GateRetryTarget(g) ==
    CASE g = 0 -> Context
      [] g = 1 -> TaskPlanning
      [] g \in {2} \cup 12..16 -> Modeling
      [] g \in {3, 4, 10} -> Patch
      [] g \in (5..9) \cup {11, 17, 18} -> Codegen
      [] g = 19 -> RequirementsReview
      [] OTHER -> Report

\* route_after_gates.  A failure that left no failing gate (the node raised before
\* it ever answered) is taken for one of a retired gate and moves on.
GateRoute(s) ==
    IF s.validation # "passed" /\ s.gate = NoGate THEN Artifact
    ELSE IF s.validation = "passed" THEN Artifact
    ELSE IF s.retry >= GateRetryLimit THEN Report
    ELSE GateRetryTarget(s.gate)

\* Variant: the phases to run again stay completed.
RouteTo_KeepsCompleted(p, s) ==
    /\ state' = s
    /\ idx' = p
    /\ UNCHANGED completed
    /\ Persist(s, p, completed, "running")
    /\ ctl' = "loop"

RouteTo(p, s) ==
    LET c == {q \in completed : q < p} IN
    /\ state' = s
    /\ idx' = p
    /\ completed' = c
    /\ Persist(s, p, c, "running")
    /\ ctl' = "loop"

StopRouting ==
    /\ ctl' = "idle"
    /\ UNCHANGED <<state, idx, completed, saved>>

\* Variant: the failure is cleared before it is known whether to retry.
RouteFailedPatch_ClearsFirst ==
    /\ ctl = "routing" /\ idx = Patch
    /\ state' = [state EXCEPT !.failed = FALSE]
    /\ ctl' = "idle"
    /\ UNCHANGED <<idx, completed, saved>>

RouteFailedPatch ==
    /\ ctl = "routing" /\ idx = Patch
    /\ IF state.patch # "applied" /\ state.patchRetry < PatchRetryLimit
       THEN RouteTo(Codegen, [state EXCEPT !.failed = FALSE, !.codegen = "failed"])
       ELSE StopRouting

RouteFailedGate ==
    /\ ctl = "routing" /\ idx = Gate
    /\ IF GateRoute(state) = Report \/ state.retry >= GateRetryLimit
       THEN StopRouting
       ELSE RouteTo(GateRoute(state), [state EXCEPT !.failed = FALSE])

\* run_until_blocked returns without running anything.
LoopReturns ==
    /\ ctl = "loop"
    /\ \/ idx = Finished
       \/ idx = RequirementsReview /\ ReviewPending(state)
    /\ ctl' = "idle"
    /\ UNCHANGED <<state, idx, completed, saved>>

-------------------------------------------------------------------------------
WithinBound == state.retry <= CounterBound /\ state.patchRetry <= CounterBound

StartJob ==
    /\ ctl = "new"
    /\ state' = Fresh
    /\ idx' = PrepareWorkspace
    /\ completed' = {}
    /\ ctl' \in {"loop", "step"}
    /\ UNCHANGED saved

Step ==
    /\ ctl = "idle"
    /\ WithinBound
    /\ ~RepairPending(state)
    /\ idx < Finished
    /\ ctl' = "step"
    /\ UNCHANGED <<state, idx, completed, saved>>

\* A request is decided: anything but an approval rejects it.  The approval is
\* not persisted until the phase it restarts is.
ApproveRepair ==
    /\ ctl = "idle" /\ state.job
    /\ RepairPending(state)
    /\ state' = [state EXCEPT !.answer = "approved", !.request = "approved",
                              !.codegen = "none", !.failed = FALSE]
    /\ idx' = Codegen
    /\ completed' = completed \ {Codegen}
    /\ ctl' = "loop"
    /\ UNCHANGED saved

RejectRepair ==
    /\ ctl = "idle" /\ state.job
    /\ RepairPending(state)
    /\ LET s == [state EXCEPT !.answer = "rejected", !.failed = TRUE] IN
       /\ state' = s
       /\ Persist(s, idx, completed, "failed")
    /\ UNCHANGED <<idx, completed, ctl>>

\* Variant: an answer is an approval.
AnswerReview_Approves ==
    /\ ctl = "idle" /\ state.job
    /\ ReviewPending(state)
    /\ idx' = Modeling
    /\ completed' = completed \cup {RequirementsReview}
    /\ ctl' = "loop"
    /\ UNCHANGED <<state, saved>>

AnswerReview ==
    /\ ctl = "idle" /\ state.job
    /\ ~RepairPending(state)
    /\ ReviewPending(state)
    /\ state' = [state EXCEPT !.review = "needs_user_input", !.conf = "pending",
                              !.hc = TRUE, !.failed = FALSE]
    /\ idx' = RequirementsReview
    /\ ctl' = "supplement"
    /\ UNCHANGED <<completed, saved>>

RejectReview ==
    /\ ctl = "idle" /\ state.job
    /\ ~RepairPending(state)
    /\ ReviewPending(state)
    /\ LET s == [state EXCEPT !.review = "rejected", !.conf = "rejected",
                              !.hc = FALSE, !.failed = TRUE] IN
       /\ state' = s
       /\ Persist(s, idx, completed, "failed")
    /\ UNCHANGED <<idx, completed, ctl>>

\* submit_confirmation with nothing awaited: only a front end without the TUI's
\* guard gets here.  It ends in the legacy confirmation subgraph.
Unsolicited ==
    /\ ~GuardedFrontEnd
    /\ ctl = "idle" /\ state.job
    /\ ~NeedsConfirmation(state)

ApproveAfterFailedModeling ==
    /\ Unsolicited
    /\ state.modeling = "failed"
    /\ LET s == [state EXCEPT !.failed = TRUE] IN
       /\ state' = s
       /\ idx' = RequirementsReview
       /\ Persist(s, RequirementsReview, completed, "failed")
    /\ UNCHANGED <<completed, ctl>>

LegacyConfirmation ==
    /\ Unsolicited
    /\ WithinBound
    /\ \/ \E conf \in {"approved", "pending", "rejected", "failed"}, required \in BOOLEAN :
            LET s == [state EXCEPT !.conf = conf, !.hc = required] IN
            /\ state' = s
            /\ idx' = Codegen
            /\ Persist(s, Codegen, completed, "running")
            /\ ctl' \in {"loop", "idle"}
            /\ UNCHANGED completed
       \/ LET s == [state EXCEPT !.failed = TRUE] IN
            /\ state' = s
            /\ Persist(s, idx, completed, "failed")
            /\ ctl' \in {"loop", "idle"}
            /\ UNCHANGED <<idx, completed>>

-------------------------------------------------------------------------------
\* _normalize_resumed_progress: never behind the furthest completed phase, and a
\* completed phase has its success status whatever the snapshot says.
ResumeIdx(i, c) ==
    CHOOSE n \in 0..Finished :
        /\ n >= i
        /\ \A p \in c : n > p
        /\ n = i \/ n - 1 \in c

\* Variant: an applied patch counts as validated.
ResumeState_PatchValidates(s, c) ==
    [s EXCEPT !.validation = IF Patch \in c THEN "passed" ELSE @]

ResumeState(s, c) ==
    [s EXCEPT !.codegen = IF Codegen \in c THEN "passed" ELSE @,
              !.patch = IF Patch \in c THEN "applied" ELSE @,
              !.validation = IF Gate \in c THEN "passed" ELSE @,
              !.artifact = IF Artifact \in c THEN "collected" ELSE @]

Load(s) ==
    /\ saved.status # "none"
    /\ state' = s
    /\ idx' = ResumeIdx(saved.idx, saved.completed)
    /\ completed' = saved.completed
    /\ UNCHANGED saved

ResumeJob ==
    /\ ctl \in {"idle", "down"}
    /\ Load(ResumeState(saved.state, saved.completed))
    /\ ctl' = "idle"

\* resume_job(clear_failure) and the continuation that follows it.
RetryJob ==
    /\ ctl \in {"idle", "down"}
    /\ saved.state.retry <= CounterBound /\ saved.state.patchRetry <= CounterBound
    /\ Load([ResumeState(saved.state, saved.completed) EXCEPT !.failed = FALSE])
    /\ ctl' = "loop"

\* Memory is gone.  A job being prepared may already have its row, which resumes
\* as a job that has done nothing; a job with neither row nor snapshot is lost.
Crash ==
    /\ ctl \notin {"new", "down"}
    /\ state' = Fresh
    /\ idx' = 0
    /\ completed' = {}
    /\ \/ UNCHANGED saved
       \/ /\ ctl \in {"loop", "step"} /\ idx = PrepareWorkspace /\ saved.status = "none"
          /\ saved' = [NoSnapshot EXCEPT !.state.job = TRUE, !.status = "running"]
    /\ ctl' = IF saved'.status = "none" THEN "new" ELSE "down"

-------------------------------------------------------------------------------
Init ==
    /\ state = Fresh
    /\ idx = 0
    /\ completed = {}
    /\ saved = NoSnapshot
    /\ ctl = "new"

\* What the running call does by itself.
RunPhase ==
    \/ RunPrepareWorkspace
    \/ RunContext
    \/ RunTaskPlanning
    \/ RunRequirementsReview
    \/ RunModeling
    \/ RunCodegen
    \/ PatchReady
    \/ PatchRejected
    \/ PatchNotRunnable
    \/ GatePasses
    \/ GateFails
    \/ RunArtifact
    \/ RunReport
    \/ PhaseRaises

Progress ==
    \/ RunPhase
    \/ RouteFailedPatch
    \/ RouteFailedGate
    \/ LoopReturns

\* What a user, or the machine, does to it.
Operation ==
    \/ StartJob
    \/ Step
    \/ ApproveRepair
    \/ RejectRepair
    \/ AnswerReview
    \/ RejectReview
    \/ ApproveAfterFailedModeling
    \/ LegacyConfirmation
    \/ ResumeJob
    \/ RetryJob

Next == Progress \/ Operation \/ Crash

Spec == Init /\ [][Next]_vars

\* A call in progress goes on: every node returns or raises, and the loop takes up
\* the next one.  Nothing is assumed of what a node answers, nor of the user.
FairSpec == Spec /\ WF_vars(Progress)
===============================================================================
