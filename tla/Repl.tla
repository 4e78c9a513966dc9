--------------------------------- MODULE Repl ---------------------------------
(* The terminal REPL, a second driver of the pipeline on the same store.  It has *)
(* no routing and no retries: whatever a phase's node answers, "failed" too,     *)
(* completes the phase, and only an exception leaves the job where it was.  A    *)
(* job may be taken up in turn by the REPL and by the service of module          *)
(* Pipeline; one of them has it in memory at a time.                             *)
EXTENDS Pipeline

\* "repl rest": the REPL waits for a command; "repl step": /step runs one phase;
\* "repl auto": _auto_remaining runs them all.
AtRest == ctl = "repl rest" /\ state.job

\* The REPL's _persist_phase_state does not look at a repair that is awaited.
ReplPersist(s, i, c, asked) ==
    saved' = IF s.job
             THEN [state |-> s, idx |-> i, completed |-> c,
                   status |-> IF s.conf = "pending" THEN "paused" ELSE asked]
             ELSE saved

ModelingAnswers ==
    {[state EXCEPT !.modeling = "passed", !.hc = required] : required \in BOOLEAN} \cup
    {[state EXCEPT !.modeling = "failed", !.hc = required] : required \in BOOLEAN}
GateAnswers ==
    {[state EXCEPT !.validation = "passed", !.gate = NoGate]} \cup
    {[state EXCEPT !.validation = "failed", !.gate = g, !.retry = @ + 1] : g \in FailingGates}

\* What the nodes answer, merged into the state; the REPL does not build and run an
\* applied patch for its view.
NodeResults(p) ==
    CASE p = PrepareWorkspace -> {[state EXCEPT !.job = TRUE, !.retry = 0]}
      [] p = Context -> {state}
      [] p = TaskPlanning -> {[state EXCEPT !.failed = f] : f \in BOOLEAN}
      [] p = RequirementsReview ->
            {[state EXCEPT !.review = "approved", !.conf = "approved", !.hc = FALSE],
             [state EXCEPT !.review = "needs_user_input", !.conf = "pending", !.hc = TRUE]}
      [] p = Modeling -> ModelingAnswers
      [] p = Codegen ->
            {CodegenResult(r[1], r[2]) :
                r \in {<<"passed", FALSE>>, <<"passed", TRUE>>, <<"failed", FALSE>>,
                       <<"failed", TRUE>>, <<"needs_user_input", TRUE>>}}
      [] p = Patch ->
            {[state EXCEPT !.patch = "applied"],
             [state EXCEPT !.patch = "failed", !.codegen = "failed", !.patchRetry = @ + 1]}
      [] p = Gate -> GateAnswers
      [] p = Artifact -> {[state EXCEPT !.artifact = a] : a \in {"collected", "failed"}}
      [] p = Report -> {[state EXCEPT !.failed = (state.validation # "passed")]}

\* Variant: the phase is completed before the state it leaves is stored.
ReplPhase_StoresBefore ==
    /\ ctl \in {"repl step", "repl auto"} /\ idx < Finished
    /\ \E s \in NodeResults(idx) :
          /\ state' = s
          /\ idx' = idx + 1
          /\ completed' = completed \cup {idx}
          /\ ReplPersist(state, idx + 1, completed', "running")
          /\ ctl' = "repl rest"

\* _run_phase: a review that waits, and a model that asks for a confirmation, end the
\* automatic run.
ReplPhase ==
    /\ ctl \in {"repl step", "repl auto"} /\ idx < Finished
    /\ \E s \in NodeResults(idx) :
          LET waits == idx = RequirementsReview /\ s.review = "needs_user_input"
              c == IF waits THEN completed ELSE completed \cup {idx}
              i == IF waits THEN idx ELSE idx + 1
          IN  /\ state' = s
              /\ idx' = i
              /\ completed' = c
              /\ ReplPersist(s, i, c, IF idx = Report THEN "completed" ELSE "running")
              /\ ctl' = IF ctl = "repl step" \/ waits \/ i = Finished
                           \/ (idx = Modeling /\ s.hc)
                        THEN "repl rest" ELSE "repl auto"

ReplPhaseRaises ==
    /\ ctl \in {"repl step", "repl auto"} /\ idx < Finished
    /\ ctl' = "repl rest"
    /\ UNCHANGED <<state, idx, completed, saved>>

-------------------------------------------------------------------------------
\* /run, for the one job there is.
ReplRun ==
    /\ ctl = "new"
    /\ state' = Fresh
    /\ idx' = PrepareWorkspace
    /\ completed' = {}
    /\ ctl' = "repl auto"
    /\ UNCHANGED saved

ReplStep ==
    /\ AtRest /\ WithinBound /\ idx < Finished
    /\ ctl' = "repl step"
    /\ UNCHANGED <<state, idx, completed, saved>>

\* /confirm while the review waits: approving its questions, with edits or without,
\* approves the requirements; the job goes on with the modelling.  A question that is
\* rejected counts as edited, and rejecting a review without questions returns before
\* reject_requirements_review: nothing the REPL does rejects a review.
ReplApprove ==
    /\ AtRest /\ WithinBound /\ state.review = "needs_user_input"
    /\ state' = [state EXCEPT !.review = "approved", !.conf = "approved", !.hc = FALSE]
    /\ idx' = Modeling
    /\ completed' = completed \cup {RequirementsReview}
    /\ ReplPersist(state', Modeling, completed', "running")
    /\ ctl' = "repl auto"

\* /confirm at any other time runs the legacy confirmation, which is no phase of the
\* pipeline: its answer is merged, and looking up its index raises.
ReplLegacyConfirm ==
    /\ AtRest /\ state.review # "needs_user_input"
    /\ \E conf \in {"approved", "pending", "rejected", "failed"}, required \in BOOLEAN :
          state' = [state EXCEPT !.conf = conf, !.hc = required]
    /\ UNCHANGED <<idx, completed, saved, ctl>>

\* /resume takes the snapshot as it is.
ReplResume ==
    /\ ctl \in {"repl rest", "down"}
    /\ saved.status # "none"
    /\ state' = saved.state
    /\ idx' = saved.idx
    /\ completed' = saved.completed
    /\ ctl' = "repl rest"
    /\ UNCHANGED saved

\* /quit, or the process dies.
ReplEnds ==
    /\ ctl \in {"repl rest", "repl step", "repl auto"}
    /\ state' = Fresh
    /\ idx' = 0
    /\ completed' = {}
    /\ \/ UNCHANGED saved
       \/ /\ ctl = "repl auto" /\ idx = PrepareWorkspace /\ saved.status = "none"
          /\ saved' = [NoSnapshot EXCEPT !.state.job = TRUE, !.status = "running"]
    /\ ctl' = IF saved'.status = "none" THEN "new" ELSE "down"

ReplNext ==
    \/ ReplPhase
    \/ ReplPhaseRaises
    \/ ReplRun
    \/ ReplStep
    \/ ReplApprove
    \/ ReplLegacyConfirm
    \/ ReplResume
    \/ ReplEnds

\* A job driven by all front ends in turn.  A crash of the REPL is also a Crash: no other
\* action of the service is enabled while the REPL has the job.
AnyFrontEnd == Init /\ [][Next \/ ReplNext]_vars

-------------------------------------------------------------------------------
Resting == ctl \in {"idle", "routing", "repl rest"}

\* Whoever drove the job, when it rests or is about to be routed the store has what is
\* completed, the place a resume comes to and both retry counters: the next front end, or
\* the next restart, takes it up there and gives no retry back (run_phase and
\* _route_failed_gate of the service, _run_phase and cmd_confirm of the REPL).
RetriesSurvive ==
    Resting /\ state.job /\ saved.status # "none" =>
        /\ saved.state.retry = state.retry
        /\ saved.state.patchRetry = state.patchRetry
        /\ saved.completed = completed
        /\ ResumeIdx(saved.idx, saved.completed) = ResumeIdx(idx, completed)
===============================================================================
