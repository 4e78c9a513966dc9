----------------------------- MODULE CodegenRepair -----------------------------
(* The code generation subgraph: the project agent writes and tests a Geant4     *)
(* project, a runtime audit and a physics review judge it, and what they reject  *)
(* goes back to the agent a limited number of times.  When the agent runs out of *)
(* turns, or the judges out of patience, the user is asked for a continuation.   *)
(*                                                                               *)
(* `call` is the state of the subgraph while the service runs the phase, `job`   *)
(* what the service keeps of it between two runs.  What rejected the code, in    *)
(* this call or since the last one, is what the agent is told first.             *)
EXTENDS Judges

CONSTANTS
    RouteLimit,       \* AUDIT_REPAIR_ROUTE_LIMIT (2)
    DefaultTurns,     \* DEFAULT_PROJECT_AGENT_MAX_TURNS (64)
    Increment,        \* AGENTIC_/AUDIT_REPAIR_CONTINUATION_INCREMENT_TURNS (12)
    RecursionLimit,   \* LangGraph's default recursion limit (25)
    TurnBound         \* bound: no approval of a request for more turns

ASSUME BudgetAssumption ==
    /\ RouteLimit \in Nat \ {0}
    /\ DefaultTurns \in Nat \ {0}
    /\ Increment \in Nat \ {0}
    /\ RecursionLimit \in Nat \ {0}
    /\ TurnBound \in Nat

VARIABLES
    node,     \* the next node of the subgraph, "idle" when no call runs
    call,     \* the subgraph's state
    job,      \* the service's state, as far as the subgraph sees it
    seen      \* history: what this call has observed

vars == <<node, call, job, seen>>

Nodes == {"load", "continue", "plan", "agent", "audit", "review", "persist"}

\* The planning chain, build_codegen_plan to build_interface_contracts.
PlanningNodes == 6

\* Who rejects code, "none" for no complaint.
Complaints == {"patch", "gates", "audit", "review"}

Job ==
    [complaint : {"none", "patch"},             \* runtime_failure_context
     gates : {"none", "passed", "failed"},      \* what gate_results_path says
     audited : BOOLEAN,                         \* there is a runtime_execution_audit.json
     status : {"none", "passed", "failed", "needs_user_input"},
     request : {"none", "pending", "approved"},
     answer : {"none", "pending", "approved", "rejected"},
     total : Nat,            \* requested_total_turns of the request
     override : Nat]         \* agentic_repair_max_turns_override, 0 when unset

Call ==
    [report : {"none", "passed", "failed", "exhausted"},
     turns : Nat,
     audit : {"none", "pass", "fail", "blocked"},
     review : {"none", "pass", "revise", "needs_user_input"},
     audits : Nat,           \* runtime_audit_repair_attempts
     reviews : Nat,          \* physics_review_repair_attempts
     request : {"none", "pending", "approved"},
     answer : {"none", "pending", "approved", "rejected"},
     total : Nat,
     told : Complaints \cup {"none"},            \* runtime_failure_context,
     history : SUBSET Complaints,                \* and what it replaced
     steps : 0..RecursionLimit]

NewJob == [complaint |-> "none", gates |-> "none", audited |-> FALSE, status |-> "none",
           request |-> "none", answer |-> "none", total |-> 0, override |-> 0]

\* A rejected patch comes before failed gates, however long it is ago.
Complaint(j) == IF j.complaint = "patch" THEN "patch"
                ELSE IF j.gates = "failed" THEN "gates" ELSE "none"

NewCall(j) ==
    [report |-> "none", turns |-> 0, audit |-> "none", review |-> "none",
     audits |-> 0, reviews |-> 0, request |-> j.request, answer |-> j.answer,
     total |-> j.total, told |-> Complaint(j), history |-> {}, steps |-> 0]

NoCall == NewCall(NewJob)

\* What this call has seen: an exhausted agent run, a continuation, the rejections of
\* its projects and the last of them; of its present project the judgements that it
\* passed, whether its counts of events agree, whether the reviewer named a defect
\* that the agent could mend, and the prompt the reviewer was given.
NothingShown == [size |-> 0, files |-> <<>>]

Seen == [exhausted : BOOLEAN, continued : BOOLEAN, rejections : SUBSET {"audit", "review"},
         last : {"none", "audit", "review"},
         passed : SUBSET {"gate", "audit", "review"}, agreed : BOOLEAN, defect : BOOLEAN,
         shown : Prompts \cup {NothingShown}]

NothingSeen == [exhausted |-> FALSE, continued |-> FALSE, rejections |-> {}, last |-> "none",
                passed |-> {}, agreed |-> FALSE, defect |-> FALSE, shown |-> NothingShown]

TypeOK ==
    /\ node \in Nodes \cup {"idle"}
    /\ call \in Call
    /\ job \in Job
    /\ seen \in Seen

-------------------------------------------------------------------------------
Budget == IF job.override > 0 THEN job.override ELSE DefaultTurns

\* The turns a continuation request counts from.
LatestTurns == IF call.turns > 0 THEN call.turns ELSE Budget

\* A node runs if the recursion limit lets it; n nodes in one step for a chain.
Takes(n, c) == /\ call.steps + n <= RecursionLimit
               /\ call' = [c EXCEPT !.steps = call.steps + n]

At(n) == node = n /\ UNCHANGED job

\* Variant: the first failure stays the primary one.
Rejected_FirstStays(c, by) ==
    [c EXCEPT !.told = IF @ = "none" THEN by ELSE @,
              !.history = IF c.told = "none" THEN @ ELSE @ \cup {by}]

\* _merge_runtime_failure_context: the newest failure first, those before it as history.
Rejected(c, by) ==
    [c EXCEPT !.told = by,
              !.history = IF c.told = "none" THEN @ ELSE @ \cup {c.told}]

Rejects(by) == [seen EXCEPT !.last = by, !.rejections = @ \cup {by}]

\* The service runs the phase, again when it is routed back or retried.
Generate ==
    /\ node = "idle"
    /\ node' = "load"
    /\ call' = NewCall(job)
    /\ seen' = NothingSeen
    /\ UNCHANGED job

LoadModelIr ==
    /\ At("load")
    /\ Takes(1, call)
    /\ node' = IF call.answer = "approved" /\ job.override > 0 THEN "continue" ELSE "plan"
    /\ UNCHANGED seen

Plan ==
    /\ At("plan")
    /\ Takes(PlanningNodes, call)
    /\ node' = "agent"
    /\ UNCHANGED seen

\* One run of the project agent: it passes the runtime gate, or fails it having
\* stopped by itself or having used its turns up, and discards the judgements on
\* the project it replaces.
AgentRun(c) ==
    /\ \E outcome \in {"passed", "failed", "exhausted"}, used \in {0, 1, Budget} :
          /\ outcome = "exhausted" => used = Budget
          /\ outcome = "passed" => used > 0
          /\ Takes(1, [c EXCEPT !.report = outcome, !.turns = used,
                                !.audit = "none", !.review = "none"])
          /\ seen' = [seen EXCEPT !.exhausted = @ \/ (outcome = "exhausted"),
                                  !.passed = IF outcome = "passed" THEN {"gate"} ELSE {},
                                  !.agreed = FALSE, !.defect = FALSE, !.shown = NothingShown,
                                  !.continued = @ \/ (node = "continue")]

ProjectAgent ==
    /\ At("agent")
    /\ AgentRun(call)
    /\ node' = "audit"

\* What the agent is told: a continuing one without a complaint gets the last audit on
\* disk, even one that passed.
Told == IF node = "continue" /\ call.told = "none" /\ job.audited THEN "audit" ELSE call.told

\* The approved continuation: one run from the project on disk, only a passed one
\* is judged.
ContinueRepair ==
    /\ At("continue")
    /\ AgentRun([call EXCEPT !.request = "none", !.answer = "none", !.total = 0])
    /\ node' = IF call'.report = "passed" THEN "audit" ELSE "persist"

AfterAudit(c) ==
    IF c.audit = "pass" THEN "review"
    ELSE IF c.audits < RouteLimit THEN "agent"
    ELSE "persist"

\* An exhausted run is not audited: the call notes that the user must approve.
AuditBlocked ==
    /\ At("audit")
    /\ call.report = "exhausted"
    /\ Takes(1, [call EXCEPT !.audit = "blocked", !.request = "pending",
                             !.answer = "pending", !.total = call.turns + Increment])
    /\ node' = AfterAudit(call')
    /\ UNCHANGED seen

AuditPasses ==
    /\ node = "audit"
    /\ call.report = "passed"
    /\ \E audit \in AuditsOfPassed :
          /\ audit.status = "pass"
          /\ seen' = [seen EXCEPT !.passed = @ \cup {"audit"}, !.agreed = audit.agreed]
    /\ Takes(1, [call EXCEPT !.audit = "pass"])
    /\ node' = AfterAudit(call')
    /\ job' = [job EXCEPT !.audited = TRUE]

\* Variant: a rejected project is sent back without counting it.
AuditFails_Uncounted ==
    /\ node = "audit"
    /\ call.report # "exhausted"
    /\ Takes(1, Rejected([call EXCEPT !.audit = "fail"], "audit"))
    /\ node' = AfterAudit(call')
    /\ seen' = Rejects("audit")
    /\ job' = [job EXCEPT !.audited = TRUE]

\* A project that failed its gate never passes the audit.
AuditFails ==
    /\ node = "audit"
    /\ call.report # "exhausted"
    /\ \E audit \in IF call.report = "passed" THEN AuditsOfPassed ELSE AuditsOfFailed :
          audit.status # "pass"
    /\ Takes(1, Rejected([call EXCEPT !.audit = "fail", !.audits = @ + 1], "audit"))
    /\ node' = AfterAudit(call')
    /\ seen' = Rejects("audit")
    /\ job' = [job EXCEPT !.audited = TRUE]

ReviewPasses ==
    /\ At("review")
    /\ \E review \in Reviews, prompt \in Prompts :
          /\ review.verdict = "pass"
          /\ Takes(1, [call EXCEPT !.review = "pass"])
          /\ seen' = [seen EXCEPT !.passed = @ \cup {"review"},
                                  !.defect = review.defect, !.shown = prompt]
    /\ node' = "persist"

\* A review that does not pass goes back to the agent, unless it wants the user or has
\* gone back often enough.
ReviewFails ==
    /\ At("review")
    /\ \E review \in Reviews, prompt \in Prompts :
          /\ review.verdict # "pass"
          /\ Takes(1, Rejected([call EXCEPT !.review = review.verdict, !.reviews = @ + 1],
                               "review"))
          /\ node' = IF review.verdict = "revise" /\ call'.reviews < RouteLimit
                     THEN "agent" ELSE "persist"
          /\ seen' = [Rejects("review") EXCEPT !.defect = review.defect, !.shown = prompt]

\* persist_codegen_output: what the last report and the judgements ask of the user,
\* counted from the turns of the last agent run.
Raised ==
    \/ call.report = "exhausted"
    \/ call.audit \in {"fail", "blocked"}
    \/ call.review = "revise"

Verdict ==
    IF Raised THEN "needs_user_input"
    ELSE IF call.report = "passed" /\ call.audit = "pass" /\ call.review = "pass"
         THEN "passed"
    ELSE "failed"

\* Variant: the status asks for the user, but the request is not handed on.
Persist_DropsRequest ==
    /\ node = "persist"
    /\ call.steps < RecursionLimit
    /\ job' = [job EXCEPT !.status = Verdict, !.request = call.request,
                          !.answer = call.answer, !.total = call.total]
    /\ node' = "idle" /\ call' = NoCall
    /\ UNCHANGED seen

Persist ==
    /\ node = "persist"
    /\ call.steps < RecursionLimit
    /\ job' = IF Raised
              THEN [job EXCEPT !.status = Verdict, !.request = "pending",
                               !.answer = "pending", !.total = LatestTurns + Increment]
              ELSE [job EXCEPT !.status = Verdict, !.request = call.request,
                               !.answer = call.answer, !.total = call.total]
    /\ node' = "idle" /\ call' = NoCall
    /\ UNCHANGED seen

\* LangGraph gives up; the phase raises and the service keeps the state it had.
NodeCost == IF node = "plan" THEN PlanningNodes ELSE 1

RecursionError ==
    /\ node # "idle"
    /\ call.steps + NodeCost > RecursionLimit
    /\ node' = "idle" /\ call' = NoCall
    /\ UNCHANGED <<job, seen>>

\* A node raises: the same for the service.
NodeRaises ==
    /\ node # "idle"
    /\ node' = "idle" /\ call' = NoCall
    /\ UNCHANGED <<job, seen>>

-------------------------------------------------------------------------------
Approve ==
    /\ node = "idle" /\ job.request = "pending" /\ job.total <= TurnBound
    /\ job' = [job EXCEPT !.request = "approved", !.answer = "approved",
                          !.status = "none", !.override = job.total]
    /\ UNCHANGED <<node, call, seen>>

Reject ==
    /\ node = "idle" /\ job.request = "pending"
    /\ job' = [job EXCEPT !.answer = "rejected"]
    /\ UNCHANGED <<node, call, seen>>

\* The patch subgraph rejects what was handed on, or the gates judge the job.
PatchRejected ==
    /\ node = "idle" /\ job.status = "passed"
    /\ job' = [job EXCEPT !.status = "failed", !.complaint = "patch"]
    /\ UNCHANGED <<node, call, seen>>

Gated ==
    /\ node = "idle" /\ job.status = "passed"
    /\ \E gates \in {"passed", "failed"} : job' = [job EXCEPT !.gates = gates]
    /\ UNCHANGED <<node, call, seen>>

Init ==
    /\ node = "idle"
    /\ call = NoCall
    /\ job = NewJob
    /\ seen = NothingSeen

Running ==
    \/ LoadModelIr
    \/ Plan
    \/ ProjectAgent
    \/ ContinueRepair
    \/ AuditBlocked
    \/ AuditPasses
    \/ AuditFails
    \/ ReviewPasses
    \/ ReviewFails
    \/ Persist
    \/ RecursionError

Next ==
    \/ Generate
    \/ Running
    \/ NodeRaises
    \/ Approve
    \/ Reject
    \/ PatchRejected
    \/ Gated

Spec == Init /\ [][Next]_vars

-------------------------------------------------------------------------------
(* What the code generation subgraph promises the service that runs it.          *)

\* Code is "passed" only when the project handed on, and no earlier one, passed the
\* runtime gate, the audit and the physics review (persist_codegen_output_node): its
\* counts of events agree (collect_runtime_execution_facts), and the reviewer's answer
\* named nothing that the agent could mend (_normalize_review).
PassedIsJudged ==
    [][Persist /\ job'.status = "passed"
          => seen.passed = {"gate", "audit", "review"} /\ seen.agreed /\ ~seen.defect]_vars

\* The reviewer's prompt is as long as it may be, unless all that could be left out is
\* left out, and its excerpts exceed their share by one remark at most
\* (_review_prompt_json, _project_files_for_review).
EvidenceFits ==
    /\ seen.shown.files # <<>> => seen.shown.size <= PromptLimit
    /\ Sum(seen.shown.files) <= FilesLimit + Note

\* What a call rejects, the agent is told before anything else when it runs again, and
\* all that was rejected before with it (_merge_runtime_failure_context); the first run
\* of a call is told of failed gates, unless a patch was ever rejected, and a continued
\* one is told something (_make_g4_codegen_subgraph_node, continue_agentic_repair_node).
AgentIsToldWhy ==
    [][ProjectAgent \/ ContinueRepair =>
         /\ seen.last # "none" => Told = seen.last
         /\ seen.rejections \subseteq call.history \cup {Told}
         /\ job.gates = "failed" /\ job.complaint = "none" =>
               "gates" \in call.history \cup {Told}
         /\ node = "continue" /\ job.audited => Told # "none"]_vars

\* Sending a project back never by itself runs into the recursion limit: only a
\* call whose agent ran out of turns gets there (AUDIT_REPAIR_ROUTE_LIMIT against
\* the length of the graph).
LimitOnlyIfExhausted ==
    node # "idle" /\ call.steps + NodeCost > RecursionLimit => seen.exhausted

\* Code that waits for the user has a request the user can still answer, for more
\* turns than none, and no decision is standing (submit_repair_continuation).
PauseIsAnswerable ==
    job.status = "needs_user_input" =>
        /\ job.request = "pending" /\ job.answer \in {"pending", "rejected"}
        /\ job.total > 0

\* An approval pays for one continuation: once that has returned, the next call
\* starts afresh unless the user approves again (continue_agentic_repair_node,
\* _route_after_load_model_ir).
ApprovalSpent ==
    [][Persist /\ seen.continued => job'.answer # "approved"]_vars

\* What a call hands on is judged as it is, on what fits a prompt, and continued only as
\* often as was paid for.
HandsOnFairly == PassedIsJudged /\ ApprovalSpent /\ []EvidenceFits

\* What a call returns is what the pipeline's model of the phase allows.
PL == INSTANCE Pipeline WITH
          state <- [codegen |-> job.status, request |-> job.request,
                    answer |-> job.answer],
          idx <- 5, completed <- {}, saved <- {}, ctl <- "loop",
          GateRetryLimit <- 5, PatchRetryLimit <- 4, CounterBound <- 0,
          FailingGates <- {}, GuardedFrontEnd <- FALSE

AnswersThePipeline ==
    [][Persist =>
         \E raised \in BOOLEAN, status \in {"passed", "failed", "needs_user_input"} :
            /\ status = "needs_user_input" => raised
            /\ [codegen |-> job'.status, request |-> job'.request, answer |-> job'.answer]
                   = PL!CodegenResult(status, raised)]_vars

===============================================================================
