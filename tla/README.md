# A verification of RadAgent

RadAgent turns a request in natural language into a Geant4 simulation: it plans, asks the user what is
unclear, models the detector, lets an agent write the code, applies and runs it, validates what came
out, and reports. This directory models the parts of it where order, failure and stale data matter: who
drives a job, what a restart resumes, who is asked what and when, what may run at the same time, which
files a verdict is about, and what of the user's wishes reaches the simulation. The models are checked
with TLC on small instances and, where section 6 says so, proved with TLAPS for every value of the
constants.

## 1. Inventory

### The parts and how they interact

| part | state it keeps | operations | modelled in |
| --- | --- | --- | --- |
| `app/service.py` `RadAgentAppService` | `state` (one dictionary for the whole job), `current_phase_idx`, `completed_phases`, a background thread | `start_job`, `run_until_blocked`, `run_phase`, `step`, `submit_confirmation`, `submit_repair_continuation`, `resume_job`, `continue_in_background`, revisions, reviews and diagnoses | `Pipeline`, `PipelineProperties`, `Workbench`, `JobStore`, `Revisions` |
| `graph/main_graph.py`, `main_routes.py` | none: a node per phase passes fields to its subgraph and merges the ones that come back; the routes say where a failure goes | | `Pipeline` |
| `context`, `planning` | one shared index of documents, its cache on disk, the files of the two phases | retrieve, supplement, decide, parse, ask | `Knowledge`, `Preparation`, `KnowledgeBase` |
| `knowledge_base/geant4` | `geant4_index.db`, `.source_cache.json`, JSONL files | preprocess, build, prune, rebuild | `IndexBuild` |
| `requirements_review.py`, `human_confirmation` | questions, answers and plans on disk, a status in `state` | ask, accept, reject, supplement; generate, parse, merge, validate | `RequirementsReview`, `Confirmations` |
| `g4_modeling` | the model on disk, status in `state` | thirteen nodes in a line | `Modeling`, `Geometry` |
| `g4_codegen` | the project on disk; a report, two judgements and two counters while a call runs; a continuation request between calls | plan, agent, audit, review, continue, persist | `CodegenPlanning`, `CodegenRepair`, `Judges`, `Hardening`, `ProjectFiles` |
| `agent_loop`, `dev_tools` | messages, stall and repetition counters; the agent's workspace | model call, tool calls, stop conditions, shortening | `AgentLoop`, `ProjectFiles` |
| `models` | transcripts, the file of the active call | call, stream, retry, time out | `ModelCalls` |
| `patching`, `gates`, `validators`, `tools` | patch record, gate results, failed gates, the output package | review, apply, build, run, judge, classify | `ProjectFiles`, `Gates`, `OutputContract`, `Program` |
| `artifacts`, `reports`, `web/visualization.py` | one review package for all jobs, the report | collect, report, show | `Delivery` |
| `storage`, `revision` | projects, jobs, snapshots (SQLite); directories of jobs and revisions | upsert, snapshot, import; create, run, judge, accept | `JobStore`, `Revisions` |
| `web` | one service; one thread serves the requests, one the continuation | a command per user action | `Workbench`, `Pipeline` |
| `tui`, `chat`, `intent` | pending brief, busy mark, two workers | ask, brief, approve, command, cancel | `Console`, `Knowledge` |
| `repl.py` | the same job through a second driver | run, step, confirm, resume | `Repl`, `Confirmations` |

A user's command reaches the service through the TUI, the REPL or the web server. The service runs a phase
by calling the phase's graph node with `state`, merges what comes back, decides whether the phase failed,
pauses or is complete, moves `current_phase_idx`, writes a snapshot, and goes on until a decision or a
failure stops it. Rejected patches and failed gates send it back to an earlier phase. The phases hand one
another files in the job's directory; almost every phase may be run again over the files of its last run.

### What is hard

* **Order of failures and restarts.** Failures at four places move the phase index backwards; a restart
  recomputes index and statuses from the last snapshot; two counters bound it all; a second driver, the
  REPL, may take the job up in between.
* **Decisions.** The user is asked at two phases, by two mechanisms, and a third, older one is still
  reachable. Decisions can come late, twice, or when nothing was asked.
* **Retries inside a phase.** Code generation has a loop of its own, with budgets of turns, limits per
  judgement and LangGraph's recursion limit.
* **Threads and tasks.** The web server serves one request at a time while the service's background thread
  advances the same object; the terminal's two workers share one event loop; tools of one agent turn run
  side by side and build one index.
* **Files.** Patches, revisions, caches and packages are several file operations without a transaction,
  over what earlier runs left; a verdict is about files, and later steps use other files.
* **Repairs of data.** Placements, generated files and prompts are repaired or shortened by passes that may
  undo or repeat one another.

PROJECT.json lists forty hazards with their lines and the properties that would show them going wrong;
section 9 lists what else was met.

### What makes each part correct

* **Service and pipeline.** Nothing is modelled or built before the requirements are agreed, no phase is
  skipped, a job counts as validated only if the gates passed after its last change, an awaited decision
  survives a restart and is the one shown, the retries are not refunded, and the loop comes back with a reason
  unless a patch is applied again and again whose build fails.
* **Preparation.** Entries of an index belong to their documents, outages block no job, nobody waits forever.
* **Decisions.** What the user answered is what gets built, and nothing is asked twice.
* **Modelling.** What passes can be built and measured; a clear wish for a source of the four particles the
  modelling reads out of an answer is what is simulated.
* **Code generation.** Passed code has been judged as it is; going back to the agent is bounded; the user is
  asked when turns run out, one approval pays for one continuation, and the agent is told why it is back.
* **Files and gates.** The project that passed is reproduced from the patch alone; what is applied is what
  was gated; a passed validation means sound outputs, written by this project but for a summary taken from
  a `run_summary.json` that lay in the package.
* **Agent loop and model calls.** The conversation is one a provider accepts, the record of calls is
  complete, success and hopeless repetition are noticed, an answer is of one attempt, every run ends.
* **Store and revisions.** What is resumed is one state of the job; a revision is complete or is not offered.
* **Front ends.** A job's results become another's only in a job that was taken up while the worker was at
  work; no job is harmed by what happens to others; what starts is what was approved; the terminal gives way
  to the next input.

## 2. Modules

| module | what it is |
| --- | --- |
| `Pipeline` | one job through the ten phases: loop, steps, decisions, re-routing, snapshot, crash, resume, retry |
| `PipelineProperties` | what the user is shown of a job, the pipeline's properties, the refinement mapping to `JobContract` |
| `JobContract` | abstract specification: what a stored job promises, without phases, counters and crashes |
| `Repl` | the REPL as a second driver of the same job and store |
| `Workbench` | one service under the web server: request thread, background worker, jobs |
| `Console` | the terminal's dispatch, copilot and operation workers |
| `JobStore`, `Revisions` | rows, snapshots and directories with crashes and imports; revisions as directory operations over them |
| `RequirementsReview`, `Confirmations` | rounds of the review and the plan; the older confirmation and the REPL's `/confirm` |
| `Knowledge`, `Preparation` | the shared index and its clients; context and planning phases |
| `IndexBuild`, `KnowledgeBase` | how the prebuilt index is made; its composition with its use, and the properties of both |
| `Geometry`, `Modeling` | placement repairs and overlap checks as functions; the modelling subgraph node by node |
| `CodegenPlanning`, `Delivery` | what of the model reaches the agent; what the job hands over, and the properties from draft to delivery |
| `Judges`, `CodegenRepair` | audit and physics review; the code generation subgraph over several calls |
| `AgentLoop`, `AgentLoopProperties` | `run_agent_loop` and what of the conversation is sent; its properties |
| `ModelCalls` | gateway and client, two callers |
| `OutputContract`, `Program` | what a run leaves in an output directory and who judges it; the canonical Geant4 program |
| `Hardening`, `Gates`, `ProjectFiles` | post-processing of files, the gates, and the files of a project on their way through both |
| `PipelineProofs`, `WorkbenchProofs`, `AgentLoopProofs`, `StoreProofs`, `FilesProofs` | theorems and proofs about `Pipeline` and `Repl`, `Workbench`, `AgentLoop`, the store and revisions, and the files |
| `CodegenProofs` | those about `Judges` and `CodegenRepair`, and about `Geometry`, `Modeling`, `CodegenPlanning` and `Delivery` |
| `IntakeProofs` | those about `RequirementsReview` and `Confirmations`, and about `Knowledge`, `Preparation`, `IndexBuild` and `KnowledgeBase` |
| `EventLoopProofs` | those about `ModelCalls` and `Console` |
| `MC*` | values of the constants for TLC (`Console` and `ModelCalls` need none) |

How the bigger ones correspond to the code:

### Pipeline

| in the model | in the code |
| --- | --- |
| `state` | the entries of `self.state` that some branch reads: statuses, the continuation request and its answer, the retry counters, whether `termination_reason` names a failure |
| `idx`, `completed` | `current_phase_idx`, `completed_phases` |
| `saved` | the job row and its newest row in `state_snapshots` |
| `ctl` | which of `run_until_blocked`, `step` or `submit_confirmation` is on the stack; `routing` is the point between a failed phase and `_route_after_failed_phase`, `down` a dead process |
| `Succeed`, `Fail`, `Pause` | the three ways out of `run_phase`, each with its `_persist_phase_state` |
| `Run…`, `Patch…`, `Gate…` | a phase's outcomes and what the subgraph wrapper in `main_graph.py` merges |
| `RouteFailedPatch`, `RouteFailedGate`, `GateRoute` | `_route_failed_patch`, `_route_failed_gate`, `route_after_gates`, `failure_classifier` |
| `ApproveRepair` … `LegacyConfirmation` | the branches of `submit_repair_continuation` and `submit_confirmation` |
| `ResumeJob`, `RetryJob` | `resume_job` without and with `clear_failure`, through `_normalize_resumed_progress` |
| `Crash` | the process ends; only `saved` is left |

A phase is one step here: its node changes `self.state` only when it returns, and a crash in between leaves
the last snapshot. `GuardedFrontEnd` separates two front ends: the TUI asks `_needs_confirmation` before it
submits, so confirmations nobody asked for do not happen; the web composer sends them (section 9).
`Repl` adds the REPL's commands on the same variables; `AnyFrontEnd` lets all drivers take turns.

### CodegenRepair

`call` is the state of the LangGraph run, discarded when the run raises; `job` is what the service keeps.
`node` is the next node, `Takes` counts every node against LangGraph's recursion limit. `seen` is a history
variable that no guard reads. `Judges` has the prompt's fitting of excerpts and the normalisation of the
reviewer's answer as functions. `Approve` and `Reject` are `submit_repair_continuation` as this subgraph sees
it, and `AnswersThePipeline` evaluates `Pipeline!CodegenResult` on what a call returns: the phase as `Pipeline`
assumes it is the subgraph as it is.

### Workbench

`svc` is the service's state with the active job's id, `stored` the newest snapshot of each job, `th` the place
of each thread in `run_until_blocked`, `handle` `_background_continue_thread`. Each `made[p]` names the job
whose state phase `p` was called with, so a result in the wrong job can be seen. A browser command is one step,
since `build_server` serves one request at a time, except `/run` and `/step`, which run phases on the request
thread, and `/retry` and `/approve`, which change the state first and call `continue_in_background` afterwards.
Commands come at every point of the worker's loop: between the choice of a phase and its node, the merge of its
result and its snapshot, the snapshot and the next choice. `crossed` is a history of the jobs that were taken up
or stepped while a worker was at work; their state is the one the worker writes into, so nothing is promised of
them (section 9). `refused` has the jobs whose continuation was turned away with `workflow_continue_busy`.

### AgentLoop

`messages` keeps the role of every message and the ids that tie results to calls; `batch` and `results` are the
calls of one answer and their results, in the order of the calls; `trace` is the set of executed calls, `audit`
is `tool_audit`, `failures` the counts of `repeated_tool_result_limit`. One tool is the smoke test, since
`_smoke_passed` is the stop hook of code generation. `GivesIds` says that the provider names every tool call.
`Sent` is the copy of the conversation a request carries: the first of seven copies, each shortened further than
the last, that fits the budget.

### Files

`ProjectFiles` follows one project through its places: the agent's `workspace`, the patch in the `memory` of the
call, the directory of the runtime gate's `attempt`, the `saved` project, the applied `project` with its output
package, and the `validation` made of both. A file is a bag of the
spellings `Hardening` can tell apart; an output directory maps each required output to who wrote it, for which
project, how many events it speaks of and whether its data are usable (`OutputContract`). `Collected`, `WithTable`,
`Summary` and `WithRecords` are the runner's passes after a run: it gathers what lies in the executable's and the
output directory, and a `run_summary.json` it finds there, whoever left it, replaces the summary of the program,
as does a fallback if the program's summary cannot be read. Builds, runs and what
they write are functions of the tree, given by constants (`MCFiles` uses the canonical program of `Program`).
The gates read `Facts`, what earlier phases left, besides the directory.

### Modelling to delivery

`Modeling` is a run of the phase over the leftovers of an earlier one. What a user says names any of the particles
planning knows (`Beams`); `SourcesFrom` makes a source only of the four (`Particles`) that
`_particle_type_from_text` recognises. `Geometry`'s repairs are recursive
functions that go over the components in the order of the draft, on the z axis. `CodegenPlanning` continues with what the
planners and the agent's first message keep of the model, `Delivery` with what is packed over the package of
another job. Every node is a step, and a node that raises ends the phase where it is.

### Index and knowledge base

In `IndexBuild` a row stands for a chunk, `sources` for what `_scan_source_files` lists. `DocumentsOf` says of
which of them `preprocess.py` makes documents: those of a kind and length it reads (`Read`), and of the main
programs of an example the first by name (`Before`); all of them count as changed when they change. `lapse` is a
history of what the code does not account for: failed embeddings and preprocessing, kills, the beginning of a
rebuild and what is edited before it notes the sources.

### Store and revisions

A server step is a durable step: a row, a snapshot, a directory. `Crash` may come between any two, `Import` is
what every listing does. `Revisions` adds the copies, patches and gates of revisions and their acceptance.

## 3. What the runs check

| run | specification | states | what it shows |
| --- | --- | --- | --- |
| `pipeline_tui` | `Pipeline!FairSpec` | 91,917 | With the guarded front end and the code's own limits: agreement before building, no skipped phase, validated only by the gates, decisions awaited where they belong, across restarts and as shown, a loop that says why it returns and goes on for ever only over uncounted failures, and `JobContract` as a refinement. |
| `front_ends` | `Repl!AnyFrontEnd` | 421,848 | Service with the unguarded web composer and REPL in turn: the store has at rest what is completed, where to resume and both counters. |
| `codegen` | `CodegenRepair!Spec` | 1,618,347 | Only an exhausted agent reaches the recursion limit, a pause can be answered, passed code was judged on what fits a prompt and an approval spent once, the agent is told why, and the call is what `Pipeline` assumes. |
| `workbench` | `Workbench!FairSpec` | 611,193 | With commands at every point of a worker's loop: one worker at a time; jobs never taken up beside it keep their own results and skip nothing; a pending repair stops every thread; an approval is acted on or its refusal shown. |
| `agent_loop` | `AgentLoop!FairSpec` | 394,154 | A well-formed conversation, shortened where it is missed least; a true result; repetition given up on; an end. |
| `store` | `RevSpec` | 264,676 | With crashes, imports and project switches: what is resumed is one state of the job, a completed revision is whole, an accepted one is the candidate. |
| `console` | `Console!FairConsoleSpec` | 145,032 | What starts is what was on display when it was approved; both workers give way. |
| `decisions` | `Confirmations!Spec` | 170,601 | Answers reach the plan and bind, through reviews, supplements, confirmations and routing back; nothing is asked again. |
| `files` | `FilesSpec` | 923,649 | The passed project is reproducible from the patch, the applied one is the gated one, validation is sound but for a left-over `run_summary.json`, hardening can be repeated. |
| `models` | `ModelCalls!FairSpec` | 740,545 | An answer is of one attempt and its records are closed; calls end if timeouts are on. |
| `modeling` | `SpecJob` | 102,988 | Every draft, repaired: what passes is contained, apart and measurable; clear wishes for a source of the recognised particles bind to the agent's message and the delivery, others leave the planned source. |
| `preparation` | `FairBaseSpec` | 595,186 | Index entries are their documents' own, builds are true, outages block nothing, searches and phases end. |

Every property has a mutant: a variant operator beside the original, marked "Variant", that a plausible bug would
look like, under which TLC finds the property violated.

## 4. Bounds

* `pipeline_tui` uses the code's own retry limits (5 and 4); `CounterBound` 6 stops users from retrying for ever:
  no user operation starts once a counter is past it. `FailingGates` has one gate per phase a failure is sent
  back to, and gate 20, which has none. `front_ends` uses limits 2 and 1 and two gates, because the unguarded
  composer and the REPL multiply the states, and a `VIEW` that drops the fields (`visual`, `artifact`, `failed`,
  `conf`, the stored status beyond "none") which no guard of these actions and not the property reads.
* `codegen`: the code's route limit 2 and recursion limit 25. `DefaultTurns` 3, `Increment` 1, `TurnBound` 5
  stand for 64, 12 and unlimited approvals; what is compared is turns used (0, 1 or all) against the budget. The
  reviewer's limits are scaled down so that one of the prompts needs every round of compaction.
* `workbench`: two jobs are what a switch needs, two workers let a second start while the first winds up, and
  there is a phase before and after the one that asks. `MCLimit` ends the exploration where a second job is
  crossed or refused and where a crossed job is worked on after its worker ended, `MCOneCrossing` allows one
  command that takes a job up beside the same worker; decisions go on beside it. `MCFirst` names jobs and workers
  in order. The proofs need none of these.
* `agent_loop`: three turns hold two failures with another turn between; two calls make a batch that is left in
  the middle; lengths and limits are such that each of the seven copies is sent for some conversation.
* `store`: a crash may come between any two steps; a `CONSTRAINT` lets a second job, a second project and
  listings happen only while there are no revisions. The proofs lift it.
* `console`: briefs of at most two turns. `decisions`: two fields, one value, one question a round
  (the code asks eight) and one constraint in a prompt (forty), which is what separates a field that is asked or told
  from one that does not fit.
* `files`: four paths (output manager, macro, a file of the agent's own, one outside the policy), one edit per
  run of the agent, two passes of hardening, one insertion counted; everything that may be wrong at the gates alone,
  and every pair of five that stand for the phases. One edit leaves a `run_summary.json` beside the executable, one a
  summary nobody can read.
* `models`: two callers, two calls each, one retry. `modeling`: a world and up to three components, placed and
  nested in the ways that make the repairs interact, and malformed drafts.
* `preparation`: two tools and the context phase share the index; two releases, two documents, one manual of two
  chunks and an example with two programs, of which the first is long, too short to make a document, and long again.
  Source files are there from the beginning, and a removed one does not come back. The knowledge base's building and its use are explored each while the other has not begun:
  only the database file passes between them.

## 5. Fairness

* `Pipeline`: weak fairness of `Progress`: a call that has begun goes on. Nothing is assumed of what the nodes
  answer. A patch that is applied and fails to build, and a patch or gate node that raises, raise no counter
  (`UncountedRetry`, section 9), so `LoopTerminates` says: the loop returns, or one of these comes again for ever.
* `Workbench`, `AgentLoop`, `Console`, `KnowledgeBase`: weak fairness of threads, tasks and coroutines, which the
  operating system and the event loop schedule; of `Workbench` also the end of a request that has called
  `continue_in_background`. Users, crashes and imports are never fair.
* Model calls return or fail in those modules. The code's own timeouts are off unless
  `RADAGENT_ENABLE_MODEL_TIMEOUTS` is set, so this is an assumption about providers. `ModelCalls` states it:
  `CallsEnd` is checked with `TimeoutsEnabled`. Requests to the embedding service have timeouts of their own.

## 6. What is proved

Every safety property of the runs is also a theorem: for all values of the constants that satisfy the modules'
ASSUMEs, not only for the instances of section 4, and without their state constraints and views. Every proof is
checked by TLAPS to its last leaf. TLC finds each inductive invariant true in the runs' instances
(with bounds for the few quantifiers that range over all numbers or lists).

| module | theorem | property |
| --- | --- | --- |
| `PipelineProofs` | `JobStaysInOrder`, `BuiltOnlyIfAgreed`, `RecordedMeansValidated` | `JobInOrder`, `AgreedBeforeBuilt`, `ValidationIsRecorded` |
| | `NoDecisionIsLost`, `LoopsExplain` | `DecisionsSurvive`, `LoopReturnExplained` |
| | `StoredFulfilsContract` | `FulfilsContract`: `Pipeline` implements `JobContract` |
| | `NoRetryIsGivenBack` | `RetriesSurvive`, with every front end |
| `CodegenProofs` | `PausesCanBeAnswered`, `RepairsFitTheLimit` | `PauseIsAnswerable`, `LimitOnlyIfExhausted` |
| | `OnlyFairHandovers`, `AgentKnowsWhy` | `HandsOnFairly`, `AgentIsToldWhy` |
| | `PipelineIsAnswered` | `AnswersThePipeline` |
| | `RepairsAreComplete`, `PassedMeasures`, `SourceBinds` | `RepairContains`, `PassedCanMeasure`, `ConfirmedSourceBinds` |
| `WorkbenchProofs` | `JobsStayInOrder`, `Awaited` | `JobsInOrder`, `AwaitedMeansStopped` |
| `AgentLoopProofs` | `WellFormedConversation`, `ResultsAreTrue`, `GivesUpInTime` | `ConversationIsWellFormed`, `ResultIsTrue`, `GivesUpOnRepetition` |
| `StoreProofs` | `WhatIsResumedIsTrue`, `CompletedRevisions`, `AcceptedRevisions` | `ResumedIsTrue`, `CompletedIsWhole`, `AcceptedIsTheCandidate` |
| `IntakeProofs` | `AnswersAlwaysBind`, `AnsweredOnce` | `AnswersBind`, `NotAskedAgain` |
| | `IndexStaysSound`, `BuiltStaysTrue`, `OutagesNeverEndAJob` | `IndexIsSound`, `BuiltIsTrue`, `OutagesNeverBlock` |
| `FilesProofs` | `PassedReproduces`, `WhatIsAppliedWasGated` | `PassedIsReproducible`, `AppliedIsGated` |
| | `ValidationCanBeTrusted`, `HardeningStaysTidy` | `ValidationIsSound`, `HardeningIsRepeatable` |
| `EventLoopProofs` | `ReturnedTrue`, `StartsAsApproved` | `ReturnedIsTrue`, `StartedAsApproved` |

### Assumptions

The ASSUMEs of the modules say what the code's constants are: limits are numbers, `None`, `Nothing` and the like
are none of the values they stand beside, a draft is a list of components with a size and a place
(`ModelingAssumption`, the schema of `component_spec.py`), what a wish says of particles names particles, a project
is a finite set of files (`ExcerptAssumption`). Beyond them the theorems assume, each in its statement:

* `GuardedFrontEnd` (all of `Pipeline` but `NoRetryIsGivenBack`): the user's front end asks whether a decision is
  awaited before it submits one, as the TUI does. Without it the statements are false (section 9).
* `GivesIds` (`WellFormedConversation`): the provider names every tool call. With ids made up by the loop two calls
  can share one (section 9).
* `IsFiniteSet(Fields)` (`AnswersAlwaysBind`): a review asks about finitely many fields.
* `WritesFiles` (`FilesProofs`): rewriting the text of a file leaves a file. `HardeningStaysTidy` also rests on
  `WritingAssumption` of `ProjectFiles`: the template and the agent themselves write nothing twice that the rules
  of `Hardening` insert.
* `LongestCall <= RecursionLimit` (`RepairsFitTheLimit`), where `LongestCall` is five nodes for each round plus
  six: 16 with the code's route limit of 2, against LangGraph's 25. Raising `AUDIT_REPAIR_ROUTE_LIMIT` to 4 would
  break it.

### The arguments

**Pipeline.** The properties speak of the job in memory and of the one in the store; neither part is inductive
alone, because a resume puts the stored one into memory and a phase changes memory before it is persisted. `IInv`
asks `Consistent` of both: completed phases are those before the index, and what the phases before it promise is
still so. `RInv` adds how the stored copy differs at each place of the loop (`Recorded`, `Mirrors`, `Rewritten`):
what a crash now would lose. From it follow the decisions, the explanations and the refinement, of which each
action is a step or a stutter of `JobContract`. With unguarded front ends `Consistent` fails; `SurvivalInv`
keeps of it only what retries and resumes need (`Agrees`, `MayRest`), and holds for every driver.

**Code generation.** `IInv` says per node what has been judged (`Judged`), that an approval is used up when the call
starts from it (`Spent`), and what a request asks for (`Given`, `Countable`, `Kept`). `Remembered` ties what the
agent is told to what has been rejected, `Counts` the supersteps to the two counters. For the prompt of the
reviewer: an excerpt never exceeds its limit but by its remark (`ExcerptFits`), so all of them together do by the
remarks of one file (`ShownFits`), and of the rounds of compaction the first that fits is taken (`PromptsFit`).

**Modelling and delivery.** `RepairsAreComplete` needs that as many passes as there are components suffice. A mother
is unsettled while she, or one below her, is too small for her children. A pass never shrinks a box and moves none,
so what is settled stays so, and the lowest unsettled mother is settled by the next pass (`PassSettles`,
`OneIsLowest`); a tree with loops has no lowest one, and validation refuses it. `PassedMeasures` uses that every way
up ends at the world, from the least set of ancestors (`WaysEndAtTheWorld`). `SourceBinds` follows the source through
`JobInv`: the model on disk (`ModelInv`), the agent's message (`ToldInv`), the shared shelf (`ShelfInv`);
`ClearWordsAreFollowed` says for which words `SourcesFrom` returns what was chosen, and that for a particle it does
not recognise the planned source stays.

**Workbench.** Commands are not held back, so no invariant can speak of every job. `IInv` is in four parts: types;
`OneWorker`; `Orderly` unless the active job is crossed: of the threads at most one is at work (`Alone`), where it
stands says what it has made (`InPlace`), and the state is in order (`InOrder`); and `StoredInOrder` of every stored
job that is not. A command that comes while the worker is at work either crosses the job it puts into the service or
is a decision, which `InPlace` allows at each of its places.

**Agent loop.** `Talk` says that the messages are a well-formed conversation but for the results still to come;
each of the seven copies keeps roles and ids, so shortening cannot separate a result from its call. `Recorded`
relates trace, audit and the batch left in the middle, `Tallied` the counts of failures to the places in the audit.

**Store.** `Unsaved` and `Serving` say what of a job a crash loses at each step of a server command, `Reported` that
only a reported job says it is finished; for revisions `Running` and `Accepting` do so for their directories.

**Files.** `ReadBack`: what is judged is what was read back from the workspace. `Built` and `HandedOn`: what is
applied is that. `GInv` says what results the gates have so far as a function of the facts and the outputs, and the
lemma on verdicts that they pass only for sound ones. What the runner does to a run's outputs is followed pass by
pass (`RunnerLeaves`): of what only the program may write it replaces the summary alone, by what lay in the package. `HInv` follows the insertions of `Hardening` (`Tidy`,
`Covered`) with lemmas about bags.

**Intake.** The plan holds the answers (`PlanBinds`), the review those it got (`ReviewBinds`), and the older
confirmation merges without losing them. `KnowledgeInv` says for each place of a search what its task has read and
that nobody else writes the index (`Alone`); that a batch of embeddings lands at its own documents goes over the
batch (`FullBatchIsInPlace`). `BuildInv` says after each step of a build which versions have been read, which have
rows, and what has gone wrong since (`AllRead`, `AllIndexed`, `NeverAhead`, `RunsTrue`). Which sources make
documents depends on one another, so it follows all of them at once: what was noted is never later than the sources
and leaves none of them out, so no edit makes them again what was noted.

**Event loop.** `CallsInv`: what a caller holds and every record are of the caller's present attempt.
`ConsoleInv`: what each worker read before it waited, against what is displayed after.

The installed provers cannot instantiate an induction theorem, so whatever goes over data is proved by the least
counterexample (`LeastOf`), and that a recursive function satisfies its equations by showing that a function which
does exists (`StepsExist`).

### Only model-checked

* Liveness: `LoopTerminates`, `ApprovalIsActedOn`, `Ends`, `GivesWay`, `CallsEnd`, `PreparationEnds`. TLAPS proves
  nothing under fairness here.
* What `Program`, the canonical Geant4 program, writes: `FilesProofs` takes the outcomes of builds and runs as any
  functions of the tree.

## 7. What is not modelled

PROJECT.json names every part with its status and what is left out of it. Not modelled at all are `agent_tools`,
`workspace`, `observability`, `visualization`, `config`, `schemas`, `policies`, `naming` (no transitions of their
own), `space_radiation` (real arithmetic), `device_canvas` (nothing reads what it writes back), the browser client
(its commands are those of `Workbench`), and scripts and benchmarks. Of the parts that are modelled, prompts, formats,
display, listings and settings are left out, and with them how a language model comes to an answer: a model's answer
is any answer of the kind the code accepts. Of geometry only one axis is there. Geant4, CMake, SQLite, LangGraph and
the providers are what the code relies on of them. Code that nothing calls any more (`run_global_integration_agent`,
the module agents' layers, the schema validator) is not modelled.

Two modelling decisions bound what the results mean. Each phase node of the service is one step of `Pipeline`; the
phases themselves are modelled apart, and only for code generation is it checked that the two agree. And a job is
followed by its own modules: two processes on one workspace directory are in `JobStore` as imports, but not as
patches or packages written at the same time.

## 8. What is left

* To state and prove of `Preparation` and of the patch phase what `AnswersThePipeline` says of code generation: that
  they are what `Pipeline` assumes.
* To refine `JobStore` from an abstract store, and `Workbench` from `JobContract` for several jobs.
* To lift `GuardedFrontEnd` where the code would only need one check more, and state what that check must be.
* The other two axes of `Geometry`, and the default distance of the source.

## 9. Divergences met while modelling

What the code does that a reader of its documents, or of the neighbouring code, would not expect. None of them is
the violation of a property above: the properties are stated so that they hold, and say what they leave out.

Service, pipeline and front ends:

* The web composer submits a confirmation when nothing is awaited, and an unsolicited one moves the job on to code
  generation (`service.py:1526`, against `main_routes.py:88`).
* A build that fails after its patch was applied raises no counter (`service.py:1834`, against `main_graph.py:519`),
  and a gate node that raises is routed forward (`service.py:1325`).
* A phase's result is merged into whatever job is active when it returns (`service.py:1440`), so a job that is taken
  up while the worker is at work receives results of another. A decision sent after the worker has merged a pause
  and before it has stored it (`service.py:1440` to `:1459`) is overtaken: code generation counts as completed and
  the loop goes on. A continuation asked for while the last worker winds up is refused (`service.py:733`): the user
  is told by an event, and the approval waits for a retry; the diagnosis of another job shows the active one's
  (`service.py:2552`).
* A confirmed plan is never withdrawn when its job is routed back; the complaint of a rejected patch is never cleared
  (`main_graph.py:279`).
* The REPL counts failed phases as completed, its rejections record nothing, its edits of a review never reach the
  plan, it does not pause on a pending repair, and its `/confirm` merges before it raises.
* Artifacts are collected without the gate results and the state of the confirmation (`main_graph.py:631`), and the
  state of the report lacks the planner's question.
* The brief about trapped protons is not passed on to planning (`main_graph.py:159`, against `README.md:249`).

Decisions and preparation:

* Only the first forty constraints are told to the agent (`graph_nodes.py:195`); `validate_confirmation` never fails;
  `ask_more` goes on until the recursion limit.
* An unknown decision about the context, and an empty one, pass gate 0. A partial index is cached as a whole one; the
  chat's hash leaves titles out; `_index_lock` belongs to the first event loop that used it, and is waited for outside
  the `try` (`context/nodes.py:165`): two loops at once, which the model has not, would end the context phase.
* `build_index` stores only the first of several embedded chunks. A rebuild ignores return codes and notes the sources
  as they are after they were read (`build_index.py:528`), and a killed one leaves an empty index that is reported as
  unchanged (`build_index.py:501`): `BuiltIsTrue` excludes these through `lapse`.

Modelling:

* A mixture that names a proton beside a neutron or a gamma loses the proton (`subgraph_io.py:347`), and one that
  names no particle hides the particle that was answered; an energy given earlier adds its particle
  (`subgraph_io.py:331`).
* An answer that names a muon, an alpha, a deuteron, a triton or an ion makes no source (`subgraph_io.py:432`), and the
  planned one silently stays, although planning (`planning/nodes.py:63`) and the choice of physics
  (`physics_list_node.py:250`) know these particles. `ConfirmedSourceBinds` promises the planned source there.
* A drafted physics list wins over the confirmed one. A material that is not known becomes silicon
  (`material_definition_node.py:315`). A drafted component without a mother raises two nodes later
  (`component_spec.py:101`).
* The coordinate node runs before the one that defines the source, so its branch for the beam never does. Evidence is
  retrieved and read by nobody. Gate 19 always passes (`g4_modeling_gates.py:276`).
* Planners look for a `geometry.type` the schema does not have, for scenarios by substrings
  (`codegen_plan_builder.py:26`), and for a class that has another name in the contracts
  (`code_architecture_planner.py:42`, `module_contract_builder.py:75`).

Code generation:

* An exhausted agent is run again before its user is asked (`g4_codegen_graph.py:186`, against `graph_nodes.py:832`).
  The approved total can be smaller than the budget it replaces (`graph_nodes.py:1295`). A continued agent is told of
  an audit that passed (`graph_nodes.py:709`).
* A defect whose wording mentions the model IR and a change counts as a question to the user and becomes advice
  (`physics_quality_reviewer.py:358`). A prompt that never fits loses all files, and a review of none can pass
  (`physics_quality_reviewer.py:1012`).
* Compaction drops the unit contract and the rules of the interfaces (`project_agent.py:420`).
* `hardening` inserts its fallback summary again at each pass (`base.py:1197`), and replaces one `SetEventID(0)` a
  pass.

Agent loop:

* After an exception the audit lacks the calls of the batch (`loop.py:159`, against `loop.py:380`). Ids made up for
  unnamed calls repeat (`loop.py:244`). Short results grow when they are compacted (`loop.py:379`). The last copy is
  sent even if it is too long (`loop.py:446`).

Files and delivery:

* A `run_summary.json` in the executable's directory or the package, also one of an earlier run, since neither is
  cleared, replaces what the program wrote as `g4_summary.json` (`geant4_runner.py:405`), so a validation can pass on
  the summary of an earlier project. A summary that cannot be read is written anew by the runner without the mark
  `materialized_by_runner`; one that is JSON but no object makes the runner raise, which is not modelled.
* What the gates read back is filtered by other names than what is saved (`agentic_repair.py:406`, against
  `graph_nodes.py:1075`); the model has one filter, and only text in UTF-8, which is what the agent's tools write.
* A simulation by hand writes into the package that was validated. `apply_patch` records no changed files.
  `classify_failure` takes the lowest gate, its comment the most severe (`failure_classifier.py:47`).
* The template's own `event_table.csv` and `geometry_view.json` fail the checks of `output_quality.py:133` and `:249`.
  The program never clears its records between runs, and only the first `/run/beamOn` of a macro is replaced.
* The review packages of all jobs share one directory, which is tracked as a fixture (`README.md:358`). Freshness is
  that of the newest file (`service.py:2294`), and the limit of events is one of tracks (`visualization.py:137`).
