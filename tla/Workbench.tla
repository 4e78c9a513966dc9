------------------------------- MODULE Workbench -------------------------------
(* The web workbench: one RadAgentAppService, a thread that serves one request   *)
(* after the other, and the background thread that continues a workflow after a  *)
(* retry or an approval.  All of them read and write the same state.             *)
(*                                                                               *)
(* Nothing makes a user wait for the worker: the browser waits for the answer of *)
(* a request, the worker goes on after it.  So every command may come at every   *)
(* point of the worker's loop, also one that puts another job into the state the *)
(* worker writes to.                                                             *)
(*                                                                               *)
(* The pipeline is cut down to a few phases of which one, Codegen, may ask for a *)
(* repair continuation; module Pipeline has all ten and their re-routing.        *)
EXTENDS Naturals

CONSTANTS
    Jobs,             \* the jobs users start and switch between
    Workers,          \* identities of background threads
    Last,             \* the last phase; phase 0 is prepare_workspace
    Codegen,          \* the phase that may ask for a decision
    None

ASSUME WorkbenchAssumption ==
    /\ Last \in Nat
    /\ Codegen \in 1..Last
    /\ None \notin Jobs \cup Workers
    /\ "request" \notin Workers

VARIABLES
    svc,      \* RadAgentAppService: state, current_phase_idx, completed_phases
    stored,   \* the newest snapshot of each job
    th,       \* where each thread is
    handle,   \* _background_continue_thread
    refused,  \* jobs whose last continuation ended in workflow_continue_busy
    crossed   \* history: jobs taken up or stepped while a worker was at work

vars == <<svc, stored, th, handle, refused, crossed>>
asked == <<refused, crossed>>

Phases == 0..Last
Threads == Workers \cup {"request"}

\* A job's state.  `made` tells which job's state the phase that produced each
\* result was called with; `failed` is a termination_reason.
Progress ==
    [idx : 0..Last + 1, done : SUBSET Phases, made : [Phases -> Jobs \cup {None}],
     ask : {"none", "pending", "approved", "rejected"}, failed : BOOLEAN]

Fresh == [idx |-> 0, done |-> {}, made |-> [p \in Phases |-> None],
          ask |-> "none", failed |-> FALSE]

\* "top": run_until_blocked looks for a phase; "node": the phase's node runs;
\* "merged": its result is in the state; "check": the phase is committed and the
\* loop looks whether it has to wait; "exit": the loop has returned; "continue": a
\* request has changed the state and calls continue_in_background.
Thread == [pc : {"idle", "top", "node", "merged", "check", "exit", "continue"},
           phase : Phases, on : Jobs \cup {None}, once : BOOLEAN]

IdleThread == [pc |-> "idle", phase |-> 0, on |-> None, once |-> FALSE]
Loop == [IdleThread EXCEPT !.pc = "top"]

TypeOK ==
    /\ svc \in [job : Jobs \cup {None}, work : Progress]
    /\ stored \in [Jobs -> Progress \cup {None}]
    /\ th \in [Threads -> Thread]
    /\ handle \in Workers \cup {None}
    /\ refused \subseteq Jobs \cup {None}
    /\ crossed \subseteq Jobs \cup {None}

Alive(t) == th[t].pc # "idle"

\* t is inside run_until_blocked or run_phase.
AtWork(t) == th[t].pc \in {"top", "node", "merged", "check"}

\* The request before this one has been answered.
Command == ~Alive("request")

\* Job j becomes the one the service works on, or one more thread works on it.  That a
\* worker is still at work nobody looks at; the history notes it.
TakenUp(j) ==
    crossed' = (crossed \ {None}) \cup IF \E w \in Workers : AtWork(w) THEN {j} ELSE {}

-------------------------------------------------------------------------------
\* _persist_phase_state: nothing is stored before the job has an id.
Persist(w) ==
    stored' = IF svc.job = None THEN stored ELSE [stored EXCEPT ![svc.job] = w]

At(t, pc) == [th EXCEPT ![t].pc = pc]

\* run_until_blocked returns: the request is answered, a worker winds up.
Leave(t) == [th EXCEPT ![t] = IF t = "request" THEN IdleThread
                              ELSE [IdleThread EXCEPT !.pc = "exit"]]

\* The node is called with the state as it is now.
PickPhase(t) ==
    /\ th[t].pc = "top"
    /\ th' = IF svc.work.idx \in Phases
             THEN [th EXCEPT ![t].pc = "node", ![t].phase = svc.work.idx,
                             ![t].on = svc.job]
             ELSE Leave(t)
    /\ UNCHANGED <<svc, stored, handle, asked>>

\* prepare_workspace names the job, unless its state has a name, and stores a row.
Prepare(t) ==
    /\ th[t].pc = "node" /\ th[t].phase = 0
    /\ \E j \in Jobs :
          /\ IF th[t].on = None THEN stored[j] = None ELSE j = th[t].on
          /\ svc' = [svc EXCEPT !.job = j, !.work.made[0] = j]
          /\ stored' = [stored EXCEPT ![j] = IF @ = None THEN Fresh ELSE @]
    /\ th' = At(t, "merged")
    /\ crossed' = IF svc.job \in crossed THEN crossed \cup {svc'.job} ELSE crossed
    /\ UNCHANGED <<handle, refused>>

\* Any other node returns what it made of the state it was called with; the result
\* is merged into the state the service has by now.
Merge(t) ==
    LET p == th[t].phase IN
    /\ th[t].pc = "node" /\ p # 0
    /\ \E ask \in {"none", "pending"} :
          svc' = [svc EXCEPT !.work.made[p] = th[t].on,
                             !.work.ask = IF p = Codegen THEN ask ELSE @]
    /\ th' = At(t, "merged")
    /\ UNCHANGED <<stored, handle, asked>>

Asks(p) == p = Codegen /\ svc.work.ask = "pending"

Ticked(p) == [svc.work EXCEPT !.done = @ \cup {p}, !.idx = p + 1]

\* Variant: a phase that asks for a decision is ticked off like any other.
Committed_IgnoresAsk(p) == Ticked(p)

Committed(p) == IF Asks(p) THEN svc.work ELSE Ticked(p)

Commit(t) ==
    LET w == Committed(th[t].phase) IN
    /\ th[t].pc = "merged"
    /\ svc' = [svc EXCEPT !.work = w]
    /\ Persist(w)
    /\ th' = IF th[t].once THEN Leave(t) ELSE At(t, "check")
    /\ UNCHANGED <<handle, asked>>

\* The node raises, or its result counts as a failure; the loop returns.
PhaseFails(t) ==
    LET w == [svc.work EXCEPT !.failed = TRUE] IN
    /\ th[t].pc = "node" \/ (th[t].pc = "merged" /\ ~Asks(th[t].phase))
    /\ svc' = [svc EXCEPT !.work = w]
    /\ Persist(w)
    /\ th' = Leave(t)
    /\ UNCHANGED <<handle, asked>>

\* After a committed phase the loop looks again whether a decision is awaited.
Check(t) ==
    /\ th[t].pc = "check"
    /\ th' = IF Asks(th[t].phase) THEN Leave(t) ELSE [th EXCEPT ![t] = Loop]
    /\ UNCHANGED <<svc, stored, handle, asked>>

\* _run_background_continue ends and gives up the handle, if it is its own.
Exit(w) ==
    /\ th[w].pc = "exit"
    /\ th' = [th EXCEPT ![w] = IdleThread]
    /\ handle' = IF handle = w THEN None ELSE handle
    /\ UNCHANGED <<svc, stored, asked>>

-------------------------------------------------------------------------------
Continues == [IdleThread EXCEPT !.pc = "continue"]

\* continue_in_background: at most one at a time, whatever state it works on.
ContinueStarts ==
    /\ th["request"].pc = "continue"
    /\ \A w \in Workers : handle = w => ~Alive(w)
    /\ \E w \in Workers :
          /\ ~Alive(w)
          /\ handle' = w
          /\ th' = [th EXCEPT ![w] = Loop, !["request"] = IdleThread]
    /\ refused' = refused \ {svc.job}
    /\ UNCHANGED <<svc, stored, crossed>>

\* The refusal is an event for the user; the callers ignore it.
ContinueRefused ==
    /\ th["request"].pc = "continue"
    /\ \E w \in Workers : handle = w /\ Alive(w)
    /\ th' = [th EXCEPT !["request"] = IdleThread]
    /\ refused' = refused \cup {svc.job}
    /\ UNCHANGED <<svc, stored, handle, crossed>>

\* resume_job: the snapshot, its index not behind the completed phases.
Restored(w) ==
    [w EXCEPT !.idx = IF \E p \in w.done : p >= w.idx
                      THEN 1 + CHOOSE p \in w.done : \A q \in w.done : q <= p
                      ELSE @]

\* Variant: the job is switched but the results in memory are kept.
Load_KeepsResults(j) ==
    [job |-> j, work |-> [Restored(stored[j]) EXCEPT !.made = svc.work.made]]

Load(j) == [job |-> j, work |-> Restored(stored[j])]

\* What a command acts on: the active job, or the one it names, loaded first.
Named == {Load(j) : j \in {i \in Jobs : stored[i] # None}}
Selected == {svc} \cup Named

\* A decision about the state as it is in memory takes no job up.
Decided(s) == IF s = svc THEN UNCHANGED crossed ELSE TakenUp(s.job)

\* start_job: a state of its own, run on the request thread until it blocks.
\* Jobs bounds how many are started.
Run ==
    /\ Command
    /\ \E j \in Jobs : stored[j] = None
    /\ svc' = [job |-> None, work |-> Fresh]
    /\ th' = [th EXCEPT !["request"] = Loop]
    /\ TakenUp(None)
    /\ UNCHANGED <<stored, handle, refused>>

Resume ==
    /\ Command
    /\ svc' \in Named
    /\ TakenUp(svc'.job)
    /\ UNCHANGED <<stored, th, handle, refused>>

\* /retry: the job is loaded, its failure forgotten, and continued.
Retry ==
    /\ Command
    /\ \E s \in Named : svc' = [s EXCEPT !.work.failed = FALSE]
    /\ TakenUp(svc'.job)
    /\ th' = [th EXCEPT !["request"] = Continues]
    /\ UNCHANGED <<stored, handle, refused>>

\* Variant: the approval is noted and the worker forgotten.
Approve_NotContinued ==
    /\ Command
    /\ \E s \in Selected :
          /\ s.work.ask = "pending"
          /\ svc' = [s EXCEPT !.work.ask = "approved", !.work.idx = Codegen,
                              !.work.done = @ \ {Codegen}, !.work.failed = FALSE]
          /\ Decided(s)
    /\ UNCHANGED <<stored, th, handle, refused>>

\* /approve, /confirm approve: the repair is approved, in memory, and continued.
Approve ==
    /\ Command
    /\ \E s \in Selected :
          /\ s.work.ask = "pending"
          /\ svc' = [s EXCEPT !.work.ask = "approved", !.work.idx = Codegen,
                              !.work.done = @ \ {Codegen}, !.work.failed = FALSE]
          /\ Decided(s)
    /\ th' = [th EXCEPT !["request"] = Continues]
    /\ UNCHANGED <<stored, handle, refused>>

Reject ==
    /\ Command
    /\ \E s \in Selected :
          LET w == [s.work EXCEPT !.ask = "rejected", !.failed = TRUE] IN
          /\ s.work.ask = "pending"
          /\ svc' = [s EXCEPT !.work = w]
          /\ stored' = IF s.job = None THEN stored ELSE [stored EXCEPT ![s.job] = w]
          /\ Decided(s)
    /\ UNCHANGED <<th, handle, refused>>

\* /step: one phase on the request thread, unless a decision is awaited.
Step ==
    /\ Command
    /\ svc.job # None /\ svc.work.ask # "pending" /\ svc.work.idx \in Phases
    /\ th' = [th EXCEPT !["request"] = [pc |-> "node", phase |-> svc.work.idx,
                                        on |-> svc.job, once |-> TRUE]]
    /\ TakenUp(svc.job)
    /\ UNCHANGED <<svc, stored, handle, refused>>

Init ==
    /\ svc = [job |-> None, work |-> Fresh]
    /\ stored = [j \in Jobs |-> None]
    /\ th = [t \in Threads |-> IdleThread]
    /\ handle = None
    /\ refused = {}
    /\ crossed = {}

ThreadStep(t) ==
    \/ PickPhase(t)
    \/ Prepare(t)
    \/ Merge(t)
    \/ Commit(t)
    \/ PhaseFails(t)
    \/ Check(t)

ContinueInBackground == ContinueStarts \/ ContinueRefused

UserCommand == Run \/ Resume \/ Retry \/ Approve \/ Reject \/ Step

Next ==
    \/ \E t \in Threads : ThreadStep(t)
    \/ \E w \in Workers : Exit(w)
    \/ ContinueInBackground
    \/ UserCommand

Spec == Init /\ [][Next]_vars

\* The operating system schedules the threads, and every node returns or raises: tools
\* and builds run under timeouts, and providers are assumed to answer or to fail (their
\* timeouts are off unless RADAGENT_ENABLE_MODEL_TIMEOUTS is set, see ModelCalls).
\* Nothing makes the user do anything.
FairSpec ==
    /\ Spec
    /\ \A t \in Threads : WF_vars(ThreadStep(t))
    /\ \A w \in Workers : WF_vars(Exit(w))
    /\ WF_vars(ContinueInBackground)

-------------------------------------------------------------------------------
(* What the web workbench promises the users of one service.  What a command does *)
(* that takes a job up beside a worker cannot be promised: the worker's results   *)
(* land in that job.  What can is that nothing else is ever harmed.               *)

Busy(t) == th[t].pc \in {"node", "merged", "check"}

\* The results a stored job rests on were computed from that job's own state, and none
\* of them was lost to a reload (run_phase's merge against resume_job).
OwnResults ==
    \A j \in Jobs \ crossed : stored[j] # None =>
        \A p \in stored[j].done : stored[j].made[p] = j

\* README: "/resume <job_id> restore the latest persisted job snapshot": what a job
\* restores is its own work, never that of the job that was active before.
NoForeignResults ==
    \A j \in Jobs \ crossed : stored[j] # None =>
        \A p \in Phases : stored[j].made[p] \in {j, None}

\* A stored job's completed phases are all the phases before its index: no switch,
\* retry, single step or decision makes the workflow jump over one.
StoredIsPrefix ==
    \A j \in Jobs \ crossed : stored[j] # None =>
        stored[j].done = {p \in Phases : p < stored[j].idx}

\* However commands and continuations are timed, at most one worker runs, and the
\* service knows it (continue_in_background against the end of the thread).
OneWorker == \A w \in Workers : Alive(w) => handle = w

\* Commands come at any moment of a worker's loop, and the loop goes on with whatever job
\* they put into the service.  The harm is confined to that job: every job that was never
\* taken up or stepped beside a worker, the one the worker was started for included, is
\* stored with its own work only, complete up to its index.
JobsInOrder == TypeOK /\ OneWorker /\ OwnResults /\ NoForeignResults /\ StoredIsPrefix

\* While a decision on the active job's repair is awaited, the job stands at code
\* generation and no thread is on its way past it, though decisions may be sent while the
\* worker merges, stores or checks; at most a /retry runs the code generation again
\* (run_phase's pause, resume_job).
AwaitedMeansStopped ==
    svc.work.ask = "pending" /\ svc.job \notin crossed =>
        /\ svc.work.idx = Codegen
        /\ \A t \in Threads : Busy(t) => th[t].phase = Codegen

Working == \E t \in Threads : th[t].pc = "node" /\ th[t].phase = Codegen
ApprovalWaits(j) ==
    svc.job = j /\ svc.work.idx = Codegen /\ svc.work.ask = "approved" /\ ~svc.work.failed

\* An approved repair is acted on: a thread takes code generation up again, unless the
\* user turns to another job meanwhile or is told that the continuation was refused
\* (continue_in_background: "Continue the active workflow without blocking a UI request").
ApprovalIsActedOn ==
    \A j \in Jobs : ApprovalWaits(j) ~> (~ApprovalWaits(j) \/ Working \/ j \in refused)
===============================================================================
