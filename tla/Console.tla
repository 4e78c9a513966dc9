------------------------------- MODULE Console --------------------------------
(* The terminal: the composer's dispatch, the copilot worker that briefs a         *)
(* simulation before it is started, and the operation worker that runs one         *)
(* service call.  Both workers and the key bindings share one event loop; what     *)
(* one reads before an await another may have replaced after it.                   *)
EXTENDS Naturals

CONSTANTS
    Requests,    \* what the user asks to simulate
    MaxTurns,    \* bound: turns of one briefing
    None

\* What an operation may be.
Kinds == {"chat", "start", "continue", "decide", "other"}

ASSUME ConsoleAssumption ==
    /\ MaxTurns \in Nat \ {0}
    /\ None \notin Requests \cup Kinds

VARIABLES
    pending,     \* the controller's pending_brief
    approved,    \* last_approved_briefing
    ctl,         \* the copilot worker: what it awaits, and what it read before
    op,          \* the operation that runs, and what it awaits
    held,        \* _operation_worker refers to it
    unwinding,   \* a cancelled operation has not yet run its finally clause
    busy,        \* _busy
    svc          \* the active job: its request, and whether it awaits the user

opVars == <<op, held, unwinding, busy>>
consoleVars == <<pending, approved, ctl, op, held, unwinding, busy, svc>>

\* What a brief would start: everything asked so far, the last answer alone, nothing.
Queries == {"whole", "answer", "none"}
Brief == [request : Requests, turns : 1..MaxTurns, ready : BOOLEAN, query : Queries]

NoCall == [at |-> "idle", request |-> None, turns |-> 0, brief |-> None]
NoOp == [kind |-> None, stage |-> "call", request |-> None, brief |-> None]
Call(kind, request, brief) ==
    [kind |-> kind, stage |-> "call", request |-> request, brief |-> brief]

TypeOK ==
    /\ pending \in Brief \cup {None}
    /\ approved \in Brief \cup {None}
    /\ ctl \in [at : {"idle", "classify", "brief", "summarize"},
                request : Requests \cup {None}, turns : 0..MaxTurns,
                brief : Brief \cup {None}]
    /\ op \in [kind : Kinds \cup {None}, stage : {"call", "run", "brief"},
               request : Requests \cup {None}, brief : Brief \cup {None}]
    /\ held \in BOOLEAN
    /\ unwinding \in BOOLEAN
    /\ busy \in BOOLEAN
    /\ svc \in [job : Requests \cup {None}, asks : BOOLEAN]

-------------------------------------------------------------------------------
\* _start_operation: refused while another one is under way, and then closed.
StartOperation(call) ==
    IF busy
    THEN UNCHANGED opVars
    ELSE /\ op' = call
         /\ held' = TRUE
         /\ busy' = TRUE
         /\ unwinding' = (unwinding \/ op # NoOp)   \* exclusive: cancels the other

\* What the model makes of the conversation: validation lets a brief through that
\* is ready and has no query.
ModelBriefs(request, turns) ==
    {[request |-> request, turns |-> turns, ready |-> ready, query |-> query] :
        ready \in BOOLEAN, query \in {"whole", "none"}}

\* When the call failed or its answer cannot be used the brief is ready at once, and
\* knows only the last message.
FallbackBrief(request, turns) ==
    [request |-> request, turns |-> turns, ready |-> TRUE,
     query |-> IF turns = 1 THEN "whole" ELSE "answer"]

Answers(request, turns) ==
    ModelBriefs(request, turns) \cup {FallbackBrief(request, turns)}

-------------------------------------------------------------------------------
\* Text goes to the copilot, one message at a time and never beside an operation.
Composes == ~busy /\ ctl = NoCall

\* handle_text without a brief: the intent is asked for first.
Ask ==
    /\ Composes /\ pending = None
    /\ \E q \in Requests : ctl' = [NoCall EXCEPT !.at = "classify", !.request = q]
    /\ UNCHANGED <<pending, approved, op, held, unwinding, busy, svc>>

\* A simulation is briefed, anything else is talk, and the question can fail.
Classified ==
    /\ ctl.at = "classify"
    /\ \/ /\ ctl' = [ctl EXCEPT !.at = "brief", !.turns = 1]
          /\ UNCHANGED opVars
       \/ /\ ctl' = NoCall
          /\ StartOperation(Call("chat", ctl.request, None)) \/ UNCHANGED opVars
    /\ UNCHANGED <<pending, approved, svc>>

\* _handle_briefing_reply: the user answers, and the whole conversation goes back.
Reply ==
    /\ Composes /\ pending # None /\ pending.turns < MaxTurns
    /\ ctl' = [NoCall EXCEPT !.at = "brief", !.request = pending.request,
                             !.turns = pending.turns + 1]
    /\ UNCHANGED <<pending, approved, op, held, unwinding, busy, svc>>

CancelBrief ==
    /\ Composes /\ pending # None
    /\ pending' = None
    /\ UNCHANGED <<approved, ctl, op, held, unwinding, busy, svc>>

\* The user approves what is shown; its summary is asked for before it starts.
Approve ==
    /\ Composes /\ pending # None
    /\ pending.ready /\ pending.query # "none"
    /\ ctl' = [NoCall EXCEPT !.at = "summarize", !.brief = pending]
    /\ UNCHANGED <<pending, approved, op, held, unwinding, busy, svc>>

\* _continue_briefing ends, with an answer that is shown or with an error.
Briefed ==
    /\ ctl.at = "brief"
    /\ \/ \E b \in Answers(ctl.request, ctl.turns) : pending' = b
       \/ UNCHANGED pending
    /\ ctl' = NoCall
    /\ UNCHANGED <<approved, op, held, unwinding, busy, svc>>

\* Variant: what is started is the brief pending after the summary was awaited.
Summarized_Rereads ==
    /\ ctl.at = "summarize"
    /\ approved' = pending
    /\ pending' = None
    /\ ctl' = NoCall
    /\ StartOperation(IF pending = None THEN Call("other", None, None)
                      ELSE Call("start", pending.request, pending))
    /\ UNCHANGED <<svc>>

\* The summary is there, or could not be had: the approved brief becomes a job.
Summarized ==
    /\ ctl.at = "summarize"
    /\ approved' = ctl.brief
    /\ pending' = None
    /\ ctl' = NoCall
    /\ StartOperation(Call("start", ctl.brief.request, ctl.brief))
    /\ UNCHANGED <<svc>>

-------------------------------------------------------------------------------
\* Slash commands are served at any time.  /run starts without a briefing; /chat,
\* /step, /build, /simulate and /accept-revision are calls of the service.
Command ==
    /\ \/ \E q \in Requests : \/ StartOperation(Call("start", q, None))
                              \/ StartOperation(Call("chat", q, None))
       \/ StartOperation(Call("continue", None, None))
       \/ StartOperation(Call("other", None, None))
    /\ UNCHANGED <<pending, approved, ctl, svc>>

\* /approve, /reject, /ask-more, and a plain approval when no brief is pending.
Decide ==
    /\ svc.asks
    /\ StartOperation(Call("decide", None, None))
    /\ UNCHANGED <<pending, approved, ctl, svc>>

\* /resume replaces the active job, whatever is running; /retry then continues it.
Resume ==
    /\ \E q \in Requests, asks \in BOOLEAN : svc' = [job |-> q, asks |-> asks]
    /\ UNCHANGED <<pending, approved, ctl, op, held, unwinding, busy>>

Retry ==
    /\ \E q \in Requests, asks \in BOOLEAN : svc' = [job |-> q, asks |-> asks]
    /\ StartOperation(Call("continue", None, None))
    /\ UNCHANGED <<pending, approved, ctl>>

\* ctrl+c cancels the copilot's answer, else the operation, which ends later.
Interrupt ==
    \/ /\ ctl # NoCall
       /\ ctl' = NoCall
       /\ UNCHANGED <<pending, approved, op, held, unwinding, busy, svc>>
    \/ /\ ctl = NoCall /\ held
       /\ op' = NoOp /\ held' = FALSE /\ busy' = FALSE
       /\ unwinding' = TRUE
       /\ UNCHANGED <<pending, approved, ctl, svc>>

-------------------------------------------------------------------------------
\* What the operation does to the active job: start_job replaces it, the loop runs
\* until it awaits the user or stops.
Begins ==
    /\ op.kind = "start" /\ op.stage = "call"
    /\ svc' = [job |-> op.request, asks |-> FALSE]
    /\ op' = [op EXCEPT !.stage = "run"]
    /\ UNCHANGED <<pending, approved, ctl, held, unwinding, busy>>

Runs ==
    /\ op.kind \in {"continue", "decide"} \/ op.stage = "run"
    /\ svc.job # None
    /\ svc' = [svc EXCEPT !.asks = ~@]
    /\ UNCHANGED <<pending, approved, ctl, op, held, unwinding, busy>>

Done == op' = NoOp /\ held' = FALSE /\ busy' = FALSE

\* Variant: a call that fails leaves the terminal busy.
Ends_Busy ==
    /\ op # NoOp /\ op.stage # "brief"
    /\ op' = NoOp /\ held' = FALSE
    /\ UNCHANGED <<pending, approved, ctl, unwinding, busy, svc>>

\* _run_operation after its call, which returned or raised.
Ends ==
    /\ op # NoOp /\ op.stage # "brief"
    /\ Done
    /\ UNCHANGED <<pending, approved, ctl, unwinding, svc>>

\* The copilot recognised a simulation: the operation goes on to brief it ...
ChatProposes ==
    /\ op.kind = "chat" /\ op.stage = "call"
    /\ op' = [op EXCEPT !.stage = "brief"]
    /\ UNCHANGED <<pending, approved, ctl, held, unwinding, busy, svc>>

\* ... and this brief replaces the one that is pending.
ChatBriefed ==
    /\ op.stage = "brief"
    /\ \/ \E b \in Answers(op.request, 1) : pending' = b
       \/ UNCHANGED pending
    /\ Done
    /\ UNCHANGED <<approved, ctl, unwinding, svc>>

\* The finally clause of a cancelled operation, beside whatever has been started
\* since.
Unwinds ==
    /\ unwinding
    /\ unwinding' = FALSE
    /\ held' = FALSE /\ busy' = FALSE
    /\ UNCHANGED <<pending, approved, ctl, op, svc>>

ConsoleInit ==
    /\ pending = None /\ approved = None
    /\ ctl = NoCall
    /\ op = NoOp
    /\ held = FALSE /\ unwinding = FALSE /\ busy = FALSE
    /\ svc = [job |-> None, asks |-> FALSE]

User == Ask \/ Reply \/ CancelBrief \/ Approve \/ Command \/ Decide
        \/ Resume \/ Retry \/ Interrupt
Copilot == Classified \/ Briefed \/ Summarized
Operation == Begins \/ Runs \/ Ends \/ ChatProposes \/ ChatBriefed \/ Unwinds

ConsoleNext == User \/ Copilot \/ Operation

ConsoleSpec == ConsoleInit /\ [][ConsoleNext]_consoleVars

\* Providers answer or fail, the service's calls return, cancelled ones unwind.
FairConsoleSpec ==
    /\ ConsoleSpec
    /\ WF_consoleVars(Classified) /\ WF_consoleVars(Briefed) /\ WF_consoleVars(Summarized)
    /\ WF_consoleVars(Ends) /\ WF_consoleVars(ChatBriefed) /\ WF_consoleVars(Unwinds)

-------------------------------------------------------------------------------
(* What the terminal promises about briefings and about being busy.              *)

\* A briefed job starts with the brief that was on display, ready, when the user
\* approved it, whatever brief or job another worker has put forward while the
\* summary was awaited (controller.py _handle_briefing_reply).
StartedAsApproved ==
    [][ op'.brief # None /\ op' # op =>
          IF op.brief = op'.brief /\ op.stage = "call"
          THEN Begins
          ELSE op'.brief = ctl.brief /\ op'.brief.ready /\ approved' = ctl.brief ]_consoleVars

\* The terminal does not stay busy and the copilot does not think for ever: through
\* failures, ctrl+c and operations that end beside one another, both workers give
\* way to the next input (app.py _run_operation, _run_controller_text).
GivesWay ==
    /\ busy ~> ~busy
    /\ ctl # NoCall ~> ctl = NoCall
===============================================================================
