------------------------------- MODULE AgentLoop -------------------------------
(* run_agent_loop as code generation and its repair use it: the model answers or *)
(* calls tools, the results go back to it, until it stops, the smoke test has     *)
(* passed, a failure repeats itself too often, or the turns are used up.          *)
(*                                                                                *)
(* A message is its role and the ids that tie tool results to tool calls; how      *)
(* messages are shortened before they are sent is at the end of the module.        *)
EXTENDS Integers, Sequences, FiniteSets
LOCAL INSTANCE Functions

CONSTANTS
    MaxTurns,       \* max_turns
    MaxStalls,      \* max_stalls, with a stall_nudge
    RepeatLimit,    \* repeated_tool_result_limit; 0 switches it off
    MaxBatch,       \* bound: tool calls in one answer
    Diagnostics,    \* what a failing tool may report
    GivesIds        \* TRUE: the provider names every tool call

ASSUME LoopAssumption ==
    /\ MaxTurns \in Nat /\ MaxStalls \in Nat /\ RepeatLimit \in Nat
    /\ MaxBatch \in Nat \ {0}
    /\ "ok" \notin Diagnostics
    /\ GivesIds \in BOOLEAN

VARIABLES
    pc,         \* "model", "tools", "results", "hooks" or "done"
    turn,       \* the loop variable
    stalls,     \* answers without a tool call that were nudged
    failures,   \* repeated_failures, by fingerprint
    messages,   \* the conversation
    batch,      \* the tool calls of this turn
    results,    \* their results not yet worked through
    trace,      \* DevToolkit.trace: the calls that were executed
    audit,      \* tool_audit
    outcome     \* stop_reason and n_turns

vars == <<pc, turn, stalls, failures, messages, batch, results, trace, audit, outcome>>

\* A tool that reads, one that changes the project, one that judges it.
Tools == {"read_file", "edit_file", "run_smoke"}
Results == {"ok"} \cup Diagnostics
Fingerprints == Tools \X Diagnostics

\* An id the provider gives, the one made up for a call without, and none.
GivenId(t, i) == <<t, i>>
MadeUpId(i) == <<-1, i>>
NoId == <<>>
Ids == {GivenId(t, i) : t \in 0..MaxTurns, i \in 1..MaxBatch}
          \cup {MadeUpId(i) : i \in 1..MaxBatch} \cup {NoId}

Batches == UNION {[1..n -> Tools] : n \in 1..MaxBatch}

Message == [role : {"user", "assistant", "tool"}, ids : Seq(Ids)]
Says(role) == [role |-> role, ids |-> <<>>]

Reasons == {"natural", "empty", "stop_hook", "max_turns", "error",
            "stalled_repeated_tool_result"}
NoOutcome == [reason |-> "none", turns |-> 0]

TypeOK ==
    /\ pc \in {"model", "tools", "results", "hooks", "done"}
    /\ turn \in 0..MaxTurns /\ stalls \in 0..MaxStalls
    /\ failures \in [Fingerprints -> Nat]
    /\ messages \in Seq(Message)
    /\ batch \in Batches \cup {<<>>}
    /\ results \in Seq(Results) /\ Len(results) <= Len(batch)
    /\ trace \subseteq (0..MaxTurns) \X (1..MaxBatch)
    /\ audit \in Seq([turn : 0..MaxTurns, at : 1..MaxBatch, name : Tools, result : Results])
    /\ outcome \in [reason : Reasons, turns : 0..MaxTurns] \cup {NoOutcome}

-------------------------------------------------------------------------------
Return(reason, turns) ==
    /\ outcome' = [reason |-> reason, turns |-> turns]
    /\ pc' = "done"

\* The head of the for loop.
NextTurn ==
    /\ turn' = turn + 1
    /\ IF turn + 1 < MaxTurns
       THEN pc' = "model" /\ UNCHANGED outcome
       ELSE Return("max_turns", MaxTurns)

\* The id the assistant message repeats, and the one its result refers to.
AssistantId(i) == IF GivesIds THEN GivenId(turn, i) ELSE MadeUpId(i)
CallId(i) == IF GivesIds THEN GivenId(turn, i) ELSE NoId

\* Variant: the assistant message does not carry its calls back.
CallsTools_Bare ==
    /\ pc = "model"
    /\ batch' \in Batches
    /\ messages' = Append(messages, Says("assistant"))
    /\ pc' = "tools"
    /\ UNCHANGED <<turn, stalls, failures, results, trace, audit, outcome>>

CallsTools ==
    /\ pc = "model"
    /\ batch' \in Batches
    /\ messages' = Append(messages, [role |-> "assistant",
                                     ids |-> [i \in DOMAIN batch' |-> AssistantId(i)]])
    /\ pc' = "tools"
    /\ UNCHANGED <<turn, stalls, failures, results, trace, audit, outcome>>

\* An answer without a tool call: nudged while stalls are left.
Answers ==
    /\ pc = "model"
    /\ IF stalls < MaxStalls
       THEN /\ stalls' = stalls + 1
            /\ messages' = messages \o <<Says("assistant"), Says("user")>>
            /\ NextTurn
       ELSE /\ messages' = Append(messages, Says("assistant"))
            /\ \E reason \in {"natural", "empty"} : Return(reason, turn + 1)
            /\ UNCHANGED <<turn, stalls>>
    /\ UNCHANGED <<failures, batch, results, trace, audit>>

\* The gateway turns every exception and timeout into an error.
ModelFails ==
    /\ pc = "model"
    /\ Return("error", turn)
    /\ UNCHANGED <<turn, stalls, failures, messages, batch, results, trace, audit>>

\* _dispatch_tool_calls: all of them run, together or in turn, before any result is
\* looked at; a tool that raises has a result too.
Dispatch ==
    /\ pc = "tools"
    /\ results' \in [DOMAIN batch -> Results]
    /\ trace' = trace \cup {<<turn, i>> : i \in DOMAIN batch}
    /\ pc' = "results"
    /\ UNCHANGED <<turn, stalls, failures, messages, batch, audit, outcome>>

Position == Len(batch) - Len(results) + 1

\* Variant: a failure counts against whatever the tool reported before.
Counted_AnyResult(name, result) ==
    [f \in Fingerprints |-> IF f[1] = name THEN failures[f] + 1 ELSE failures[f]]

Counted(name, result) ==
    IF RepeatLimit = 0 \/ result = "ok" THEN failures
    ELSE [failures EXCEPT ![<<name, result>>] = @ + 1]

\* Variant: only failures are put on record.
Audited_FailuresOnly(entry) ==
    IF entry.result = "ok" THEN audit ELSE Append(audit, entry)

Audited(entry) == Append(audit, entry)

\* Variant: what the tools report is dropped and the calls are made again.
Result_Retries ==
    /\ pc = "results" /\ results # <<>>
    /\ pc' = "tools" /\ results' = <<>>
    /\ UNCHANGED <<turn, stalls, failures, messages, batch, trace, audit, outcome>>

\* One result: on record, counted if it is a failure, and answered to the model
\* unless the loop gives up on it.
Result ==
    LET i == Position
        name == batch[i]
        result == Head(results)
        stop == \E f \in Fingerprints : /\ Counted(name, result)[f] > failures[f]
                                        /\ Counted(name, result)[f] >= RepeatLimit
    IN  /\ pc = "results" /\ results # <<>>
        /\ audit' = Audited([turn |-> turn, at |-> i, name |-> name, result |-> result])
        /\ failures' = Counted(name, result)
        /\ results' = Tail(results)
        /\ IF stop
           THEN /\ Return("stalled_repeated_tool_result", turn + 1)
                /\ UNCHANGED messages
           ELSE /\ messages' = Append(messages, [role |-> "tool", ids |-> <<CallId(i)>>])
                /\ pc' = IF Len(results) = 1 THEN "hooks" ELSE "results"
                /\ UNCHANGED outcome
        /\ UNCHANGED <<turn, stalls, batch, trace>>

\* _smoke_passed: the last smoke test on record.
SmokePassed ==
    \E i \in DOMAIN audit :
        /\ audit[i].name = "run_smoke" /\ audit[i].result = "ok"
        /\ \A k \in DOMAIN audit : k > i => audit[k].name # "run_smoke"

StopHook == SmokePassed

\* nudge_hook may add a message; then stop_hook decides.
Hooks ==
    /\ pc = "hooks"
    /\ \/ UNCHANGED messages
       \/ messages' = Append(messages, Says("user"))
    /\ IF StopHook
       THEN Return("stop_hook", turn + 1) /\ UNCHANGED turn
       ELSE NextTurn
    /\ UNCHANGED <<stalls, failures, batch, results, trace, audit>>

Init ==
    /\ turn = 0 /\ stalls = 0
    /\ failures = [f \in Fingerprints |-> 0]
    /\ messages = <<Says("user")>>
    /\ batch = <<>> /\ results = <<>> /\ trace = {} /\ audit = <<>>
    /\ IF MaxTurns = 0
       THEN pc = "done" /\ outcome = [reason |-> "max_turns", turns |-> 0]
       ELSE pc = "model" /\ outcome = NoOutcome

Next == CallsTools \/ Answers \/ ModelFails \/ Dispatch \/ Result \/ Hooks

Spec == Init /\ [][Next]_vars

\* The coroutine goes on: model calls time out, tools return.
FairSpec == Spec /\ WF_vars(Next)

-------------------------------------------------------------------------------
(* What of the agent's conversation is sent to the model: all of it if it fits, and *)
(* otherwise a copy in which old tool results and the arguments of tool calls, then  *)
(* the recent results, and at last what was said is shortened until the copy fits    *)
(* (_prepare_messages_for_prompt).  The conversation itself keeps everything.        *)
(*                                                                                   *)
(* Of a message only its length is kept; the budget is what the system prompt, which *)
(* is never shortened, leaves of it.                                                 *)

CONSTANTS
    Chars,          \* length of a message, by its role and its place modulo Period
    Period,         \* bound: lengths repeat after so many messages
    CallChars,      \* length of the arguments of one tool call
    MaxHistory,     \* max_history_chars; 0 for none
    Threshold,      \* tokens of the context window that may be used
    AnswerTokens,   \* max_tokens, set aside for the answer
    RecentResults,  \* preserve_recent_tool_messages
    ToolLimits,     \* limits of results and arguments (1200, 500, 280)
    PlainLimits,    \* limits of what was said (2000, 800, 360)
    Frame,          \* what the summary of a result adds to what it quotes
    Mark            \* what the mark of an omission adds to the limit

ASSUME PromptAssumption ==
    /\ Period \in Nat \ {0}
    /\ Chars \in [{"user", "assistant", "tool"} \X (0..Period - 1) -> Nat]
    /\ CallChars \in Nat /\ MaxHistory \in Nat
    /\ Threshold \in Nat /\ AnswerTokens \in Nat /\ RecentResults \in Nat
    /\ ToolLimits \in [1..3 -> Nat] /\ PlainLimits \in [1..3 -> Nat]
    /\ Frame \in Nat /\ Mark \in Nat

Least(m, n) == IF m <= n THEN m ELSE n

By(role) == {k \in DOMAIN messages : messages[k].role = role}

\* The message itself, and its length in the conversation: of its content, and of the
\* arguments of each call in it.
Whole ==
    [k \in DOMAIN messages |->
        [said |-> Chars[<<messages[k].role, k % Period>>],
         args |-> IF messages[k].role = "assistant" THEN CallChars ELSE 0]]

\* _message_content_chars
Total(lens) ==
    FoldFunction(LAMBDA m, n : m + n, 0,
                 [k \in DOMAIN lens |-> lens[k].said + lens[k].args * Len(messages[k].ids)])

\* _effective_max_history_chars: four characters a token.  Counting the tools' schemas in
\* makes the code try to shorten sooner, but not shorten.
Budget ==
    LET window == IF Threshold > AnswerTokens THEN 4 * (Threshold - AnswerTokens) ELSE 1
    IN  IF MaxHistory = 0 THEN window ELSE Least(MaxHistory, window)

\* The results preserved at first, and the last nudge, which is never shortened; the first
\* message, the task, is no nudge.
Recent == {k \in By("tool") : Cardinality({j \in By("tool") : j > k}) < RecentResults}
IsNudge(k) == k # 1 /\ k \in By("user") /\ \A j \in By("user") : j <= k

\* _compact_tool_message_content puts a summary in place of any result, short ones too.
ShortenResults(lens, spared, limit) ==
    [k \in DOMAIN lens |->
        IF k \in By("tool") \ spared
        THEN [lens[k] EXCEPT !.said = Least(lens[k].said + Frame, limit)] ELSE lens[k]]

\* _compact_assistant_tool_call_arguments
ShortenCalls(lens, limit) ==
    [k \in DOMAIN lens |->
        IF k \in By("assistant") THEN [lens[k] EXCEPT !.args = Least(lens[k].args, limit)]
        ELSE lens[k]]

\* _compact_non_tool_messages
ShortenPlain(lens, limit) ==
    [k \in DOMAIN lens |->
        IF k \notin By("tool") /\ ~IsNudge(k) /\ lens[k].said > limit
        THEN [lens[k] EXCEPT !.said = limit + Mark] ELSE lens[k]]

\* _compact_messages_for_prompt, pass by pass.
ShortenTools(lens, spared, n) ==
    ShortenCalls(ShortenResults(lens, spared, ToolLimits[n]), ToolLimits[n])
Pass1 == ShortenTools(Whole, Recent, 1)
Pass2 == ShortenTools(Pass1, Recent, 2)
Pass3 == ShortenTools(Pass2, {}, 3)
Pass4 == ShortenPlain(Pass3, PlainLimits[1])
Pass5 == ShortenPlain(Pass4, PlainLimits[2])
Pass6 == ShortenPlain(Pass5, PlainLimits[3])

\* The first copy that fits; the last one is sent whether it fits or not.
Sent ==
    LET copies == <<Whole, Pass1, Pass2, Pass3, Pass4, Pass5, Pass6>>
        fits(i) == Total(copies[i]) <= Budget
    IN  copies[CHOOSE i \in 1..7 : (i = 7 \/ fits(i)) /\ \A j \in 1..i - 1 : ~fits(j)]
===============================================================================
