-------------------------- MODULE AgentLoopProperties --------------------------
(* What a run of the agent loop promises the model it talks to and the code that  *)
(* reads its result.                                                              *)
EXTENDS AgentLoop

\* Entry e is about an earlier call than f.
Before(e, f) == e.turn < f.turn \/ (e.turn = f.turn /\ e.at < f.at)

OnRecord == {<<audit[i].turn, audit[i].at>> : i \in DOMAIN audit}
Times(f) == {i \in DOMAIN audit : audit[i].name = f[1] /\ audit[i].result = f[2]}

\* Every tool call of the conversation is followed by its own result, in order and with
\* nothing between, and there is no other result.
ResultsFollow ==
    \A k \in DOMAIN messages :
        /\ \A i \in DOMAIN messages[k].ids :
              messages[k].role = "assistant" =>
                  /\ k + i \in DOMAIN messages
                  /\ messages[k + i] = [role |-> "tool", ids |-> <<messages[k].ids[i]>>]
        /\ messages[k].role = "tool" =>
              \E a \in 1..(k - 1) : /\ messages[a].role = "assistant"
                                    /\ k - a \in DOMAIN messages[a].ids

\* What was said last to get the agent going again is sent as it is; a recent result is
\* shortened only when all results have been, what was said only when all results and
\* arguments have been, and what does not fit then has nothing left to be shortened.
ShortenedFairly ==
    LET sent == Sent
        whole == Whole
        results_short == \A k \in By("tool") : sent[k].said <= ToolLimits[3]
        calls_short == \A k \in By("assistant") : sent[k].args <= ToolLimits[3]
        plain == DOMAIN messages \ By("tool")
    IN  /\ \A k \in plain : IsNudge(k) => sent[k] = whole[k]
        /\ (\A k \in Recent : sent[k] = whole[k]) \/ results_short
        /\ (\A k \in plain : sent[k].said = whole[k].said) \/ (results_short /\ calls_short)
        /\ Total(sent) <= Budget
           \/ /\ results_short /\ calls_short
              /\ \A k \in plain : IsNudge(k) \/ sent[k].said <= PlainLimits[3] + Mark

\* Whenever the model is called, it is sent a conversation a provider accepts
\* (_assistant_message: "OpenAI-compatible APIs require the assistant message to
\* carry back the tool_calls it emitted"), shortened where it is missed least.
ConversationIsWellFormed == pc = "model" => ResultsFollow /\ ShortenedFairly

\* The audit tells every call that was executed, once and in the order of the
\* conversation, except when the loop gives up on a repeated failure: it then returns
\* from the middle of a batch and leaves the rest of it, executed, off the record.
AuditIsComplete ==
    /\ \A i, k \in DOMAIN audit : i < k => Before(audit[i], audit[k])
    /\ pc \in {"model", "hooks", "done"}
       /\ outcome.reason # "stalled_repeated_tool_result" =>
          trace = OnRecord

\* The loop gives up on the first failure that has come RepeatLimit times, however
\* many turns and other failures lie between, and on nothing else.
GivesUpOnRepetition ==
    RepeatLimit > 0 =>
        (outcome.reason = "stalled_repeated_tool_result"
            <=> \E f \in Fingerprints : Cardinality(Times(f)) >= RepeatLimit)

\* A passed smoke test ends the run: the model is not called again, and the result
\* does not say that turns or ideas ran out (_smoke_passed as stop_hook).
SuccessIsNotMissed ==
    SmokePassed => pc # "model"
                   /\ outcome.reason \notin {"max_turns", "natural", "empty", "error"}

\* n_turns is the number of answers the model gave: the turns a repair
\* continuation is reckoned from.
TurnsAreAnswers ==
    pc = "done" =>
        outcome.turns = Cardinality({k \in DOMAIN messages : messages[k].role = "assistant"})

\* The code that reads the result of a run can go by it: the calls on record, the
\* success and the number of turns are what happened.
ResultIsTrue == AuditIsComplete /\ SuccessIsNotMissed /\ TurnsAreAnswers

\* Whatever the model answers, the run ends.
Ends == <>(pc = "done")
===============================================================================
