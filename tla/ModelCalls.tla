------------------------------ MODULE ModelCalls ------------------------------
(* Calls to a model: ModelGateway.call and, below it, the client's streamed series *)
(* of attempts with its fallback to a series of plain requests, the retries, the    *)
(* optional deadline, and the records the user sees: a transcript per call and one  *)
(* file per job that names the call in progress.                                    *)
(*                                                                               *)
(* Every caller is a thread with an event loop of its own (the worker that runs the *)
(* phases, the request that checks the models' health), and all of a job's callers  *)
(* write the same file. The provider is the environment: it may send any number of  *)
(* chunks, end a stream early, refuse, break off, or stay silent for ever.          *)
EXTENDS Naturals, FiniteSets

CONSTANTS
    Callers,
    CallsEach,        \* bound: the calls one caller makes
    MaxRetries,       \* profile.max_retries
    Streaming,        \* RADAGENT_ENABLE_MODEL_STREAMING
    TimeoutsEnabled,  \* RADAGENT_ENABLE_MODEL_TIMEOUTS
    Nobody

ASSUME CallsAssumption ==
    /\ MaxRetries \in Nat
    /\ CallsEach \in Nat
    /\ Streaming \in BOOLEAN
    /\ TimeoutsEnabled \in BOOLEAN

VARIABLES
    call,        \* caller -> the call it is in
    made,        \* caller -> how many calls it has begun
    transcript,  \* <<caller, n>> -> what logs/model_calls says of its n-th call
    active       \* logs/active_model_call.json: the call named there and its status

vars == <<call, made, transcript, active>>

Attempts == {"stream", "post"} \X (0 .. MaxRetries)
Calls == Callers \X (1 .. CallsEach)

\* parts: the attempts whose chunks are in the lists a reply is joined from.
\* chunked: whether the progress writer has had a chunk, of any attempt.
Idle == [at |-> "idle", mode |-> "none", attempt |-> 0, parts |-> {}, chunked |-> FALSE,
         answer |-> {}]
Unwritten == [status |-> "none", answer |-> {}]

InProvider == {"ready", "sent", "backoff"}
Now(c) == <<call[c].mode, call[c].attempt>>
Id(c) == <<c, made[c]>>

\* _write_model_call_transcript: the call's own file, then the file all share.
Write(c, status, answer) ==
    /\ transcript' = [transcript EXCEPT ![Id(c)] = [status |-> status, answer |-> answer]]
    /\ active' = [of |-> Id(c), status |-> status]
Quiet == UNCHANGED <<transcript, active>>

Init ==
    /\ call = [c \in Callers |-> Idle]
    /\ made = [c \in Callers |-> 0]
    /\ transcript = [i \in Calls |-> Unwritten]
    /\ active = [of |-> Nobody, status |-> "none"]

-------------------------------------------------------------------------------
\* call, up to the first request: the record "running", and the waiting message.
Begin(c) ==
    /\ call[c].at \in {"idle", "returned", "cancelled"}
    /\ made[c] < CallsEach
    /\ made' = [made EXCEPT ![c] = @ + 1]
    /\ call' = [call EXCEPT ![c] =
                    [Idle EXCEPT !.at = "ready",
                                 !.mode = IF Streaming THEN "stream" ELSE "post"]]
    /\ LET i == <<c, made[c] + 1>> IN
       /\ transcript' = [transcript EXCEPT ![i] = [status |-> "running", answer |-> {}]]
       /\ active' = [of |-> i, status |-> "running"]

\* One request of the series. A streamed one starts with empty lists.
Send(c) ==
    /\ call[c].at = "ready"
    /\ call' = [call EXCEPT ![c].at = "sent", ![c].parts = {}]
    /\ UNCHANGED made /\ Quiet

\* A streamed chunk; on_chunk writes the first and then at most one per quarter second.
Chunk(c) ==
    /\ call[c].at = "sent" /\ call[c].mode = "stream"
    /\ call' = [call EXCEPT ![c].parts = @ \cup {Now(c)}, ![c].chunked = TRUE]
    /\ UNCHANGED made
    /\ \/ Write(c, "running", {})
       \/ call[c].chunked /\ Quiet

\* The reply is complete. A stream is when its lines end, with or without [DONE].
Answer(c) ==
    /\ call[c].at = "sent"
    /\ call' = [call EXCEPT ![c].at = "answered",
                            ![c].answer = IF call[c].mode = "post" THEN {Now(c)}
                                          ELSE call[c].parts]
    /\ UNCHANGED made /\ Quiet

\* The attempt raises. The series goes on after an error worth retrying while it has
\* attempts left; when it is over, a streamed one is followed by a plain one, and a
\* plain one by the RuntimeError call turns into a result.
Drop(c) ==
    /\ call[c].at = "sent"
    /\ \/ /\ call[c].attempt < MaxRetries
          /\ call' = [call EXCEPT ![c].at = "backoff"]
       \/ /\ call[c].mode = "stream"
          /\ call' = [call EXCEPT ![c].at = "ready", ![c].mode = "post", ![c].attempt = 0]
       \/ /\ call[c].mode = "post"
          /\ call' = [call EXCEPT ![c].at = "failed"]
    /\ UNCHANGED made /\ Quiet

NextAttempt(c) ==
    /\ call[c].at = "backoff"
    /\ call' = [call EXCEPT ![c].at = "ready", ![c].attempt = @ + 1]
    /\ UNCHANGED made /\ Quiet

\* A reply call_openai_compatible_* cannot take apart: no choices, no message.
Malformed(c) ==
    /\ call[c].at = "sent" /\ call[c].mode = "post"
    /\ call' = [call EXCEPT ![c].at = "failed"]
    /\ UNCHANGED made /\ Quiet

\* Variant: no deadline while an attempt is being received.
Deadline_BetweenAttempts(c) ==
    /\ TimeoutsEnabled
    /\ call[c].at \in {"ready", "backoff"}
    /\ call' = [call EXCEPT ![c].at = "failed"]
    /\ UNCHANGED made /\ Quiet
\* asyncio.wait_for around the whole provider call, if timeouts are enabled.
Deadline(c) ==
    /\ TimeoutsEnabled
    /\ call[c].at \in InProvider
    /\ call' = [call EXCEPT ![c].at = "failed"]
    /\ UNCHANGED made /\ Quiet

\* The caller is cancelled: a health check past its limit, an interrupted TUI worker.
\* CancelledError is no Exception, so nothing after the provider call runs.
Cancel(c) ==
    /\ call[c].at \in InProvider
    /\ call' = [call EXCEPT ![c].at = "cancelled"]
    /\ UNCHANGED made /\ Quiet

\* Variant: the call in progress is kept as it is when there was no answer.
Close_Quietly(c) ==
    /\ call[c].at \in {"answered", "failed"}
    /\ call' = [call EXCEPT ![c].at = "returned"]
    /\ IF call[c].at = "answered" THEN Write(c, "passed", call[c].answer)
       ELSE /\ transcript' = [transcript EXCEPT ![Id(c)] =
                                  [status |-> "failed", answer |-> {}]]
            /\ UNCHANGED active
    /\ UNCHANGED made
\* call, from the provider's answer or error to the result.
Close(c) ==
    /\ call[c].at \in {"answered", "failed"}
    /\ call' = [call EXCEPT ![c].at = "returned"]
    /\ IF call[c].at = "answered" THEN Write(c, "passed", call[c].answer)
                                  ELSE Write(c, "failed", {})
    /\ UNCHANGED made

Own(c) == Begin(c) \/ Send(c) \/ NextAttempt(c) \/ Deadline(c) \/ Close(c)
Provider(c) == Chunk(c) \/ Answer(c) \/ Drop(c) \/ Malformed(c)
AllDone == \A c \in Callers : call[c].at \in {"returned", "cancelled"} /\ made[c] = CallsEach
Next == (\E c \in Callers : Own(c) \/ Provider(c) \/ Cancel(c)) \/ (AllDone /\ UNCHANGED vars)

Spec == Init /\ [][Next]_vars

\* Threads go on and clocks run; nothing is assumed of the provider, and none begins
\* a call because it must.
FairSpec ==
    /\ Spec
    /\ \A c \in Callers : WF_vars(Send(c)) /\ WF_vars(NextAttempt(c)) /\ WF_vars(Close(c))
                          /\ WF_vars(Deadline(c))

-------------------------------------------------------------------------------
(* What ModelCalls must not get wrong: whose words an answer is made of, whether    *)
(* the records tell the truth, and whether a call ends.                             *)

(* A stream may break off after half an answer, be tried again, break off again     *)
(* and be replaced by a plain request. Whatever came before, the content a call     *)
(* returns is that of one attempt only, the last one.                                *)
AnswerOfOneAttempt ==
    \A c \in Callers :
        call[c].at = "returned" /\ transcript[Id(c)].status = "passed" =>
            transcript[Id(c)].answer \subseteq {Now(c)}

(* The user sees the transcripts and the call named in the file all callers share.  *)
(* A call that has returned is shown as running by neither: no late chunk reopens    *)
(* its transcript, and its name in the shared file, if no other caller has replaced  *)
(* it, goes with its own outcome. (A cancelled call stays "running" in both.)         *)
ReturnedIsClosed ==
    \A c \in Callers : call[c].at = "returned" =>
        /\ transcript[Id(c)].status \in {"passed", "failed"}
        /\ active.of = Id(c) => active.status = transcript[Id(c)].status

\* What a call returns is one attempt's answer, and the records agree that it is over.
ReturnedIsTrue == AnswerOfOneAttempt /\ ReturnedIsClosed

(* With timeouts enabled a provider that falls silent, at any point of any attempt,  *)
(* does not hold a phase for ever: the call returns, or its caller gives up.         *)
CallsEnd ==
    TimeoutsEnabled =>
        \A c \in Callers : call[c].at = "sent" ~> call[c].at \in {"returned", "cancelled"}
===============================================================================
