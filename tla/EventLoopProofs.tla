---------------------------- MODULE EventLoopProofs ----------------------------
(* The parts that wait and are overtaken while they do: the calls to models, and the *)
(* terminal's workers. ReturnedIsTrue for any number of callers, calls and attempts;  *)
(* StartedAsApproved for any requests and briefings of any length.                   *)
EXTENDS ModelCalls, Console, TLAPS

Tried == {"none", "stream", "post"} \X Nat

CallState == [at : {"idle", "ready", "sent", "backoff", "answered", "failed", "returned",
               "cancelled"},
         mode : {"none", "stream", "post"}, attempt : Nat, parts : SUBSET Tried,
     chunked : BOOLEAN, answer : SUBSET Tried]

Record == [status : {"none", "running", "passed", "failed"}, answer : SUBSET Tried]

CallsTyped ==
    /\ call \in [Callers -> CallState]
    /\ made \in [Callers -> 0 .. CallsEach]
    /\ \A c \in Callers : call[c].at # "idle" => made[c] >= 1
    /\ transcript \in [Calls -> Record]
    /\ DOMAIN active = {"of", "status"}

\* What is collected while an attempt is received, and what is taken from it, is of that
\* attempt. This is what the reset in Send is for.
OfThisAttempt(c) ==
    /\ call[c].at = "sent" => call[c].parts \subseteq {Now(c)}
    /\ call[c].at = "answered" => call[c].answer \subseteq {Now(c)}

Closed(c) ==
    call[c].at = "returned" =>
        /\ transcript[Id(c)].status \in {"passed", "failed"}
        /\ transcript[Id(c)].status = "passed" => transcript[Id(c)].answer \subseteq {Now(c)}
        /\ active.of = Id(c) => active.status = transcript[Id(c)].status

CallsInv == CallsTyped /\ \A c \in Callers : OfThisAttempt(c) /\ Closed(c)

-------------------------------------------------------------------------------
\* The last call of a caller has a transcript of its own.
LEMMA OwnTranscript ==
    ASSUME CallsTyped, NEW c \in Callers, call[c].at # "idle"
    PROVE  Id(c) \in Calls
BY DEF CallsTyped, Id, Calls

\* What a caller does to its own call says nothing of another's.
LEMMA Apart ==
    ASSUME CallsInv, NEW c \in Callers, NEW d \in Callers, c # d,
           NEW i \in {<<c, made[c]>>, <<c, made[c] + 1>>}, NEW r \in Record,
           call'[d] = call[d], made'[d] = made[d],
           \/ transcript' = [transcript EXCEPT ![i] = r]
              /\ active' = [of |-> i, status |-> r.status]
           \/ UNCHANGED <<transcript, active>>
    PROVE  (OfThisAttempt(d) /\ Closed(d))'
<1>1. OfThisAttempt(d)'
  BY DEF CallsInv, OfThisAttempt, Now
<1>2. ASSUME call[d].at = "returned" PROVE Closed(d)'
  <2>1. Id(d) \in Calls /\ Id(d)' = Id(d) /\ Id(d) # i
    BY <1>2, OwnTranscript DEF CallsInv, Id
  <2>2. transcript'[Id(d)] = transcript[Id(d)]
    BY <2>1 DEF CallsInv, CallsTyped
  <2>3. CASE active' = [of |-> i, status |-> r.status]
    <3>1. active'.of # Id(d)
      BY <2>1, <2>3
    <3> QED BY <1>2, <2>1, <2>2, <3>1 DEF CallsInv, Closed, Now
  <2>4. CASE UNCHANGED <<transcript, active>>
    BY <1>2, <2>1, <2>2, <2>4 DEF CallsInv, Closed, Now
  <2> QED BY <2>3, <2>4
<1>3. call[d].at # "returned" => Closed(d)'
  BY DEF Closed
<1> QED BY <1>1, <1>2, <1>3

\* A step that changes only how far a call is, and leaves the records alone, without
\* collecting, answering or returning.
LEMMA Goes ==
    ASSUME CallsInv, NEW c \in Callers, call[c].at # "idle", NEW r \in CallState,
           r.at \in {"ready", "backoff", "failed", "cancelled"},
           call' = [call EXCEPT ![c] = r], UNCHANGED <<made, transcript, active>>
    PROVE  CallsInv'
<1>1. CallsTyped'
  BY DEF CallsInv, CallsTyped
<1>2. ASSUME NEW d \in Callers PROVE (OfThisAttempt(d) /\ Closed(d))'
  <2>1. CASE d = c
    BY <2>1 DEF CallsInv, CallsTyped, OfThisAttempt, Closed
  <2>2. CASE d # c
    BY <2>2 DEF CallsInv, CallsTyped, OfThisAttempt, Closed, Now, Id
  <2> QED BY <2>1, <2>2
<1> QED BY <1>1, <1>2 DEF CallsInv

LEMMA CallStart == Init => CallsInv
<1> SUFFICES ASSUME Init PROVE CallsInv
  OBVIOUS
<1>1. CallsTyped
  BY CallsAssumption DEF Init, CallsTyped, CallState, Record, Idle, Unwritten
<1> QED BY <1>1 DEF CallsInv, OfThisAttempt, Closed, Init, Idle

LEMMA Begun ==
    ASSUME CallsInv, NEW c \in Callers, Begin(c)
    PROVE  CallsInv'
<1> DEFINE i == <<c, made[c] + 1>>
           r == [status |-> "running", answer |-> {}]
           ready == [Idle EXCEPT !.at = "ready", !.mode = IF Streaming THEN "stream" ELSE "post"]
<1>1. i \in Calls /\ r \in Record /\ made[c] + 1 \in 1 .. CallsEach /\ made'[c] = made[c] + 1
  BY CallsAssumption DEF CallsInv, CallsTyped, Begin, Calls, Record
<1>2. ready \in CallState /\ ready.at = "ready"
  BY DEF CallState, Idle
<1>3. /\ call' = [call EXCEPT ![c] = ready]
      /\ made' = [made EXCEPT ![c] = @ + 1]
      /\ transcript' = [transcript EXCEPT ![i] = r]
      /\ active' = [of |-> i, status |-> r.status]
  BY DEF Begin
<1> HIDE DEF i, r, ready
<1>4. CallsTyped'
  <2>1. call' \in [Callers -> CallState] /\ made' \in [Callers -> 0 .. CallsEach]
    BY <1>1, <1>2, <1>3 DEF CallsInv, CallsTyped
  <2>2. transcript' \in [Calls -> Record] /\ DOMAIN active' = {"of", "status"}
    BY <1>1, <1>3 DEF CallsInv, CallsTyped
  <2>3. \A d \in Callers : call'[d].at # "idle" => made'[d] >= 1
    BY <1>1, <1>3 DEF CallsInv, CallsTyped
  <2> QED BY <2>1, <2>2, <2>3 DEF CallsTyped
<1>5. ASSUME NEW d \in Callers PROVE (OfThisAttempt(d) /\ Closed(d))'
  <2>1. CASE d = c
    BY <2>1, <1>2, <1>3 DEF CallsInv, CallsTyped, OfThisAttempt, Closed
  <2>2. CASE d # c
    <3>1. call'[d] = call[d] /\ made'[d] = made[d] /\ i \in {<<c, made[c]>>, <<c, made[c] + 1>>}
      BY <2>2, <1>3 DEF CallsInv, CallsTyped, i
    <3> QED BY <2>2, <3>1, <1>1, <1>3, Apart
  <2> QED BY <2>1, <2>2
<1> QED BY <1>4, <1>5 DEF CallsInv

\* The attempt begins with nothing collected.
LEMMA Sent ==
    ASSUME CallsInv, NEW c \in Callers, Send(c)
    PROVE  CallsInv'
<1> DEFINE r == [call[c] EXCEPT !.at = "sent", !.parts = {}]
<1>1. r \in CallState /\ r.at = "sent" /\ r.parts = {}
  BY DEF CallsInv, CallsTyped, CallState
<1>2. /\ call' = [call EXCEPT ![c] = r] /\ call[c].at # "idle"
      /\ UNCHANGED <<made, transcript, active>>
  BY DEF Send, Quiet
<1> HIDE DEF r
<1>3. CallsTyped'
  BY <1>1, <1>2 DEF CallsInv, CallsTyped
<1>4. ASSUME NEW d \in Callers PROVE (OfThisAttempt(d) /\ Closed(d))'
  <2>1. CASE d = c
    BY <2>1, <1>1, <1>2 DEF CallsInv, CallsTyped, OfThisAttempt, Closed
  <2>2. CASE d # c
    BY <2>2, <1>2 DEF CallsInv, CallsTyped, OfThisAttempt, Closed, Now, Id
  <2> QED BY <2>1, <2>2
<1> QED BY <1>3, <1>4 DEF CallsInv

\* A chunk is of the attempt that is being received.
LEMMA Chunked ==
    ASSUME CallsInv, NEW c \in Callers, Chunk(c)
    PROVE  CallsInv'
<1> DEFINE r == [call[c] EXCEPT !.parts = @ \cup {Now(c)}, !.chunked = TRUE]
           w == [status |-> "running", answer |-> {}]
<1>1. /\ r \in CallState /\ r.at = "sent" /\ r.parts = call[c].parts \cup {Now(c)}
      /\ r.mode = call[c].mode /\ r.attempt = call[c].attempt
  <2>1. call[c] \in CallState /\ Now(c) \in Tried /\ call[c].at = "sent"
    BY DEF CallsInv, CallsTyped, CallState, Chunk, Now, Tried
  <2>2. PICK ps \in SUBSET Tried : ps = call[c].parts \cup {Now(c)}
    BY <2>1 DEF CallState
  <2>3. r = [call[c] EXCEPT !.parts = ps, !.chunked = TRUE]
    BY <2>2
  <2> QED BY <2>1, <2>2, <2>3 DEF CallState
<1>0. call' = [call EXCEPT ![c] = r]
  <2>1. PICK ps : ps = call[c].parts \cup {Now(c)}
    OBVIOUS
  <2>2. call' = [call EXCEPT ![c].parts = ps, ![c].chunked = TRUE]
    BY <2>1 DEF Chunk
  <2>3. r = [call[c] EXCEPT !.parts = ps, !.chunked = TRUE]
    BY <2>1
  <2> QED BY <2>2, <2>3
<1>2. /\ call' = [call EXCEPT ![c] = r] /\ call[c].at = "sent" /\ made' = made
      /\ \/ transcript' = [transcript EXCEPT ![Id(c)] = w]
            /\ active' = [of |-> Id(c), status |-> w.status]
         \/ UNCHANGED <<transcript, active>>
  BY <1>0 DEF Chunk, Quiet, Write
<1>3. w \in Record /\ Id(c) \in Calls
  BY <1>2, OwnTranscript DEF Record, CallsInv
<1> HIDE DEF r, w
<1>4. CallsTyped'
  <2>1. call' \in [Callers -> CallState] /\ \A d \in Callers : call'[d].at # "idle" => made'[d] >= 1
    BY <1>1, <1>2 DEF CallsInv, CallsTyped
  <2>2. transcript' \in [Calls -> Record] /\ DOMAIN active' = {"of", "status"}
    BY <1>2, <1>3 DEF CallsInv, CallsTyped
  <2> QED BY <1>2, <2>1, <2>2 DEF CallsInv, CallsTyped
<1>5. ASSUME NEW d \in Callers PROVE (OfThisAttempt(d) /\ Closed(d))'
  <2>1. CASE d = c
    BY <2>1, <1>1, <1>2 DEF CallsInv, CallsTyped, OfThisAttempt, Closed, Now
  <2>2. CASE d # c
    <3>1. call'[d] = call[d] /\ made'[d] = made[d] /\ Id(c) \in {<<c, made[c]>>, <<c, made[c] + 1>>}
      BY <2>2, <1>2 DEF CallsInv, CallsTyped, Id
    <3> QED BY <2>2, <3>1, <1>2, <1>3, Apart
  <2> QED BY <2>1, <2>2
<1> QED BY <1>4, <1>5 DEF CallsInv

\* So the answer is.
LEMMA Answered ==
    ASSUME CallsInv, NEW c \in Callers, Answer(c)
    PROVE  CallsInv'
<1> DEFINE a == IF call[c].mode = "post" THEN {Now(c)} ELSE call[c].parts
           r == [call[c] EXCEPT !.at = "answered", !.answer = a]
<1>1. a \subseteq {Now(c)} /\ a \subseteq Tried
  BY DEF CallsInv, CallsTyped, CallState, Answer, Now, Tried, OfThisAttempt
<1>2. /\ call' = [call EXCEPT ![c] = r] /\ call[c].at = "sent"
      /\ UNCHANGED <<made, transcript, active>>
  BY DEF Answer, Quiet
<1> HIDE DEF a
<1>3. /\ r \in CallState /\ r.at = "answered" /\ r.answer = a
      /\ r.mode = call[c].mode /\ r.attempt = call[c].attempt
  <2>1. call[c] \in CallState
    BY DEF CallsInv, CallsTyped
  <2>2. r \in CallState
    BY <1>1, <2>1 DEF CallState
  <2> QED BY <2>1, <2>2 DEF CallState
<1> HIDE DEF r
<1>4. CallsTyped'
  BY <1>2, <1>3 DEF CallsInv, CallsTyped
<1>5. ASSUME NEW d \in Callers PROVE (OfThisAttempt(d) /\ Closed(d))'
  <2>1. CASE d = c
    BY <2>1, <1>1, <1>2, <1>3 DEF CallsInv, CallsTyped, OfThisAttempt, Closed, Now
  <2>2. CASE d # c
    BY <2>2, <1>2 DEF CallsInv, CallsTyped, OfThisAttempt, Closed, Now, Id
  <2> QED BY <2>1, <2>2
<1> QED BY <1>4, <1>5 DEF CallsInv

\* The steps between attempts, and the ways out.
LEMMA Went ==
    ASSUME CallsInv, NEW c \in Callers,
           Drop(c) \/ NextAttempt(c) \/ Malformed(c) \/ Deadline(c) \/ Cancel(c)
    PROVE  CallsInv'
<1>1. call[c] \in CallState
  BY DEF CallsInv, CallsTyped
<1> DEFINE goes(r) == /\ r \in CallState /\ r.at \in {"ready", "backoff", "failed", "cancelled"}
                      /\ call' = [call EXCEPT ![c] = r]
<1>2. \E r : goes(r)
  <2>1. CASE Drop(c)
    <3>1. goes([call[c] EXCEPT !.at = "backoff"])
          \/ goes([call[c] EXCEPT !.at = "ready", !.mode = "post", !.attempt = 0])
          \/ goes([call[c] EXCEPT !.at = "failed"])
      BY <1>1, <2>1 DEF Drop, CallState
    <3> QED BY <3>1
  <2>2. CASE NextAttempt(c)
    <3>1. PICK n \in Nat : n = call[c].attempt + 1
      BY <1>1 DEF CallState
    <3>2. call' = [call EXCEPT ![c].at = "ready", ![c].attempt = n]
      BY <2>2, <3>1 DEF NextAttempt
    <3>3. goes([call[c] EXCEPT !.at = "ready", !.attempt = n])
      BY <1>1, <3>2 DEF CallState
    <3> QED BY <3>3
  <2>3. CASE Malformed(c) \/ Deadline(c)
    <3>1. goes([call[c] EXCEPT !.at = "failed"])
      BY <1>1, <2>3 DEF Malformed, Deadline, CallState
    <3> QED BY <3>1
  <2>4. CASE Cancel(c)
    <3>1. goes([call[c] EXCEPT !.at = "cancelled"])
      BY <1>1, <2>4 DEF Cancel, CallState
    <3> QED BY <3>1
  <2> QED BY <2>1, <2>2, <2>3, <2>4
<1>3. call[c].at # "idle" /\ UNCHANGED <<made, transcript, active>>
  BY DEF Drop, NextAttempt, Malformed, Deadline, Cancel, Quiet, InProvider
<1> QED BY <1>2, <1>3, Goes

\* The outcome is written to the transcript and to the shared file in one go.
LEMMA Returned ==
    ASSUME CallsInv, NEW c \in Callers, Close(c)
    PROVE  CallsInv'
<1> DEFINE r == [call[c] EXCEPT !.at = "returned"]
           w == IF call[c].at = "answered" THEN [status |-> "passed", answer |-> call[c].answer]
                ELSE [status |-> "failed", answer |-> {}]
<1>1. /\ r \in CallState /\ r.at = "returned" /\ r.mode = call[c].mode
      /\ r.attempt = call[c].attempt
  BY DEF CallsInv, CallsTyped, CallState
<1>2. /\ w \in Record /\ w.status \in {"passed", "failed"}
      /\ w.status = "passed" => w.answer \subseteq {Now(c)}
  BY DEF CallsInv, CallsTyped, CallState, Record, OfThisAttempt
<1>3. /\ call' = [call EXCEPT ![c] = r] /\ call[c].at # "idle" /\ made' = made
      /\ transcript' = [transcript EXCEPT ![Id(c)] = w]
      /\ active' = [of |-> Id(c), status |-> w.status]
  BY DEF Close, Write
<1>4. Id(c) \in Calls
  BY <1>3, OwnTranscript DEF CallsInv
<1> HIDE DEF r, w
<1>5. CallsTyped'
  <2>1. call' \in [Callers -> CallState] /\ \A d \in Callers : call'[d].at # "idle" => made'[d] >= 1
    BY <1>1, <1>3 DEF CallsInv, CallsTyped
  <2>2. transcript' \in [Calls -> Record] /\ DOMAIN active' = {"of", "status"}
    BY <1>2, <1>3, <1>4 DEF CallsInv, CallsTyped
  <2> QED BY <1>3, <2>1, <2>2 DEF CallsInv, CallsTyped
<1>6. ASSUME NEW d \in Callers PROVE (OfThisAttempt(d) /\ Closed(d))'
  <2>1. CASE d = c
    <3>1. call'[d] = r /\ Now(d)' = Now(c) /\ Id(d)' = Id(c)
      BY <2>1, <1>1, <1>3 DEF CallsInv, CallsTyped, Now, Id
    <3>2. transcript'[Id(d)'] = w
      BY <3>1, <1>3, <1>4 DEF CallsInv, CallsTyped
    <3> QED BY <3>1, <3>2, <1>1, <1>2, <1>3 DEF OfThisAttempt, Closed
  <2>2. CASE d # c
    <3>1. call'[d] = call[d] /\ made'[d] = made[d] /\ Id(c) \in {<<c, made[c]>>, <<c, made[c] + 1>>}
      BY <2>2, <1>3 DEF CallsInv, CallsTyped, Id
    <3> QED BY <2>2, <3>1, <1>2, <1>3, Apart
  <2> QED BY <2>1, <2>2
<1> QED BY <1>5, <1>6 DEF CallsInv

LEMMA CallStep == CallsInv /\ [Next]_vars => CallsInv'
<1> SUFFICES ASSUME CallsInv, [Next]_vars PROVE CallsInv'
  OBVIOUS
<1>1. CASE UNCHANGED vars
  BY <1>1 DEF vars, CallsInv, CallsTyped, OfThisAttempt, Closed, Now, Id
<1>2. ASSUME NEW c \in Callers, Own(c) \/ Provider(c) \/ Cancel(c) PROVE CallsInv'
  BY <1>2, Begun, Sent, Chunked, Answered, Went, Returned DEF Own, Provider
<1> QED BY <1>1, <1>2 DEF Next

\* However many callers share the records, whatever the provider sends, breaks off or
\* keeps to itself: the content of a call that returned is of one attempt, the last, and
\* neither its transcript nor the file all callers share shows it as running.
THEOREM ReturnedTrue == Spec => []ReturnedIsTrue
<1>1. CallsInv => ReturnedIsTrue
  BY DEF CallsInv, Closed, ReturnedIsTrue, AnswerOfOneAttempt, ReturnedIsClosed
<1> QED BY <1>1, CallStart, CallStep, PTL DEF Spec

-------------------------------------------------------------------------------
(* The terminal.                                                                   *)

\* The composer's worker: one that briefs knows what is asked for, and what was taken
\* along when the user approved was ready and waits for its summary.
Thinks ==
    /\ ctl \in [at : {"idle", "classify", "brief", "summarize"},
                request : Requests \cup {None}, turns : 0..MaxTurns,
                brief : Brief \cup {None}]
    /\ ctl.at \in {"classify", "brief"} => ctl.request \in Requests
    /\ ctl.at = "brief" => ctl.turns # 0
    /\ ctl.at = "summarize" => ctl.brief \in Brief /\ ctl.brief.ready = TRUE
    /\ ctl.brief # None => ctl.at = "summarize"

\* The operation: one that chats, or goes on to brief, knows what is asked for, and one
\* that has a brief is the start of that brief's request.
Works ==
    /\ op \in [kind : Kinds \cup {None}, stage : {"call", "run", "brief"},
               request : Requests \cup {None}, brief : Brief \cup {None}]
    /\ op.kind = "chat" \/ op.stage = "brief" => op.request \in Requests
    /\ op.brief # None => op.kind = "start" /\ op.request = op.brief.request

Shows == pending \in Brief \cup {None} /\ approved \in Brief \cup {None}
Marks == held \in BOOLEAN /\ unwinding \in BOOLEAN /\ busy \in BOOLEAN
Serves == svc \in [job : Requests \cup {None}, asks : BOOLEAN]

ConsoleInv == Thinks /\ Works /\ Shows /\ Marks /\ Serves

\* What is left alone stays as it should be.
LEMMA Frame ==
    /\ Thinks /\ UNCHANGED ctl => Thinks'
    /\ Works /\ UNCHANGED op => Works'
    /\ Shows /\ UNCHANGED <<pending, approved>> => Shows'
    /\ Marks /\ UNCHANGED <<held, unwinding, busy>> => Marks'
    /\ Serves /\ UNCHANGED svc => Serves'
<1>1. Thinks /\ UNCHANGED ctl => Thinks'
  BY DEF Thinks
<1>2. Works /\ UNCHANGED op => Works'
  BY DEF Works
<1>3. /\ Shows /\ UNCHANGED <<pending, approved>> => Shows'
      /\ Marks /\ UNCHANGED <<held, unwinding, busy>> => Marks'
      /\ Serves /\ UNCHANGED svc => Serves'
  BY DEF Shows, Marks, Serves
<1> QED BY <1>1, <1>2, <1>3

\* Idle, a worker is as it should be.
LEMMA AtRest ==
    /\ ctl' = NoCall => Thinks'
    /\ op' = NoOp => Works'
BY ConsoleAssumption DEF Thinks, Works, NoCall, NoOp, Kinds

\* Whatever is asked for, an answer is a brief of it.
LEMMA AnswersAreBriefs ==
    ASSUME NEW request \in Requests, NEW turns \in 1 .. MaxTurns,
           NEW b \in Answers(request, turns)
    PROVE  b \in Brief
<1>1. CASE b \in ModelBriefs(request, turns)
  BY <1>1 DEF ModelBriefs, Brief, Queries
<1>2. CASE b = FallbackBrief(request, turns)
  BY <1>2 DEF FallbackBrief, Brief, Queries
<1> QED BY <1>1, <1>2 DEF Answers

\* A call is an operation, if what it is about is there.
LEMMA CallsAreOperations ==
    ASSUME Works, Marks, NEW kind \in Kinds, NEW request \in Requests \cup {None},
           NEW brief \in Brief \cup {None}, StartOperation(Call(kind, request, brief)),
           kind = "chat" => request \in Requests,
           brief # None => kind = "start" /\ request = brief.request
    PROVE  Works' /\ Marks'
<1>1. CASE busy
  BY <1>1, Frame DEF StartOperation, opVars
<1>2. CASE ~busy
  <2>1. op' = [kind |-> kind, stage |-> "call", request |-> request, brief |-> brief]
    BY <1>2 DEF StartOperation, Call
  <2>2. held' = TRUE /\ busy' = TRUE /\ unwinding' = (unwinding \/ op # NoOp)
    BY <1>2 DEF StartOperation
  <2>3. unwinding' \in BOOLEAN
    BY <2>2
  <2>4. Works'
    BY <2>1 DEF Works
  <2> QED BY <2>2, <2>3, <2>4 DEF Marks
<1> QED BY <1>1, <1>2

LEMMA ConsoleStart == ConsoleInit => ConsoleInv
<1> SUFFICES ASSUME ConsoleInit PROVE ConsoleInv
  OBVIOUS
<1>1. Thinks /\ Works
  BY ConsoleAssumption DEF ConsoleInit, Thinks, Works, NoCall, NoOp, Kinds
<1>2. Shows /\ Marks /\ Serves
  BY DEF ConsoleInit, Shows, Marks, Serves
<1> QED BY <1>1, <1>2 DEF ConsoleInv

\* What the user does.
LEMMA Typing ==
    ASSUME ConsoleInv, Ask \/ Reply \/ CancelBrief \/ Approve \/ Resume \/ Interrupt
    PROVE  ConsoleInv'
<1>1. CASE Ask
  <2>1. PICK q \in Requests : ctl' = [at |-> "classify", request |-> q, turns |-> 0,
                                     brief |-> None]
    BY <1>1 DEF Ask, NoCall
  <2>2. Thinks'
    BY <2>1, ConsoleAssumption DEF Thinks
  <2> QED BY <1>1, <2>2, Frame DEF Ask, ConsoleInv
<1>2. CASE Reply
  <2>1. pending \in Brief /\ pending.request \in Requests /\ pending.turns + 1 \in 1 .. MaxTurns
    BY <1>2, ConsoleAssumption DEF Reply, ConsoleInv, Shows, Brief
  <2>2. ctl' = [at |-> "brief", request |-> pending.request, turns |-> pending.turns + 1,
                brief |-> None]
    BY <1>2 DEF Reply, NoCall
  <2>3. Thinks'
    BY <2>1, <2>2 DEF Thinks
  <2> QED BY <1>2, <2>3, Frame DEF Reply, ConsoleInv
<1>3. CASE CancelBrief
  <2>1. Shows'
    BY <1>3 DEF CancelBrief, ConsoleInv, Shows
  <2> QED BY <1>3, <2>1, Frame DEF CancelBrief, ConsoleInv
<1>4. CASE Approve
  <2>1. pending \in Brief /\ pending.ready = TRUE
    BY <1>4 DEF Approve, ConsoleInv, Shows, Brief
  <2>2. ctl' = [at |-> "summarize", request |-> None, turns |-> 0, brief |-> pending]
    BY <1>4 DEF Approve, NoCall
  <2>3. Thinks'
    BY <2>1, <2>2, ConsoleAssumption DEF Thinks
  <2> QED BY <1>4, <2>3, Frame DEF Approve, ConsoleInv
<1>5. CASE Resume
  <2>1. Serves'
    BY <1>5 DEF Resume, Serves
  <2> QED BY <1>5, <2>1, Frame DEF Resume, ConsoleInv
<1>6. CASE Interrupt
  <2>1. CASE ctl' = NoCall /\ UNCHANGED <<pending, approved, op, held, unwinding, busy, svc>>
    BY <2>1, Frame, AtRest DEF ConsoleInv
  <2>2. CASE /\ op' = NoOp /\ held' = FALSE /\ busy' = FALSE /\ unwinding' = TRUE
             /\ UNCHANGED <<pending, approved, ctl, svc>>
    <3>1. Marks'
      BY <2>2 DEF Marks
    <3> QED BY <2>2, <3>1, Frame, AtRest DEF ConsoleInv
  <2> QED BY <1>6, <2>1, <2>2 DEF Interrupt
<1> QED BY <1>1, <1>2, <1>3, <1>4, <1>5, <1>6

\* The commands, which start an operation if none is under way.
LEMMA Commanding ==
    ASSUME ConsoleInv, Command \/ Decide \/ Retry
    PROVE  ConsoleInv'
<1>1. \E kind \in Kinds, request \in Requests \cup {None} :
          /\ StartOperation(Call(kind, request, None))
          /\ kind = "chat" => request \in Requests
  BY DEF Command, Decide, Retry, Kinds
<1>2. UNCHANGED <<pending, approved, ctl>>
  BY DEF Command, Decide, Retry
<1>3. Serves'
  BY DEF Command, Decide, Retry, ConsoleInv, Serves
<1>4. Works' /\ Marks'
  BY <1>1, CallsAreOperations DEF ConsoleInv
<1> QED BY <1>2, <1>3, <1>4, Frame DEF ConsoleInv

\* The copilot's worker.
LEMMA Copiloting ==
    ASSUME ConsoleInv, Copilot
    PROVE  ConsoleInv'
<1>1. CASE Classified
  <2>1. ctl.at = "classify" /\ ctl.request \in Requests /\ ctl.brief = None
    BY <1>1 DEF Classified, ConsoleInv, Thinks
  <2>2. UNCHANGED <<pending, approved, svc>>
    BY <1>1 DEF Classified
  <2>3. CASE ctl' = [ctl EXCEPT !.at = "brief", !.turns = 1] /\ UNCHANGED opVars
    <3>1. 1 \in 0 .. MaxTurns
      BY ConsoleAssumption
    <3>2. ctl' = [at |-> "brief", request |-> ctl.request, turns |-> 1, brief |-> None]
      BY <2>1, <2>3 DEF ConsoleInv, Thinks
    <3>3. Thinks'
      BY <2>1, <3>1, <3>2, ConsoleAssumption DEF Thinks
    <3> QED BY <2>2, <2>3, <3>3, Frame DEF opVars, ConsoleInv
  <2>4. CASE ctl' = NoCall /\ UNCHANGED opVars
    BY <2>2, <2>4, Frame, AtRest DEF opVars, ConsoleInv
  <2>5. CASE ctl' = NoCall /\ StartOperation(Call("chat", ctl.request, None))
    <3>1. "chat" \in Kinds
      BY DEF Kinds
    <3>2. Works' /\ Marks'
      BY <2>1, <2>5, <3>1, CallsAreOperations DEF ConsoleInv
    <3> QED BY <2>2, <2>5, <3>2, Frame, AtRest DEF ConsoleInv
  <2> QED BY <1>1, <2>3, <2>4, <2>5 DEF Classified
<1>2. CASE Briefed
  <2>1. ctl.request \in Requests /\ ctl.turns \in 1 .. MaxTurns
    BY <1>2, ConsoleAssumption DEF Briefed, ConsoleInv, Thinks
  <2>2. pending' \in Brief \cup {None}
    BY <1>2, <2>1, AnswersAreBriefs DEF Briefed, ConsoleInv, Shows
  <2>3. Shows'
    BY <1>2, <2>2 DEF Briefed, ConsoleInv, Shows
  <2> QED BY <1>2, <2>3, Frame, AtRest DEF Briefed, ConsoleInv
<1>3. CASE Summarized
  <2>1. ctl.brief \in Brief /\ ctl.brief.request \in Requests /\ "start" \in Kinds
    BY <1>3 DEF Summarized, ConsoleInv, Thinks, Brief, Kinds
  <2>2. Works' /\ Marks'
    BY <1>3, <2>1, CallsAreOperations DEF Summarized, ConsoleInv
  <2>3. Shows'
    BY <1>3, <2>1 DEF Summarized, Shows
  <2> QED BY <1>3, <2>2, <2>3, Frame, AtRest DEF Summarized, ConsoleInv
<1> QED BY <1>1, <1>2, <1>3 DEF Copilot

\* The operation, and a cancelled one beside it.
LEMMA Operating ==
    ASSUME ConsoleInv, Operation
    PROVE  ConsoleInv'
<1>1. CASE Begins
  <2>1. Works'
    BY <1>1 DEF Begins, ConsoleInv, Works
  <2>2. Serves'
    BY <1>1 DEF Begins, ConsoleInv, Works, Serves
  <2> QED BY <1>1, <2>1, <2>2, Frame DEF Begins, ConsoleInv
<1>2. CASE Runs
  <2>1. PICK b \in BOOLEAN : svc' = [svc EXCEPT !.asks = b]
    BY <1>2 DEF Runs
  <2>2. Serves'
    BY <2>1 DEF ConsoleInv, Serves
  <2> QED BY <1>2, <2>2, Frame DEF Runs, ConsoleInv
<1>3. CASE Ends
  <2>1. Marks'
    BY <1>3 DEF Ends, Done, ConsoleInv, Marks
  <2> QED BY <1>3, <2>1, Frame, AtRest DEF Ends, Done, ConsoleInv
<1>4. CASE ChatProposes
  <2>1. Works'
    BY <1>4 DEF ChatProposes, ConsoleInv, Works
  <2> QED BY <1>4, <2>1, Frame DEF ChatProposes, ConsoleInv
<1>5. CASE ChatBriefed
  <2>1. pending' \in Brief \cup {None}
    <3>1. op.request \in Requests /\ 1 \in 1 .. MaxTurns
      BY <1>5, ConsoleAssumption DEF ChatBriefed, ConsoleInv, Works
    <3> QED BY <1>5, <3>1, AnswersAreBriefs DEF ChatBriefed, ConsoleInv, Shows
  <2>2. Shows'
    BY <1>5, <2>1 DEF ChatBriefed, ConsoleInv, Shows
  <2>3. Marks'
    BY <1>5 DEF ChatBriefed, Done, ConsoleInv, Marks
  <2> QED BY <1>5, <2>2, <2>3, Frame, AtRest DEF ChatBriefed, Done, ConsoleInv
<1>6. CASE Unwinds
  <2>1. Marks'
    BY <1>6 DEF Unwinds, Marks
  <2> QED BY <1>6, <2>1, Frame DEF Unwinds, ConsoleInv
<1> QED BY <1>1, <1>2, <1>3, <1>4, <1>5, <1>6 DEF Operation

LEMMA ConsoleStep == ConsoleInv /\ [ConsoleNext]_consoleVars => ConsoleInv'
<1> SUFFICES ASSUME ConsoleInv, [ConsoleNext]_consoleVars PROVE ConsoleInv'
  OBVIOUS
<1>1. CASE UNCHANGED consoleVars
  BY <1>1, Frame DEF consoleVars, ConsoleInv
<1> QED BY <1>1, Typing, Commanding, Copiloting, Operating DEF ConsoleNext, User

\* Only the summary's step gives an operation a brief, and only its start keeps one.
LEMMA StartsWhatWasTaken ==
    ASSUME ConsoleInv, [ConsoleNext]_consoleVars, op'.brief # None, op' # op
    PROVE  IF op.brief = op'.brief /\ op.stage = "call"
           THEN Begins
           ELSE op'.brief = ctl.brief /\ op'.brief.ready /\ approved' = ctl.brief
<1>1. CASE Begins
  BY <1>1 DEF Begins, ConsoleInv, Works
<1>2. CASE Summarized
  <2>1. /\ op' = [kind |-> "start", stage |-> "call", request |-> ctl.brief.request,
                  brief |-> ctl.brief]
        /\ approved' = ctl.brief /\ ctl.brief.ready
    BY <1>2 DEF Summarized, StartOperation, Call, opVars, ConsoleInv, Thinks
  <2>2. ~(op.brief = op'.brief /\ op.stage = "call")
    <3> SUFFICES ASSUME op.brief = ctl.brief, op.stage = "call" PROVE FALSE
      BY <2>1
    <3>1. op.kind = "start" /\ op.request = ctl.brief.request
      BY <2>1 DEF ConsoleInv, Works
    <3>2. op = op'
      BY <2>1, <3>1 DEF ConsoleInv, Works
    <3> QED BY <3>2
  <2> QED BY <2>1, <2>2
<1>3. ASSUME ~Begins, ~Summarized PROVE FALSE
  <2>1. CASE User
    <3>1. CASE Ask \/ Reply \/ CancelBrief \/ Approve \/ Resume
      BY <3>1 DEF Ask, Reply, CancelBrief, Approve, Resume
    <3>2. CASE Command \/ Decide \/ Retry
      BY <3>2 DEF Command, Decide, Retry, StartOperation, opVars, Call
    <3>3. CASE Interrupt
      BY <3>3 DEF Interrupt, NoOp
    <3> QED BY <2>1, <3>1, <3>2, <3>3 DEF User
  <2>2. CASE Classified \/ Briefed
    BY <2>2 DEF Classified, Briefed, StartOperation, opVars, Call
  <2>3. CASE Runs \/ Ends \/ ChatBriefed \/ Unwinds
    BY <2>3 DEF Runs, Ends, ChatBriefed, Unwinds, Done, NoOp
  <2>4. CASE ChatProposes
    BY <2>4 DEF ChatProposes, ConsoleInv, Works
  <2>5. CASE UNCHANGED consoleVars
    BY <2>5 DEF consoleVars
  <2> QED BY <1>3, <2>1, <2>2, <2>3, <2>4, <2>5 DEF ConsoleNext, Copilot, Operation
<1> QED BY <1>1, <1>2, <1>3

\* Whatever else the user types, whichever worker is cancelled and however late it
\* unwinds, and whatever another answer makes of the pending brief meanwhile: what is
\* started with a brief is the ready brief that was approved, and nothing else.
THEOREM StartsAsApproved == ConsoleSpec => StartedAsApproved
<1>1. ConsoleInv /\ [ConsoleNext]_consoleVars =>
        [ op'.brief # None /\ op' # op =>
            IF op.brief = op'.brief /\ op.stage = "call"
            THEN Begins
            ELSE op'.brief = ctl.brief /\ op'.brief.ready /\ approved' = ctl.brief ]_consoleVars
  BY StartsWhatWasTaken
<1> QED BY <1>1, ConsoleStart, ConsoleStep, PTL DEF ConsoleSpec, StartedAsApproved
===============================================================================
