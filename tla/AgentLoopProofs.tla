---------------------------- MODULE AgentLoopProofs ----------------------------
(* What AgentLoopProperties says of one run, for any number of turns, nudges and   *)
(* calls in an answer, any repeat limit and any set of diagnostics.                *)
EXTENDS AgentLoopProperties, TLAPS, SequenceTheorems, FiniteSetTheorems

LEMMA Appended ==
    ASSUME NEW S, NEW s \in Seq(S), NEW e \in S
    PROVE  /\ Append(s, e) \in Seq(S) /\ Len(Append(s, e)) = Len(s) + 1
           /\ DOMAIN Append(s, e) = 1 .. (Len(s) + 1)
           /\ Append(s, e)[Len(s) + 1] = e
           /\ \A k \in 1 .. Len(s) : Append(s, e)[k] = s[k]
OBVIOUS

LEMMA AppendedTwo ==
    ASSUME NEW S, NEW s \in Seq(S), NEW d \in S, NEW e \in S
    PROVE  s \o <<d, e>> = Append(Append(s, d), e)
OBVIOUS

LEMMA TailOf ==
    ASSUME NEW S, NEW s \in Seq(S), Len(s) >= 1
    PROVE  Tail(s) \in Seq(S) /\ Len(Tail(s)) = Len(s) - 1 /\ Head(s) \in S
OBVIOUS

LEMMA IdsOf ==
    ASSUME NEW t \in 0..MaxTurns, NEW i \in 1..MaxBatch
    PROVE  {GivenId(t, i), MadeUpId(i), NoId} \subseteq Ids
<1>1. GivenId(t, i) \in {GivenId(u, j) : u \in 0..MaxTurns, j \in 1..MaxBatch}
  OBVIOUS
<1>2. MadeUpId(i) \in {MadeUpId(j) : j \in 1..MaxBatch}
  OBVIOUS
<1>3. NoId \in {NoId}
  OBVIOUS
<1> QED BY <1>1, <1>2, <1>3 DEF Ids

LEMMA BatchOf ==
    ASSUME NEW b \in Batches
    PROVE  b \in Seq(Tools) /\ Len(b) \in 1 .. MaxBatch /\ DOMAIN b = 1 .. Len(b)
BY LoopAssumption DEF Batches

-------------------------------------------------------------------------------
(* Types.                                                                          *)
Running == pc \in {"tools", "results"} => batch \in Batches

\* A turn is begun only if there is one left, and results are worked through to the last.
Turning ==
    /\ pc \in {"model", "tools", "results", "hooks"} => turn < MaxTurns /\ outcome = NoOutcome
    /\ pc \in {"model", "tools", "hooks"} => Len(results) = 0
    /\ pc = "results" => Len(results) >= 1

Typed == TypeOK /\ Running /\ Turning

LEMMA TypedInit == Init => Typed
<1> SUFFICES ASSUME Init PROVE Typed
  OBVIOUS
<1>1. messages \in Seq(Message)
  <2>1. Says("user") \in Message
    BY DEF Says, Message
  <2> QED BY <2>1 DEF Init
<1>2. failures \in [Fingerprints -> Nat]
  BY DEF Init
<1>3. turn \in 0..MaxTurns /\ stalls \in 0..MaxStalls /\ trace \subseteq (0..MaxTurns) \X (1..MaxBatch)
  BY LoopAssumption DEF Init
<1>4. /\ audit \in Seq([turn : 0..MaxTurns, at : 1..MaxBatch, name : Tools, result : Results])
      /\ results \in Seq(Results) /\ Len(results) <= Len(batch) /\ batch = <<>> /\ results = <<>>
  BY DEF Init
<1>5. /\ pc \in {"model", "done"} /\ pc = "model" => 0 < MaxTurns /\ outcome = NoOutcome
      /\ outcome \in [reason : Reasons, turns : 0..MaxTurns] \cup {NoOutcome}
  BY LoopAssumption DEF Init, Reasons
<1> QED BY <1>1, <1>2, <1>3, <1>4, <1>5 DEF Typed, TypeOK, Running, Turning, Init

LEMMA TypedStep == Typed /\ [Next]_vars => Typed'
<1> SUFFICES ASSUME Typed, [Next]_vars PROVE Typed'
  OBVIOUS
<1> USE DEF Typed
<1>1. CASE CallsTools
  <2>1. batch' \in Batches /\ batch' \in Seq(Tools) /\ DOMAIN batch' = 1 .. Len(batch')
        /\ Len(batch') \in 1 .. MaxBatch
    BY <1>1, BatchOf DEF CallsTools
  <2>2. [i \in DOMAIN batch' |-> AssistantId(i)] \in Seq(Ids)
    <3>1. \A i \in 1 .. Len(batch') : AssistantId(i) \in Ids
      BY <2>1, IdsOf, LoopAssumption DEF AssistantId, TypeOK
    <3> QED BY <2>1, <3>1
  <2>0. messages \in Seq(Message)
        /\ [role |-> "assistant", ids |-> [i \in DOMAIN batch' |-> AssistantId(i)]] \in Message
    BY <2>2 DEF TypeOK, Message
  <2>3. messages' \in Seq(Message)
    BY <1>1, <2>0 DEF CallsTools
  <2>4. Len(results) = 0 /\ turn < MaxTurns /\ outcome = NoOutcome
    BY <1>1 DEF CallsTools, Turning
  <2> QED BY <1>1, <2>1, <2>3, <2>4 DEF CallsTools, TypeOK, Running, Turning
<1>2. CASE Answers
  <2>1. Says("assistant") \in Message /\ Says("user") \in Message
    BY DEF Says, Message
  <2>0. messages \in Seq(Message)
    BY DEF TypeOK
  <2>2. messages' \in Seq(Message)
    <3>1. CASE messages' = messages \o <<Says("assistant"), Says("user")>>
      <4>1. <<Says("assistant"), Says("user")>> \in Seq(Message)
        BY <2>1
      <4> QED BY <2>0, <3>1, <4>1
    <3>2. CASE messages' = Append(messages, Says("assistant"))
      BY <2>0, <2>1, <3>2
    <3> QED BY <1>2, <3>1, <3>2 DEF Answers
  <2>3. turn \in Nat /\ turn < MaxTurns /\ Len(results) = 0
    BY <1>2, LoopAssumption DEF Answers, Turning, TypeOK
  <2>4. CASE stalls < MaxStalls
    BY <1>2, <2>2, <2>3, <2>4, LoopAssumption
      DEF Answers, NextTurn, Return, TypeOK, Running, Turning, Reasons
  <2>5. CASE ~(stalls < MaxStalls)
    BY <1>2, <2>2, <2>3, <2>5, LoopAssumption
      DEF Answers, Return, TypeOK, Running, Turning, Reasons
  <2> QED BY <2>4, <2>5
<1>3. CASE ModelFails
  BY <1>3 DEF ModelFails, Return, TypeOK, Running, Turning, Reasons
<1>4. CASE Dispatch
  <2>1. batch \in Batches /\ DOMAIN batch = 1 .. Len(batch) /\ Len(batch) \in 1 .. MaxBatch
    BY <1>4, BatchOf DEF Dispatch, Running
  <2>2. results' \in Seq(Results) /\ Len(results') = Len(batch)
    <3>1. results' \in [1 .. Len(batch) -> Results]
      BY <1>4, <2>1 DEF Dispatch
    <3> QED BY <2>1, <3>1
  <2>3. trace' \subseteq (0..MaxTurns) \X (1..MaxBatch)
    <3>1. \A i \in DOMAIN batch : <<turn, i>> \in (0..MaxTurns) \X (1..MaxBatch)
      BY <2>1, LoopAssumption DEF TypeOK
    <3> QED BY <1>4, <3>1 DEF Dispatch, TypeOK
  <2> QED BY <1>4, <2>1, <2>2, <2>3 DEF Dispatch, TypeOK, Running, Turning
<1>5. CASE Result
  <2>1. batch \in Batches /\ DOMAIN batch = 1 .. Len(batch) /\ Len(batch) \in 1 .. MaxBatch
        /\ batch \in Seq(Tools)
    BY <1>5, BatchOf DEF Result, Running
  <2>2. results \in Seq(Results) /\ Len(results) >= 1 /\ Len(results) <= Len(batch)
        /\ turn < MaxTurns /\ turn \in 0..MaxTurns /\ outcome = NoOutcome
    BY <1>5 DEF Result, TypeOK, Turning
  <2>3. /\ results' \in Seq(Results) /\ Len(results') = Len(results) - 1
        /\ Head(results) \in Results
    BY <1>5, <2>2 DEF Result
  <2>4. Position \in 1 .. Len(batch) /\ batch[Position] \in Tools
    BY <2>1, <2>2, <2>3 DEF Position
  <2>5. failures' \in [Fingerprints -> Nat]
    <3>1. /\ failures \in [Fingerprints -> Nat]
          /\ failures' = Counted(batch[Position], Head(results))
      BY <1>5 DEF Result, TypeOK
    <3>2. CASE RepeatLimit = 0 \/ Head(results) = "ok"
      BY <3>1, <3>2 DEF Counted
    <3>3. CASE ~(RepeatLimit = 0 \/ Head(results) = "ok")
      <4> DEFINE f == <<batch[Position], Head(results)>>
      <4>1. f \in Fingerprints
        BY <2>3, <2>4, <3>3 DEF Fingerprints, Results
      <4>2. failures' = [failures EXCEPT ![f] = @ + 1]
        BY <3>1, <3>3 DEF Counted
      <4> HIDE DEF f
      <4> QED BY <3>1, <4>1, <4>2
    <3> QED BY <3>2, <3>3
  <2>6. audit' \in Seq([turn : 0..MaxTurns, at : 1..MaxBatch, name : Tools, result : Results])
    <3>1. [turn |-> turn, at |-> Position, name |-> batch[Position], result |-> Head(results)]
            \in [turn : 0..MaxTurns, at : 1..MaxBatch, name : Tools, result : Results]
      <4>1. Position \in 1..MaxBatch
        BY <2>1, <2>4, LoopAssumption
      <4> QED BY <2>2, <2>3, <2>4, <4>1
    <3>2. audit \in Seq([turn : 0..MaxTurns, at : 1..MaxBatch, name : Tools, result : Results])
      BY DEF TypeOK
    <3> QED BY <1>5, <3>1, <3>2 DEF Result, Audited
  <2>7. CASE pc' = "done"
    <3>1. outcome' = [reason |-> "stalled_repeated_tool_result", turns |-> turn + 1]
          /\ messages' = messages
      BY <1>5, <2>7 DEF Result, Return
    <3>2. /\ turn' = turn /\ stalls' = stalls /\ batch' = batch /\ trace' = trace
          /\ Len(results') <= Len(batch')
      BY <1>5, <2>2, <2>3 DEF Result
    <3>3. outcome' \in [reason : Reasons, turns : 0..MaxTurns] \cup {NoOutcome}
      BY <2>2, <3>1, LoopAssumption DEF Reasons
    <3>4. TypeOK'
      BY <2>3, <2>5, <2>6, <2>7, <3>1, <3>2, <3>3 DEF TypeOK
    <3>5. Running' /\ Turning'
      BY <2>7 DEF Running, Turning
    <3> QED BY <3>4, <3>5
  <2>8. CASE pc' # "done"
    <3>1. /\ messages' = Append(messages, [role |-> "tool", ids |-> <<CallId(Position)>>])
          /\ pc' = IF Len(results) = 1 THEN "hooks" ELSE "results"
          /\ outcome' = outcome
      BY <1>5, <2>8 DEF Result, Return
    <3>2. CallId(Position) \in Ids
      BY <2>1, <2>2, <2>4, IdsOf, LoopAssumption DEF CallId
    <3>0. messages \in Seq(Message) /\ [role |-> "tool", ids |-> <<CallId(Position)>>] \in Message
      BY <3>2 DEF TypeOK, Message
    <3>3. messages' \in Seq(Message)
      BY <3>0, <3>1
    <3>4. /\ turn' = turn /\ stalls' = stalls /\ batch' = batch /\ trace' = trace
          /\ Len(results') <= Len(batch')
      BY <1>5, <2>2, <2>3 DEF Result
    <3>5. TypeOK'
      BY <2>3, <2>5, <2>6, <3>1, <3>3, <3>4 DEF TypeOK
    <3>6. Running' /\ Turning'
      BY <2>1, <2>2, <2>3, <3>1, <3>4 DEF Running, Turning
    <3> QED BY <3>5, <3>6
  <2> QED BY <2>7, <2>8
<1>6. CASE Hooks
  <2>1. Says("user") \in Message
    BY DEF Says, Message
  <2>0. messages \in Seq(Message)
    BY DEF TypeOK
  <2>2. messages' \in Seq(Message)
    BY <1>6, <2>0, <2>1 DEF Hooks
  <2>3. turn \in Nat /\ turn < MaxTurns /\ Len(results) = 0
    BY <1>6, LoopAssumption DEF Hooks, Turning, TypeOK
  <2>4. /\ results' = results /\ batch' = batch
        /\ pc' \in {"model", "done"} /\ turn' \in 0 .. MaxTurns
        /\ pc' = "model" => turn' < MaxTurns /\ outcome' = outcome
        /\ outcome' \in [reason : Reasons, turns : 0 .. MaxTurns] \cup {NoOutcome}
    BY <1>6, <2>3, LoopAssumption DEF Hooks, NextTurn, Return, Reasons, TypeOK
  <2>5. TypeOK'
    BY <1>6, <2>2, <2>4 DEF Hooks, TypeOK
  <2> QED BY <1>6, <2>3, <2>4, <2>5 DEF Hooks, Running, Turning
<1>7. CASE UNCHANGED vars
  BY <1>7 DEF vars, TypeOK, Running, Turning
<1> QED BY <1>1, <1>2, <1>3, <1>4, <1>5, <1>6, <1>7 DEF Next

-------------------------------------------------------------------------------
(* The conversation.                                                               *)

\* ConversationIsWellFormed of the first n messages of s.
WellFormed(s, n) ==
    \A k \in 1 .. n :
        /\ s[k].role = "assistant" =>
              \A i \in DOMAIN s[k].ids :
                  /\ k + i \in 1 .. n
                  /\ s[k + i] = [role |-> "tool", ids |-> <<s[k].ids[i]>>]
        /\ s[k].role = "tool" =>
              \E a \in 1 .. (k - 1) : s[a].role = "assistant" /\ k - a \in DOMAIN s[a].ids

LEMMA Extended ==
    ASSUME NEW s, NEW t, NEW n \in Nat, WellFormed(s, n), \A k \in 1 .. n : t[k] = s[k]
    PROVE  WellFormed(t, n)
BY DEF WellFormed

\* A message that neither calls nor answers.
LEMMA OneMore ==
    ASSUME NEW t, NEW n \in Nat, WellFormed(t, n), t[n + 1].role # "tool", t[n + 1].ids = <<>>
    PROVE  WellFormed(t, n + 1)
<1>1. \A k \in 1 .. (n + 1) : k \in 1 .. n \/ k = n + 1
  OBVIOUS
<1>2. \A j : j \in 1 .. n => j \in 1 .. (n + 1)
  OBVIOUS
<1> QED BY <1>1, <1>2 DEF WellFormed

\* A message that calls, with the answers to all its calls behind it.
LEMMA Block ==
    ASSUME NEW t, NEW a \in Nat \ {0}, NEW m \in Nat, WellFormed(t, a - 1),
           t[a].role = "assistant", DOMAIN t[a].ids = 1 .. m,
           \A i \in 1 .. m : t[a + i] = [role |-> "tool", ids |-> <<t[a].ids[i]>>]
    PROVE  WellFormed(t, a + m)
<1> SUFFICES ASSUME NEW k \in 1 .. (a + m)
             PROVE  /\ t[k].role = "assistant" =>
                          \A i \in DOMAIN t[k].ids :
                              /\ k + i \in 1 .. (a + m)
                              /\ t[k + i] = [role |-> "tool", ids |-> <<t[k].ids[i]>>]
                    /\ t[k].role = "tool" =>
                          \E b \in 1 .. (k - 1) :
                              t[b].role = "assistant" /\ k - b \in DOMAIN t[b].ids
  BY DEF WellFormed
<1>1. CASE k < a
  <2>1. k \in 1 .. (a - 1) /\ \A j : j \in 1 .. (a - 1) => j \in 1 .. (a + m)
    BY <1>1
  <2> QED BY <2>1 DEF WellFormed
<1>2. CASE k = a
  <2>1. \A i \in DOMAIN t[k].ids : i \in 1 .. m /\ k + i \in 1 .. (a + m)
    BY <1>2
  <2>2. \A i \in DOMAIN t[k].ids : t[k + i] = [role |-> "tool", ids |-> <<t[k].ids[i]>>]
    BY <1>2, <2>1
  <2>3. t[k].role # "tool"
    BY <1>2
  <2> QED BY <2>1, <2>2, <2>3
<1>3. CASE k > a
  <2>0. k - a \in 1 .. m /\ k = a + (k - a)
    BY <1>3
  <2>1. PICK i \in 1 .. m : k = a + i
    BY <2>0
  <2>2. t[k] = [role |-> "tool", ids |-> <<t[a].ids[i]>>]
    BY <2>1
  <2>3. a \in 1 .. (k - 1) /\ k - a \in 1 .. m
    BY <1>3
  <2> QED BY <2>2, <2>3
<1> QED BY <1>1, <1>2, <1>3

LEMMA Spoken ==
    ASSUME NEW s \in Seq(Message), NEW m \in Message, m.role # "tool", m.ids = <<>>,
           WellFormed(s, Len(s))
    PROVE  /\ Append(s, m) \in Seq(Message)
           /\ WellFormed(Append(s, m), Len(Append(s, m)))
<1> DEFINE t == Append(s, m)
<1>1. /\ t \in Seq(Message) /\ Len(s) \in Nat /\ Len(t) = Len(s) + 1 /\ t[Len(s) + 1] = m
      /\ \A k \in 1 .. Len(s) : t[k] = s[k]
  OBVIOUS
<1> HIDE DEF t
<1>2. WellFormed(t, Len(s))
  BY <1>1, Extended
<1>3. WellFormed(t, Len(s) + 1)
  BY <1>1, <1>2, OneMore
<1> QED BY <1>1, <1>3 DEF t

\* While a batch is worked through: the message that calls it, and its answers so far.
Asks == [role |-> "assistant", ids |-> [i \in DOMAIN batch |-> GivenId(turn, i)]]
Reply(i) == [role |-> "tool", ids |-> <<GivenId(turn, i)>>]
Replies == IF pc = "results" THEN Len(batch) - Len(results) ELSE 0
Front == Len(messages) - Replies

Talk ==
    /\ pc \in {"model", "hooks"} => WellFormed(messages, Len(messages))
    /\ pc \in {"tools", "results"} =>
          /\ Front \in 1 .. Len(messages)
          /\ WellFormed(messages, Front - 1)
          /\ messages[Front] = Asks
          /\ \A i \in 1 .. Replies : messages[Front + i] = Reply(i)

LEMMA TalkInit == Init => Talk
<1> SUFFICES ASSUME Init PROVE Talk
  OBVIOUS
<1>1. messages = <<Says("user")>> /\ messages[1] = Says("user") /\ Len(messages) = 1
  BY DEF Init
<1>2. WellFormed(messages, 0)
  BY DEF WellFormed
<1>3. WellFormed(messages, 0 + 1)
  BY <1>1, <1>2, OneMore DEF Says
<1> QED BY <1>1, <1>3 DEF Talk, Init

LEMMA TalkStep == GivesIds /\ Typed /\ Talk /\ [Next]_vars => Talk'
<1> SUFFICES ASSUME GivesIds, Typed, Talk, [Next]_vars PROVE Talk'
  OBVIOUS
<1>0. messages \in Seq(Message) /\ Len(messages) \in Nat
  BY DEF Typed, TypeOK
<1>1. CASE CallsTools
  <2>1. /\ messages' = Append(messages, Asks') /\ pc' = "tools" /\ turn' = turn
        /\ WellFormed(messages, Len(messages))
    BY <1>1 DEF CallsTools, AssistantId, Asks, Talk
  <2>2. /\ Len(messages') = Len(messages) + 1 /\ messages'[Len(messages) + 1] = Asks'
        /\ \A k \in 1 .. Len(messages) : messages'[k] = messages[k]
    BY <1>0, <2>1
  <2>3. WellFormed(messages', Len(messages))
    BY <1>0, <2>1, <2>2, Extended
  <2>4. Replies' = 0 /\ Front' = Len(messages) + 1
    BY <1>0, <2>1, <2>2 DEF Replies, Front
  <2> QED BY <1>0, <2>1, <2>2, <2>3, <2>4 DEF Talk
<1>2. CASE Answers
  <2>1. /\ Says("assistant") \in Message /\ Says("assistant").ids = <<>>
        /\ Says("assistant").role = "assistant"
        /\ Says("user") \in Message /\ Says("user").ids = <<>> /\ Says("user").role = "user"
    BY DEF Says, Message
  <2>2. WellFormed(messages, Len(messages))
    BY <1>2 DEF Answers, Talk
  <2>3. CASE stalls < MaxStalls
    <3>1. messages' = Append(Append(messages, Says("assistant")), Says("user"))
      BY <1>0, <1>2, <2>1, <2>3, AppendedTwo DEF Answers
    <3>2. WellFormed(messages', Len(messages'))
      BY <1>0, <2>1, <2>2, <3>1, Spoken
    <3>3. pc' \in {"model", "done"}
      BY <1>2, <2>3 DEF Answers, NextTurn, Return
    <3> QED BY <3>2, <3>3 DEF Talk
  <2>4. CASE ~(stalls < MaxStalls)
    BY <1>2, <2>4 DEF Answers, Return, Talk
  <2> QED BY <2>3, <2>4
<1>3. CASE ModelFails
  BY <1>3 DEF ModelFails, Return, Talk
<1>4. CASE Dispatch
  <2>1. batch \in Batches /\ DOMAIN batch = 1 .. Len(batch) /\ Len(batch) \in 1 .. MaxBatch
    BY <1>4, BatchOf DEF Dispatch, Typed, Running
  <2>2. Len(results') = Len(batch)
    <3>1. results' \in [1 .. Len(batch) -> Results]
      BY <1>4, <2>1 DEF Dispatch
    <3> QED BY <2>1, <3>1
  <2>3. Replies = 0 /\ Replies' = 0
    BY <1>4, <2>1, <2>2, LoopAssumption DEF Dispatch, Replies
  <2>4. Front' = Front /\ Asks' = Asks /\ messages' = messages
    BY <1>4, <2>3 DEF Dispatch, Front, Asks
  <2> QED BY <1>4, <2>3, <2>4 DEF Dispatch, Talk
<1>5. CASE Result
  <2>1. batch \in Batches /\ DOMAIN batch = 1 .. Len(batch) /\ Len(batch) \in 1 .. MaxBatch
    BY <1>5, BatchOf DEF Result, Typed, Running
  <2>2. /\ results \in Seq(Results) /\ Len(results) >= 1 /\ Len(results) <= Len(batch)
        /\ Len(results) \in Nat /\ Len(batch) \in Nat
    BY <1>5, <2>1, LoopAssumption DEF Result, Typed, TypeOK, Turning
  <2>3. Len(results') = Len(results) - 1 /\ turn' = turn /\ batch' = batch /\ pc = "results"
    BY <1>5, <2>2 DEF Result
  <2>4. /\ Front \in 1 .. Len(messages) /\ WellFormed(messages, Front - 1)
        /\ messages[Front] = Asks /\ \A i \in 1 .. Replies : messages[Front + i] = Reply(i)
        /\ Replies = Len(batch) - Len(results) /\ Position = Replies + 1
        /\ Front + Replies = Len(messages) /\ Replies \in Nat
    BY <1>0, <2>1, <2>2, <2>3 DEF Talk, Replies, Position, Front
  <2>n. Front \in Nat \ {0} /\ Front + (Replies + 1) = Len(messages) + 1
    BY <1>0, <2>4
  <2>5. CASE pc' = "done"
    BY <2>5 DEF Talk
  <2>6. CASE pc' # "done"
    <3>1. /\ messages' = Append(messages, Reply(Position))
          /\ pc' = IF Len(results) = 1 THEN "hooks" ELSE "results"
      BY <1>5, <2>6 DEF Result, Return, CallId, Reply
    <3>2. Reply(Position) \in Message
      <4>1. GivenId(turn, Position) \in Ids
        <5>1. Position \in 1 .. MaxBatch /\ turn \in 0 .. MaxTurns
          BY <2>1, <2>2, <2>4, LoopAssumption DEF Typed, TypeOK
        <5> QED BY <5>1, IdsOf
      <4> QED BY <4>1 DEF Reply, Message
    <3>3. /\ Len(messages') = Len(messages) + 1
          /\ messages'[Len(messages) + 1] = Reply(Position)
          /\ \A k \in 1 .. Len(messages) : messages'[k] = messages[k]
      BY <1>0, <3>1, <3>2
    <3>4. WellFormed(messages', Front - 1)
      <4>1. Front - 1 \in Nat /\ \A k \in 1 .. (Front - 1) : k \in 1 .. Len(messages)
        BY <1>0, <2>4
      <4>2. \A k \in 1 .. (Front - 1) : messages'[k] = messages[k]
        BY <3>3, <4>1
      <4> QED BY <2>4, <4>1, <4>2, Extended
    <3>5. messages'[Front] = Asks
      BY <1>0, <2>4, <3>3
    <3>6. \A i \in 1 .. (Replies + 1) : messages'[Front + i] = Reply(i)
      <4> SUFFICES ASSUME NEW i \in 1 .. (Replies + 1) PROVE messages'[Front + i] = Reply(i)
        OBVIOUS
      <4>1. CASE i = Replies + 1
        <5>1. Front + i = Len(messages) + 1 /\ i = Position
          BY <2>4, <2>n, <4>1
        <5> QED BY <3>3, <5>1
      <4>2. CASE i \in 1 .. Replies
        <5>1. Front + i \in 1 .. Len(messages)
          BY <1>0, <2>4, <4>2
        <5> QED BY <2>4, <3>3, <4>2, <5>1
      <4> QED BY <2>4, <4>1, <4>2
    <3>7. CASE Len(results) = 1
      <4>1. Replies + 1 = Len(batch) /\ Front + Len(batch) = Len(messages') /\ pc' = "hooks"
        BY <1>0, <2>2, <2>4, <3>1, <3>3, <3>7
      <4>2. DOMAIN messages'[Front].ids = 1 .. Len(batch) /\ messages'[Front].role = "assistant"
        BY <2>1, <3>5 DEF Asks
      <4>3. \A i \in 1 .. Len(batch) :
               messages'[Front + i] = [role |-> "tool", ids |-> <<messages'[Front].ids[i]>>]
        BY <2>1, <3>5, <3>6, <4>1 DEF Asks, Reply
      <4>4. WellFormed(messages', Front + Len(batch))
        BY <2>2, <2>n, <3>4, <4>2, <4>3, Block
      <4> QED BY <4>1, <4>4 DEF Talk
    <3>8. CASE Len(results) # 1
      <4>1. pc' = "results" /\ Replies' = Replies + 1 /\ Front' = Front /\ Asks' = Asks
        BY <1>0, <2>2, <2>3, <2>4, <3>1, <3>3, <3>8 DEF Replies, Front, Asks
      <4>2. \A i : Reply(i)' = Reply(i)
        BY <2>3 DEF Reply
      <4>3. Front \in 1 .. Len(messages')
        BY <1>0, <2>4, <3>3
      <4> QED BY <3>4, <3>5, <3>6, <4>1, <4>2, <4>3 DEF Talk
    <3> QED BY <3>7, <3>8
  <2> QED BY <2>5, <2>6
<1>6. CASE Hooks
  <2>1. Says("user") \in Message /\ Says("user").ids = <<>> /\ Says("user").role = "user"
    BY DEF Says, Message
  <2>2. WellFormed(messages, Len(messages))
    BY <1>6 DEF Hooks, Talk
  <2>3. WellFormed(messages', Len(messages'))
    BY <1>0, <1>6, <2>1, <2>2, Spoken DEF Hooks
  <2>4. pc' \in {"model", "done"}
    BY <1>6 DEF Hooks, NextTurn, Return
  <2> QED BY <2>3, <2>4 DEF Talk
<1>7. CASE UNCHANGED vars
  BY <1>7 DEF vars, Talk, Front, Replies, Asks, Reply
<1> QED BY <1>1, <1>2, <1>3, <1>4, <1>5, <1>6, <1>7 DEF Next

-------------------------------------------------------------------------------
(* What is sent of the conversation.                                               *)
Lens == [DOMAIN messages -> [said : Nat, args : Nat]]

LEMMA RolesOf ==
    ASSUME Typed
    PROVE  /\ \A k \in DOMAIN messages : messages[k].role \in {"user", "assistant", "tool"}
           /\ \A k \in DOMAIN messages : k \in Nat
           /\ By("tool") \cap By("assistant") = {} /\ Recent \subseteq By("tool")
           /\ \A k \in DOMAIN messages : IsNudge(k) => k \in By("user")
           /\ By("user") \cap (By("tool") \cup By("assistant")) = {}
<1>1. messages \in Seq(Message)
  BY DEF Typed, TypeOK
<1>2. \A k \in DOMAIN messages : messages[k] \in Message /\ k \in Nat
  BY <1>1
<1>3. \A k \in DOMAIN messages : messages[k].role \in {"user", "assistant", "tool"}
  BY <1>2 DEF Message
<1> QED BY <1>2, <1>3 DEF By, Recent, IsNudge

LEMMA WholeOf == ASSUME Typed PROVE Whole \in Lens
<1>1. \A k \in DOMAIN messages : k % Period \in 0..(Period - 1)
  BY RolesOf, PromptAssumption
<1>2. \A k \in DOMAIN messages : Chars[<<messages[k].role, k % Period>>] \in Nat
  BY <1>1, RolesOf, PromptAssumption
<1> QED BY <1>2, PromptAssumption DEF Whole, Lens

\* A pass over results and arguments: those it is to shorten are within the limit, and
\* nothing else is touched.
LEMMA ShortenToolsOf ==
    ASSUME Typed, NEW lens \in Lens, NEW spared, NEW n \in 1..3
    PROVE  LET short == ShortenTools(lens, spared, n)
           IN  /\ short \in Lens
               /\ \A k \in By("tool") \ spared : short[k].said <= ToolLimits[n]
               /\ \A k \in By("assistant") : short[k].args <= ToolLimits[n]
               /\ \A k \in DOMAIN messages \ By("tool") : short[k].said = lens[k].said
               /\ \A k \in DOMAIN messages :
                     k \notin By("assistant") /\ k \notin By("tool") \ spared => short[k] = lens[k]
<1> DEFINE limit == ToolLimits[n]
           mid == ShortenResults(lens, spared, limit)
           short == ShortenCalls(mid, limit)
<1>0. limit \in Nat /\ Frame \in Nat /\ DOMAIN lens = DOMAIN messages
  BY PromptAssumption DEF Lens
<1>1. \A k \in DOMAIN messages : lens[k] \in [said : Nat, args : Nat]
  BY DEF Lens
<1> HIDE DEF limit
<1>2. \A k \in DOMAIN messages :
         /\ k \in By("tool") \ spared =>
               /\ mid[k].said \in Nat /\ mid[k].said <= limit /\ mid[k].args = lens[k].args
         /\ k \notin By("tool") \ spared => mid[k] = lens[k]
         /\ mid[k] \in [said : Nat, args : Nat]
  BY <1>0, <1>1 DEF ShortenResults, Least
<1>3. DOMAIN mid = DOMAIN messages
  BY <1>0 DEF ShortenResults
<1> HIDE DEF mid
<1>4. \A k \in DOMAIN messages :
         /\ k \in By("assistant") =>
               /\ short[k].args \in Nat /\ short[k].args <= limit /\ short[k].said = mid[k].said
         /\ k \notin By("assistant") => short[k] = mid[k]
         /\ short[k] \in [said : Nat, args : Nat]
  BY <1>0, <1>2, <1>3 DEF ShortenCalls, Least
<1>5. short \in Lens
  BY <1>3, <1>4 DEF ShortenCalls, Lens
<1>6. ShortenTools(lens, spared, n) = short
  BY DEF ShortenTools, mid, limit
<1> HIDE DEF short
<1>7. By("tool") \subseteq DOMAIN messages /\ By("assistant") \subseteq DOMAIN messages
  BY DEF By
<1> QED BY <1>2, <1>4, <1>5, <1>6, <1>7, RolesOf DEF limit

\* A pass over what was said: it touches neither results nor arguments nor the nudge.
LEMMA ShortenPlainOf ==
    ASSUME Typed, NEW lens \in Lens, NEW limit \in Nat
    PROVE  LET short == ShortenPlain(lens, limit)
           IN  /\ short \in Lens
               /\ \A k \in DOMAIN messages :
                     /\ short[k].args = lens[k].args
                     /\ k \in By("tool") \/ IsNudge(k) => short[k] = lens[k]
                     /\ k \notin By("tool") /\ ~IsNudge(k) => short[k].said <= limit + Mark
<1> DEFINE short == ShortenPlain(lens, limit)
<1>1. DOMAIN lens = DOMAIN messages
      /\ \A k \in DOMAIN messages : lens[k] \in [said : Nat, args : Nat]
  BY DEF Lens
<1>2. \A k \in DOMAIN messages :
         /\ short[k] \in [said : Nat, args : Nat]
         /\ short[k].args = lens[k].args
         /\ k \in By("tool") \/ IsNudge(k) => short[k] = lens[k]
         /\ k \notin By("tool") /\ ~IsNudge(k) => short[k].said <= limit + Mark
  BY <1>1, PromptAssumption DEF ShortenPlain
<1>3. short \in Lens
  BY <1>1, <1>2 DEF ShortenPlain, Lens
<1> QED BY <1>2, <1>3

LEMMA FirstOf ==
    ASSUME NEW S \in SUBSET (1..7)
    PROVE  \E i \in 1..7 : (i = 7 \/ i \in S) /\ \A j \in 1..(i - 1) : j \notin S
<1>1. 1 \in S => (1 = 7 \/ 1 \in S) /\ \A j \in 1..(1 - 1) : j \notin S
  OBVIOUS
<1>2. ASSUME 1 \notin S, 2 \in S PROVE \A j \in 1..(2 - 1) : j \notin S
  BY <1>2
<1>3. ASSUME 1 \notin S, 2 \notin S, 3 \in S PROVE \A j \in 1..(3 - 1) : j \notin S
  BY <1>3
<1>4. ASSUME 1 \notin S, 2 \notin S, 3 \notin S PROVE \A j \in 1..(4 - 1) : j \notin S
  BY <1>4
<1>5. ASSUME 1 \notin S, 2 \notin S, 3 \notin S, 4 \notin S
      PROVE  \A j \in 1..(5 - 1) : j \notin S
  BY <1>5
<1>6. ASSUME 1 \notin S, 2 \notin S, 3 \notin S, 4 \notin S, 5 \notin S
      PROVE  \A j \in 1..(6 - 1) : j \notin S
  BY <1>6
<1>7. ASSUME 1 \notin S, 2 \notin S, 3 \notin S, 4 \notin S, 5 \notin S, 6 \notin S
      PROVE  \A j \in 1..(7 - 1) : j \notin S
  BY <1>7
<1> QED BY <1>1, <1>2, <1>3, <1>4, <1>5, <1>6, <1>7

Copies == <<Whole, Pass1, Pass2, Pass3, Pass4, Pass5, Pass6>>

LEMMA SentOf ==
    \E i \in 1..7 : Sent = Copies[i] /\ (i = 7 \/ Total(Copies[i]) <= Budget)
<1> DEFINE Fits(i) == Total(Copies[i]) <= Budget
           First(i) == (i = 7 \/ Fits(i)) /\ \A j \in 1..(i - 1) : ~Fits(j)
<1>1. Sent = Copies[CHOOSE i \in 1..7 : First(i)]
  BY DEF Sent, Copies
<1>2. \E i \in 1..7 : First(i)
  <2> DEFINE S == {i \in 1..7 : Fits(i)}
  <2> HIDE DEF Fits
  <2>1. PICK i \in 1..7 : (i = 7 \/ i \in S) /\ \A j \in 1..(i - 1) : j \notin S
    BY FirstOf
  <2> QED BY <2>1
<1>3. (CHOOSE i \in 1..7 : First(i)) \in 1..7 /\ First(CHOOSE i \in 1..7 : First(i))
  <2> HIDE DEF First
  <2> QED BY <1>2
<1> DEFINE c == CHOOSE i \in 1..7 : First(i)
<1>4. c \in 1..7 /\ (c = 7 \/ Fits(c)) /\ Sent = Copies[c]
  BY <1>1, <1>3
<1> QED BY <1>4

LEMMA Fairly == ASSUME Typed PROVE ShortenedFairly
<1>0. /\ ToolLimits[1] \in Nat /\ ToolLimits[2] \in Nat /\ ToolLimits[3] \in Nat
      /\ PlainLimits[1] \in Nat /\ PlainLimits[2] \in Nat /\ PlainLimits[3] \in Nat
  BY PromptAssumption
<1> DEFINE Plain == DOMAIN messages \ By("tool")
           NudgeKept(lens) == \A k \in Plain : IsNudge(k) => lens[k] = Whole[k]
           RecentKept(lens) == \A k \in Recent : lens[k] = Whole[k]
           SaidKept(lens) == \A k \in Plain : lens[k].said = Whole[k].said
           ResultsShort(lens) == \A k \in By("tool") : lens[k].said <= ToolLimits[3]
           CallsShort(lens) == \A k \in By("assistant") : lens[k].args <= ToolLimits[3]
           PlainShort(lens) ==
               \A k \in Plain : IsNudge(k) \/ lens[k].said <= PlainLimits[3] + Mark
           Early(lens) == NudgeKept(lens) /\ RecentKept(lens) /\ SaidKept(lens)
           Late(lens) == NudgeKept(lens) /\ ResultsShort(lens) /\ CallsShort(lens)
<1>1. By("tool") \cup By("assistant") \cup Recent \subseteq DOMAIN messages
  BY DEF By, Recent
<1>2. Early(Whole)
  OBVIOUS
<1>3. Pass1 \in Lens /\ Early(Pass1)
  BY <1>1, WholeOf, ShortenToolsOf, RolesOf DEF Pass1
<1>4. Pass2 \in Lens /\ Early(Pass2)
  BY <1>1, <1>3, ShortenToolsOf, RolesOf DEF Pass2
<1>5. Pass3 \in Lens /\ Late(Pass3) /\ SaidKept(Pass3)
  BY <1>1, <1>4, ShortenToolsOf, RolesOf DEF Pass3
<1>6. Pass4 \in Lens /\ Late(Pass4)
  BY <1>0, <1>1, <1>5, ShortenPlainOf DEF Pass4
<1>7. Pass5 \in Lens /\ Late(Pass5)
  BY <1>0, <1>1, <1>6, ShortenPlainOf DEF Pass5
<1>8. Late(Pass6) /\ PlainShort(Pass6)
  BY <1>0, <1>1, <1>7, ShortenPlainOf DEF Pass6
<1>9. PICK i \in 1..7 : Sent = Copies[i] /\ (i = 7 \/ Total(Copies[i]) <= Budget)
  BY SentOf
<1>10. \/ Sent = Pass6 \/ /\ Sent \in {Whole, Pass1, Pass2, Pass3, Pass4, Pass5}
                          /\ Total(Sent) <= Budget
  BY <1>9 DEF Copies
<1> DEFINE Fits == Total(Sent) <= Budget
<1>11. \/ Early(Sent) /\ Fits
       \/ Late(Sent) /\ (Fits \/ PlainShort(Sent))
  BY <1>2, <1>3, <1>4, <1>5, <1>6, <1>7, <1>8, <1>10
<1> HIDE DEF Fits
<1>12. /\ NudgeKept(Sent)
       /\ RecentKept(Sent) \/ ResultsShort(Sent)
       /\ SaidKept(Sent) \/ (ResultsShort(Sent) /\ CallsShort(Sent))
       /\ Fits \/ (ResultsShort(Sent) /\ CallsShort(Sent) /\ PlainShort(Sent))
  BY <1>11
<1> QED BY <1>12 DEF ShortenedFairly, Fits

\* Every conversation the model is called with is one the providers accept, if the
\* provider names its tool calls: each call is followed by its own result.  What is sent
\* of it is shortened in the promised order, whatever the lengths and limits.
THEOREM WellFormedConversation == GivesIds /\ Spec => []ConversationIsWellFormed
<1> SUFFICES ASSUME GivesIds PROVE Spec => []ConversationIsWellFormed
  OBVIOUS
<1>1. Typed /\ Talk => ConversationIsWellFormed
  <2> SUFFICES ASSUME Typed, Talk, pc = "model" PROVE ConversationIsWellFormed
    BY DEF ConversationIsWellFormed
  <2>1. DOMAIN messages = 1 .. Len(messages) /\ WellFormed(messages, Len(messages))
    BY DEF Typed, TypeOK, Talk
  <2>2. ResultsFollow
    BY <2>1 DEF ResultsFollow, WellFormed
  <2> QED BY <2>2, Fairly DEF ConversationIsWellFormed
<1> QED BY <1>1, TypedInit, TypedStep, TalkInit, TalkStep, PTL DEF Spec

-------------------------------------------------------------------------------
(* The record of the calls.                                                        *)
Entry == [turn : 0..MaxTurns, at : 1..MaxBatch, name : Tools, result : Results]
Pairs(s) == {<<s[i].turn, s[i].at>> : i \in DOMAIN s}

LEMMA PairsOf ==
    ASSUME NEW s \in Seq(Entry), NEW e \in Entry
    PROVE  Pairs(Append(s, e)) = Pairs(s) \cup {<<e.turn, e.at>>}
<1>1. /\ DOMAIN Append(s, e) = DOMAIN s \cup {Len(s) + 1} /\ Append(s, e)[Len(s) + 1] = e
      /\ \A k \in DOMAIN s : Append(s, e)[k] = s[k]
  OBVIOUS
<1> QED BY <1>1 DEF Pairs

\* The executed calls of the batch whose results are still to come.
Pending == {<<turn, i>> : i \in Position .. Len(batch)}

\* Entry e comes before the result that is next.
Earlier(e) ==
    /\ pc \in {"model", "tools"} => e.turn < turn
    /\ pc = "results" => e.turn < turn \/ (e.turn = turn /\ e.at < Position)
    /\ pc = "hooks" => e.turn <= turn

Recorded ==
    /\ \A i, k \in DOMAIN audit : i < k => Before(audit[i], audit[k])
    /\ \A i \in DOMAIN audit : Earlier(audit[i])
    /\ pc \in {"model", "tools", "hooks"} => trace = Pairs(audit)
    /\ pc = "done" => trace = Pairs(audit) \/ outcome.reason = "stalled_repeated_tool_result"
    /\ pc = "results" => trace = Pairs(audit) \cup Pending

LEMMA RecordedInit == Init => Recorded
BY DEF Init, Recorded, Pairs

\* What a result leaves.
LEMMA OneResult ==
    ASSUME Typed, Result
    PROVE  /\ pc = "results" /\ Position \in 1 .. Len(batch) /\ Len(batch) \in 1 .. MaxBatch
           /\ turn \in 0 .. MaxTurns /\ turn' = turn /\ trace' = trace /\ batch' = batch
           /\ Position' = Position + 1 /\ batch[Position] \in Tools /\ Head(results) \in Results
           /\ audit \in Seq(Entry)
           /\ audit' = Append(audit, [turn |-> turn, at |-> Position, name |-> batch[Position],
                                      result |-> Head(results)])
           /\ [turn |-> turn, at |-> Position, name |-> batch[Position],
               result |-> Head(results)] \in Entry
           /\ \/ pc' = "done" /\ outcome' = [reason |-> "stalled_repeated_tool_result",
                                             turns |-> turn + 1]
              \/ /\ pc' = IF Position = Len(batch) THEN "hooks" ELSE "results"
                 /\ outcome' = outcome
<1>1. batch \in Batches /\ DOMAIN batch = 1 .. Len(batch) /\ Len(batch) \in 1 .. MaxBatch
      /\ batch \in Seq(Tools)
  BY BatchOf DEF Result, Typed, Running
<1>2. /\ results \in Seq(Results) /\ Len(results) >= 1 /\ Len(results) <= Len(batch)
      /\ Len(results) \in Nat /\ Len(batch) \in Nat
  BY <1>1, LoopAssumption DEF Result, Typed, TypeOK, Turning
<1>3. Len(results') = Len(results) - 1 /\ turn' = turn /\ batch' = batch /\ pc = "results"
      /\ Head(results) \in Results /\ trace' = trace
  BY <1>2 DEF Result
<1>4. Position \in 1 .. Len(batch) /\ Position' = Position + 1 /\ batch[Position] \in Tools
      /\ (Len(results) = 1 <=> Position = Len(batch))
  BY <1>1, <1>2, <1>3 DEF Position
<1>5. turn \in 0 .. MaxTurns /\ audit \in Seq(Entry)
  BY DEF Typed, TypeOK, Entry
<1>6. [turn |-> turn, at |-> Position, name |-> batch[Position], result |-> Head(results)]
         \in Entry
  <2>0. Position \in 1 .. Len(batch) /\ Len(batch) \in 1 .. MaxBatch
    BY <1>1, <1>4
  <2>1. Position \in 1 .. MaxBatch
    BY <2>0, LoopAssumption
  <2> QED BY <1>3, <1>4, <1>5, <2>1 DEF Entry
<1>7. audit' = Append(audit, [turn |-> turn, at |-> Position, name |-> batch[Position],
                              result |-> Head(results)])
  BY DEF Result, Audited
<1>8. \/ pc' = "done" /\ outcome' = [reason |-> "stalled_repeated_tool_result",
                                     turns |-> turn + 1]
      \/ pc' = (IF Len(results) = 1 THEN "hooks" ELSE "results") /\ outcome' = outcome
  BY DEF Result, Return
<1> QED BY <1>1, <1>3, <1>4, <1>5, <1>6, <1>7, <1>8

LEMMA RecordedStep == Typed /\ Recorded /\ [Next]_vars => Recorded'
<1> SUFFICES ASSUME Typed, Recorded, [Next]_vars PROVE Recorded'
  OBVIOUS
<1>0. turn \in 0 .. MaxTurns /\ audit \in Seq(Entry) /\ DOMAIN audit = 1 .. Len(audit)
      /\ Len(audit) \in Nat /\ \A i \in DOMAIN audit : audit[i] \in Entry
  <2>1. turn \in 0 .. MaxTurns /\ audit \in Seq(Entry)
    BY DEF Typed, TypeOK, Entry
  <2> QED BY <2>1
<1>1. CASE CallsTools \/ ModelFails
  BY <1>1 DEF CallsTools, ModelFails, Return, Recorded, Earlier
<1>2. CASE Answers
  <2>1. /\ pc = "model" /\ trace = Pairs(audit) /\ audit' = audit /\ trace' = trace
        /\ \A i \in DOMAIN audit : audit[i].turn < turn
    BY <1>2 DEF Answers, Recorded, Earlier
  <2>2. pc' = "done" \/ (pc' = "model" /\ turn' = turn + 1)
    BY <1>2 DEF Answers, NextTurn, Return
  <2>3. \A i \in DOMAIN audit : Earlier(audit[i])'
    BY <1>0, <2>1, <2>2, LoopAssumption DEF Earlier, Entry
  <2> QED BY <2>1, <2>2, <2>3 DEF Recorded
<1>3. CASE Dispatch
  <2>1. batch \in Batches /\ DOMAIN batch = 1 .. Len(batch) /\ Len(batch) \in 1 .. MaxBatch
    BY <1>3, BatchOf DEF Dispatch, Typed, Running
  <2>2. Len(results') = Len(batch)
    <3>1. results' \in [1 .. Len(batch) -> Results]
      BY <1>3, <2>1 DEF Dispatch
    <3> QED BY <2>1, <3>1
  <2>3. Position' = 1 /\ pc' = "results" /\ turn' = turn /\ batch' = batch /\ audit' = audit
    BY <1>3, <2>1, <2>2, LoopAssumption DEF Dispatch, Position
  <2>4. trace' = Pairs(audit) \cup Pending'
    BY <1>3, <2>1, <2>3 DEF Dispatch, Recorded, Pending
  <2>5. \A i \in DOMAIN audit : Earlier(audit[i])'
    BY <1>3, <2>3 DEF Dispatch, Recorded, Earlier
  <2> QED BY <2>3, <2>4, <2>5 DEF Recorded
<1>4. CASE Result
  <2> DEFINE e == [turn |-> turn, at |-> Position, name |-> batch[Position],
                   result |-> Head(results)]
  <2>1. /\ pc = "results" /\ Position \in 1 .. Len(batch) /\ Len(batch) \in Nat
        /\ turn' = turn /\ trace' = trace /\ batch' = batch /\ Position' = Position + 1
        /\ audit' = Append(audit, e) /\ e \in Entry /\ e.turn = turn /\ e.at = Position
        /\ \/ pc' = "done" /\ outcome'.reason = "stalled_repeated_tool_result"
           \/ pc' = IF Position = Len(batch) THEN "hooks" ELSE "results"
    BY <1>4, OneResult, LoopAssumption
  <2> HIDE DEF e
  <2>2. Pairs(audit') = Pairs(audit) \cup {<<turn, Position>>}
    BY <1>0, <2>1, PairsOf
  <2>3. /\ DOMAIN audit' = 1 .. (Len(audit) + 1) /\ audit'[Len(audit) + 1] = e
        /\ \A i \in 1 .. Len(audit) : audit'[i] = audit[i]
    BY <1>0, <2>1
  <2>4. \A i \in DOMAIN audit : audit[i].turn < turn \/ (audit[i].turn = turn
                                                        /\ audit[i].at < Position)
    BY <2>1 DEF Recorded, Earlier
  <2>5. \A i, k \in DOMAIN audit' : i < k => Before(audit'[i], audit'[k])
    <3> SUFFICES ASSUME NEW i \in DOMAIN audit', NEW k \in DOMAIN audit', i < k
                 PROVE  Before(audit'[i], audit'[k])
      OBVIOUS
    <3>1. CASE k = Len(audit) + 1
      <4>1. i \in 1 .. Len(audit)
        BY <1>0, <2>3, <3>1
      <4> QED BY <1>0, <2>1, <2>3, <2>4, <3>1, <4>1 DEF Before
    <3>2. CASE k # Len(audit) + 1
      <4>1. k \in 1 .. Len(audit) /\ i \in 1 .. Len(audit)
        BY <1>0, <2>3, <3>2
      <4> QED BY <1>0, <2>3, <4>1 DEF Recorded
    <3> QED BY <3>1, <3>2
  <2>6. \A i \in DOMAIN audit' : Earlier(audit[i])'
    <3> SUFFICES ASSUME NEW i \in DOMAIN audit'
                 PROVE  Earlier(audit[i])'
      OBVIOUS
    <3>1. /\ audit'[i] \in Entry
          /\ audit'[i].turn < turn \/ (audit'[i].turn = turn /\ audit'[i].at < Position + 1)
      <4>1. CASE i = Len(audit) + 1
        BY <1>0, <2>1, <2>3, <4>1
      <4>2. CASE i # Len(audit) + 1
        <5>1. i \in 1 .. Len(audit)
          BY <1>0, <2>3, <4>2
        <5> QED BY <1>0, <2>1, <2>3, <2>4, <5>1 DEF Entry
      <4> QED BY <4>1, <4>2
    <3>2. audit'[i].turn \in Int /\ turn \in Int
      BY <1>0, <3>1, LoopAssumption DEF Entry
    <3> QED BY <2>1, <3>1, <3>2 DEF Earlier
  <2>7. pc' # "done" => trace' = Pairs(audit') \cup (IF pc' = "hooks" THEN {} ELSE Pending')
    <3>1. Pending = {<<turn, Position>>} \cup {<<turn, i>> : i \in (Position + 1) .. Len(batch)}
      <4>1. Position .. Len(batch) = {Position} \cup ((Position + 1) .. Len(batch))
        BY <2>1
      <4> QED BY <4>1 DEF Pending
    <3>2. Pending' = {<<turn, i>> : i \in (Position + 1) .. Len(batch)}
      BY <2>1 DEF Pending
    <3>3. trace = Pairs(audit) \cup Pending
      BY <2>1 DEF Recorded
    <3>4. Position = Len(batch) => (Position + 1) .. Len(batch) = {}
      BY <2>1
    <3> QED BY <2>1, <2>2, <3>1, <3>2, <3>3, <3>4
  <2> QED BY <2>1, <2>5, <2>6, <2>7 DEF Recorded
<1>5. CASE Hooks
  <2>1. /\ pc = "hooks" /\ trace = Pairs(audit) /\ audit' = audit /\ trace' = trace
        /\ \A i \in DOMAIN audit : audit[i].turn <= turn
    BY <1>5 DEF Hooks, Recorded, Earlier
  <2>2. pc' = "done" \/ (pc' = "model" /\ turn' = turn + 1)
    BY <1>5 DEF Hooks, NextTurn, Return
  <2>3. \A i \in DOMAIN audit : Earlier(audit[i])'
    BY <1>0, <2>1, <2>2, LoopAssumption DEF Earlier, Entry
  <2> QED BY <2>1, <2>2, <2>3 DEF Recorded
<1>6. CASE UNCHANGED vars
  BY <1>6 DEF vars, Recorded, Earlier, Pending, Position
<1> QED BY <1>1, <1>2, <1>3, <1>4, <1>5, <1>6 DEF Next

-------------------------------------------------------------------------------
(* The success.                                                                    *)
OnOwnAccord == {"max_turns", "natural", "empty", "error"}

\* As long as the model is to be called again no smoke test has passed; that is what the
\* stop hook after each batch is for.
Heeded ==
    /\ pc \in {"model", "tools"} => ~SmokePassed
    /\ outcome.reason \in OnOwnAccord => ~SmokePassed

LEMMA HeededInit == Init => Heeded
BY DEF Init, Heeded, SmokePassed

LEMMA HeededStep == Typed /\ Heeded /\ [Next]_vars => Heeded'
<1> SUFFICES ASSUME Typed, Heeded, [Next]_vars PROVE Heeded'
  OBVIOUS
<1>0. audit' = audit => (SmokePassed' <=> SmokePassed)
  BY DEF SmokePassed
<1>1. CASE CallsTools \/ Dispatch
  BY <1>0, <1>1 DEF CallsTools, Dispatch, Heeded
<1>2. CASE Answers \/ ModelFails
  BY <1>0, <1>2 DEF Answers, ModelFails, Heeded
<1>3. CASE Result
  <2>1. outcome = NoOutcome /\ pc' \in {"done", "hooks", "results"}
        /\ (outcome' = outcome \/ outcome'.reason = "stalled_repeated_tool_result")
    <3>1. outcome = NoOutcome
      BY <1>3 DEF Result, Typed, Turning
    <3> QED BY <1>3, <3>1, OneResult
  <2> QED BY <2>1 DEF Heeded, NoOutcome, OnOwnAccord
<1>4. CASE Hooks
  <2>1. CASE SmokePassed
    BY <1>4, <2>1 DEF Hooks, StopHook, Return, Heeded, OnOwnAccord
  <2>2. CASE ~SmokePassed
    BY <1>0, <1>4, <2>2 DEF Hooks, Heeded
  <2> QED BY <2>1, <2>2
<1>5. CASE UNCHANGED vars
  BY <1>0, <1>5 DEF vars, Heeded
<1> QED BY <1>1, <1>2, <1>3, <1>4, <1>5 DEF Next

-------------------------------------------------------------------------------
(* The turns.                                                                      *)
Assistants(s) == {k \in DOMAIN s : s[k].role = "assistant"}
Number(s) == Cardinality(Assistants(s))

LEMMA NumberOf ==
    ASSUME NEW s \in Seq(Message), NEW m \in Message
    PROVE  /\ Append(s, m) \in Seq(Message) /\ Number(s) \in Nat
           /\ Number(Append(s, m)) = Number(s) + (IF m.role = "assistant" THEN 1 ELSE 0)
<1> DEFINE n == Len(s) + 1
<1>1. /\ DOMAIN Append(s, m) = 1 .. n /\ Append(s, m)[n] = m /\ DOMAIN s = 1 .. Len(s)
      /\ Len(s) \in Nat /\ \A k \in 1 .. Len(s) : Append(s, m)[k] = s[k]
      /\ Append(s, m) \in Seq(Message)
  OBVIOUS
<1>2. IsFiniteSet(Assistants(s))
  <2>1. IsFiniteSet(1 .. Len(s))
    BY <1>1, FS_Interval
  <2> QED BY <1>1, <2>1, FS_Subset DEF Assistants
<1>3. n \notin Assistants(s)
  BY <1>1 DEF Assistants
<1>4. Assistants(Append(s, m)) = Assistants(s) \cup (IF m.role = "assistant" THEN {n} ELSE {})
  <2>1. \A k : k \in 1 .. n <=> k \in 1 .. Len(s) \/ k = n
    BY <1>1
  <2> HIDE DEF n
  <2> QED BY <1>1, <2>1 DEF Assistants
<1>5. Number(s) \in Nat
  BY <1>2, FS_CardinalityType DEF Number
<1>6. m.role = "assistant" => Number(Append(s, m)) = Number(s) + 1
  BY <1>2, <1>3, <1>4, FS_AddElement DEF Number
<1>7. m.role # "assistant" => Number(Append(s, m)) = Number(s)
  <2> SUFFICES ASSUME m.role # "assistant" PROVE Number(Append(s, m)) = Number(s)
    OBVIOUS
  <2>1. Assistants(Append(s, m)) = Assistants(s)
    BY <1>4
  <2> QED BY <2>1 DEF Number
<1> QED BY <1>1, <1>5, <1>6, <1>7

Numbered ==
    Number(messages) = CASE pc = "model" -> turn
                         [] pc \in {"tools", "results", "hooks"} -> turn + 1
                         [] OTHER -> outcome.turns

LEMMA NumberedInit == Init => Numbered
<1> SUFFICES ASSUME Init PROVE Numbered
  OBVIOUS
<1>1. Assistants(messages) = {}
  BY DEF Init, Assistants, Says
<1>2. Number(messages) = 0
  BY <1>1, FS_EmptySet DEF Number
<1> QED BY <1>2 DEF Init, Numbered

LEMMA NumberedStep == Typed /\ Numbered /\ [Next]_vars => Numbered'
<1> SUFFICES ASSUME Typed, Numbered, [Next]_vars PROVE Numbered'
  OBVIOUS
<1>0. /\ messages \in Seq(Message) /\ messages' \in Seq(Message) /\ turn \in Nat
      /\ turn \in 0 .. MaxTurns /\ MaxTurns \in Nat
  <2>1. Typed'
    BY TypedStep
  <2> QED BY <2>1, LoopAssumption DEF Typed, TypeOK
<1>m. /\ Says("assistant") \in Message /\ Says("assistant").role = "assistant"
      /\ Says("user") \in Message /\ Says("user").role = "user"
  BY DEF Says, Message
<1>1. CASE CallsTools
  <2> DEFINE m == [role |-> "assistant", ids |-> [i \in DOMAIN batch' |-> AssistantId(i)]]
  <2>1. messages' = Append(messages, m) /\ m.role = "assistant" /\ pc' = "tools" /\ turn' = turn
        /\ pc = "model"
    BY <1>1 DEF CallsTools
  <2>2. m \in Message
    <3>1. messages'[Len(messages')] = m /\ Len(messages') \in DOMAIN messages'
      BY <1>0, <2>1
    <3> HIDE DEF m
    <3> QED BY <1>0, <3>1
  <2> HIDE DEF m
  <2>3. Number(messages') = Number(messages) + 1
    BY <1>0, <2>1, <2>2, NumberOf
  <2> QED BY <2>1, <2>3 DEF Numbered
<1>2. CASE Answers
  <2>1. pc = "model" /\ turn < MaxTurns
    BY <1>2 DEF Answers, Typed, Turning
  <2>2. CASE stalls < MaxStalls
    <3>1. messages' = Append(Append(messages, Says("assistant")), Says("user"))
      BY <1>0, <1>2, <1>m, <2>2, AppendedTwo DEF Answers
    <3>2. Number(messages') = Number(messages) + 1
      <4>1. /\ Append(messages, Says("assistant")) \in Seq(Message)
            /\ Number(Append(messages, Says("assistant"))) = Number(messages) + 1
            /\ Number(messages) \in Nat
        BY <1>0, <1>m, NumberOf
      <4>2. Number(messages') = Number(Append(messages, Says("assistant"))) + 0
        BY <1>m, <3>1, <4>1, NumberOf
      <4> QED BY <4>1, <4>2
    <3>3. \/ pc' = "model" /\ turn' = turn + 1
          \/ pc' = "done" /\ outcome'.turns = turn + 1
      BY <1>0, <1>2, <2>1, <2>2 DEF Answers, NextTurn, Return
    <3> QED BY <2>1, <3>2, <3>3 DEF Numbered
  <2>3. CASE ~(stalls < MaxStalls)
    <3>1. messages' = Append(messages, Says("assistant")) /\ pc' = "done"
          /\ outcome'.turns = turn + 1
      BY <1>2, <2>3 DEF Answers, Return
    <3>2. Number(messages') = Number(messages) + 1
      BY <1>0, <1>m, <3>1, NumberOf
    <3> QED BY <2>1, <3>1, <3>2 DEF Numbered
  <2> QED BY <2>2, <2>3
<1>3. CASE ModelFails
  BY <1>3 DEF ModelFails, Return, Numbered
<1>4. CASE Dispatch
  BY <1>4 DEF Dispatch, Numbered
<1>5. CASE Result
  <2>1. /\ pc = "results" /\ turn' = turn
        /\ \/ pc' = "done" /\ outcome'.turns = turn + 1
           \/ pc' \in {"hooks", "results"}
    BY <1>5, OneResult
  <2>2. Number(messages') = Number(messages)
    <3>1. CASE messages' = messages
      BY <3>1
    <3>2. CASE messages' # messages
      <4> DEFINE m == [role |-> "tool", ids |-> <<CallId(Position)>>]
      <4>1. messages' = Append(messages, m) /\ m.role = "tool"
        BY <1>5, <3>2 DEF Result
      <4>2. m \in Message
        <5>1. messages'[Len(messages')] = m /\ Len(messages') \in DOMAIN messages'
          BY <1>0, <4>1
        <5> HIDE DEF m
        <5> QED BY <1>0, <5>1
      <4> HIDE DEF m
      <4>3. Number(messages') = Number(messages) + 0 /\ Number(messages) \in Nat
        BY <1>0, <4>1, <4>2, NumberOf
      <4> QED BY <4>3
    <3> QED BY <3>1, <3>2
  <2> QED BY <2>1, <2>2 DEF Numbered
<1>6. CASE Hooks
  <2>1. pc = "hooks" /\ turn < MaxTurns
    BY <1>6 DEF Hooks, Typed, Turning
  <2>2. Number(messages') = Number(messages)
    <3>1. CASE messages' = messages
      BY <3>1
    <3>2. CASE messages' = Append(messages, Says("user"))
      <4>1. Number(messages') = Number(messages) + 0 /\ Number(messages) \in Nat
        BY <1>0, <1>m, <3>2, NumberOf
      <4> QED BY <4>1
    <3> QED BY <1>6, <3>1, <3>2 DEF Hooks
  <2>3. \/ pc' = "model" /\ turn' = turn + 1
        \/ pc' = "done" /\ outcome'.turns = turn + 1
    BY <1>0, <1>6, <2>1 DEF Hooks, NextTurn, Return
  <2> QED BY <2>1, <2>2, <2>3 DEF Numbered
<1>7. CASE UNCHANGED vars
  BY <1>7 DEF vars, Numbered
<1> QED BY <1>1, <1>2, <1>3, <1>4, <1>5, <1>6, <1>7 DEF Next

\* The result of a run can be gone by, however it ended: the calls on record are those
\* that were executed, in their order; no smoke test that passed was followed by another
\* question; and the number of turns is the number of answers.
THEOREM ResultsAreTrue == Spec => []ResultIsTrue
<1>1. Typed /\ Recorded /\ Heeded /\ Numbered => ResultIsTrue
  <2> SUFFICES ASSUME Typed, Recorded, Heeded, Numbered PROVE ResultIsTrue
    OBVIOUS
  <2>1. AuditIsComplete
    BY DEF Recorded, AuditIsComplete, Pairs, OnRecord
  <2>2. SuccessIsNotMissed
    BY DEF Heeded, SuccessIsNotMissed, OnOwnAccord
  <2>3. TurnsAreAnswers
    BY DEF Numbered, Number, Assistants, TurnsAreAnswers
  <2> QED BY <2>1, <2>2, <2>3 DEF ResultIsTrue
<1> QED BY <1>1, TypedInit, TypedStep, RecordedInit, RecordedStep, HeededInit, HeededStep,
           NumberedInit, NumberedStep, PTL DEF Spec

-------------------------------------------------------------------------------
(* The repetition.                                                                 *)
Places(s, f) == {i \in DOMAIN s : s[i].name = f[1] /\ s[i].result = f[2]}
Count(s, f) == Cardinality(Places(s, f))

LEMMA CountOf ==
    ASSUME NEW s \in Seq(Entry), NEW e \in Entry, NEW f \in Fingerprints
    PROVE  Count(s, f) \in Nat
           /\ Count(Append(s, e), f) = Count(s, f) + (IF f = <<e.name, e.result>> THEN 1 ELSE 0)
<1> DEFINE n == Len(s) + 1
<1>1. /\ DOMAIN Append(s, e) = 1 .. n /\ Append(s, e)[n] = e /\ DOMAIN s = 1 .. Len(s)
      /\ Len(s) \in Nat /\ \A k \in 1 .. Len(s) : Append(s, e)[k] = s[k]
  OBVIOUS
<1>2. IsFiniteSet(Places(s, f))
  <2>1. Len(s) \in Int /\ 1 \in Int
    OBVIOUS
  <2>2. IsFiniteSet(1 .. Len(s))
    BY <2>1, FS_Interval
  <2> QED BY <1>1, <2>2, FS_Subset DEF Places
<1>3. n \notin Places(s, f)
  BY <1>1 DEF Places
<1>4. f = <<f[1], f[2]>>
  BY DEF Fingerprints
<1>5. \A k : k \in 1 .. n <=> k \in 1 .. Len(s) \/ k = n
  BY <1>1
<1> HIDE DEF n
<1>6. CASE f = <<e.name, e.result>>
  <2>1. Places(Append(s, e), f) = Places(s, f) \cup {n}
    BY <1>1, <1>5, <1>6 DEF Places
  <2>2. Count(Append(s, e), f) = Count(s, f) + 1 /\ Count(s, f) \in Nat
    BY <1>2, <1>3, <2>1, FS_AddElement, FS_CardinalityType DEF Count
  <2> QED BY <1>6, <2>2
<1>7. CASE f # <<e.name, e.result>>
  <2>1. ~(e.name = f[1] /\ e.result = f[2])
    BY <1>4, <1>7
  <2>2. Places(Append(s, e), f) = Places(s, f)
    BY <1>1, <1>5, <2>1 DEF Places
  <2>3. Count(Append(s, e), f) = Count(s, f) /\ Count(s, f) \in Nat
    BY <1>2, <2>2, FS_CardinalityType DEF Count
  <2> QED BY <1>7, <2>3
<1> QED BY <1>6, <1>7

Stalled == outcome.reason = "stalled_repeated_tool_result"

\* The counters are the record's, and the run is over as soon as one is at the limit.
Tallied ==
    /\ \A f \in Fingerprints : failures[f] = Count(audit, f)
    /\ Stalled <=> \E f \in Fingerprints : failures[f] >= RepeatLimit
    /\ Stalled => pc = "done"

LEMMA TalliedInit == RepeatLimit > 0 /\ Init => Tallied
<1> SUFFICES ASSUME RepeatLimit > 0, Init PROVE Tallied
  OBVIOUS
<1>1. \A f \in Fingerprints : failures[f] = 0 /\ Count(audit, f) = 0
  <2> SUFFICES ASSUME NEW f \in Fingerprints PROVE failures[f] = 0 /\ Count(audit, f) = 0
    OBVIOUS
  <2>1. Places(audit, f) = {}
    BY DEF Init, Places
  <2> QED BY <2>1, FS_EmptySet DEF Init, Count
<1>2. ~Stalled
  BY DEF Init, Stalled, NoOutcome
<1>3. \A f \in Fingerprints : ~(failures[f] >= RepeatLimit)
  BY <1>1, LoopAssumption
<1> QED BY <1>1, <1>2, <1>3 DEF Tallied

LEMMA TalliedStep == RepeatLimit > 0 /\ Typed /\ Tallied /\ [Next]_vars => Tallied'
<1> SUFFICES ASSUME RepeatLimit > 0, Typed, Tallied, [Next]_vars PROVE Tallied'
  OBVIOUS
<1>1. CASE CallsTools \/ Dispatch
  BY <1>1 DEF CallsTools, Dispatch, Tallied, Stalled
<1>2. CASE Answers \/ ModelFails \/ Hooks
  <2>1. /\ failures' = failures /\ audit' = audit /\ ~Stalled
        /\ outcome' = outcome \/ outcome'.reason \in OnOwnAccord \cup {"stop_hook"}
    BY <1>2 DEF Answers, ModelFails, Hooks, NextTurn, Return, Tallied, Stalled, OnOwnAccord
  <2>2. ~Stalled'
    BY <2>1 DEF Stalled, OnOwnAccord
  <2> QED BY <2>1, <2>2 DEF Tallied
<1>3. CASE Result
  <2> DEFINE e == [turn |-> turn, at |-> Position, name |-> batch[Position],
                   result |-> Head(results)]
             g == <<batch[Position], Head(results)>>
             stop == \E f \in Fingerprints :
                        /\ Counted(batch[Position], Head(results))[f] > failures[f]
                        /\ Counted(batch[Position], Head(results))[f] >= RepeatLimit
  <2>1. /\ pc = "results" /\ audit \in Seq(Entry) /\ audit' = Append(audit, e) /\ e \in Entry
        /\ e.name = batch[Position] /\ e.result = Head(results)
        /\ batch[Position] \in Tools /\ Head(results) \in Results
        /\ failures \in [Fingerprints -> Nat]
    BY <1>3, OneResult DEF Typed, TypeOK
  <2>2. /\ failures' = Counted(batch[Position], Head(results))
        /\ stop => pc' = "done" /\ outcome'.reason = "stalled_repeated_tool_result"
        /\ ~stop => outcome' = outcome
    BY <1>3 DEF Result, Return
  <2>3. ~Stalled /\ \A f \in Fingerprints : failures[f] < RepeatLimit
    <3>1. ~Stalled
      BY <2>1 DEF Tallied
    <3>2. \A f \in Fingerprints : ~(failures[f] >= RepeatLimit)
      BY <3>1 DEF Tallied
    <3> QED BY <2>1, <3>1, <3>2, LoopAssumption
  <2>4. \A f \in Fingerprints : failures'[f] = failures[f] + (IF f = g THEN 1 ELSE 0)
    <3> SUFFICES ASSUME NEW f \in Fingerprints
                 PROVE  failures'[f] = failures[f] + (IF f = g THEN 1 ELSE 0)
      OBVIOUS
    <3>1. CASE Head(results) = "ok"
      <4>1. f # g
        BY <3>1, LoopAssumption DEF Fingerprints
      <4>2. failures' = failures
        BY <2>2, <3>1 DEF Counted
      <4> HIDE DEF g
      <4> QED BY <2>1, <4>1, <4>2
    <3>2. CASE Head(results) # "ok"
      <4>1. failures' = [failures EXCEPT ![g] = @ + 1]
        BY <2>2, <3>2, LoopAssumption DEF Counted
      <4>2. g \in Fingerprints
        BY <2>1, <3>2 DEF Fingerprints, Results
      <4> HIDE DEF g
      <4> QED BY <2>1, <4>1, <4>2
    <3> QED BY <3>1, <3>2
  <2>5. \A f \in Fingerprints : failures'[f] = Count(audit', f)
    <3> SUFFICES ASSUME NEW f \in Fingerprints PROVE failures'[f] = Count(audit', f)
      OBVIOUS
    <3>1. /\ Count(audit, f) \in Nat
          /\ Count(audit', f) = Count(audit, f) + (IF f = <<e.name, e.result>> THEN 1 ELSE 0)
      BY <2>1, CountOf
    <3>2. <<e.name, e.result>> = g /\ failures[f] = Count(audit, f)
      BY <2>1 DEF Tallied
    <3> HIDE DEF e, g
    <3> QED BY <2>4, <3>1, <3>2
  <2>6. stop <=> \E f \in Fingerprints : failures'[f] >= RepeatLimit
    <3> HIDE DEF g
    <3>1. \A f \in Fingerprints : failures'[f] >= RepeatLimit => failures'[f] > failures[f]
      BY <2>1, <2>3, <2>4, LoopAssumption
    <3>2. stop <=> \E f \in Fingerprints : failures'[f] > failures[f] /\ failures'[f] >= RepeatLimit
      BY <2>2
    <3> HIDE DEF stop
    <3> QED BY <3>1, <3>2
  <2> HIDE DEF stop
  <2>7. Stalled' <=> stop
    BY <2>2, <2>3 DEF Stalled
  <2> QED BY <2>2, <2>5, <2>6, <2>7 DEF Tallied
<1>4. CASE UNCHANGED vars
  BY <1>4 DEF vars, Tallied, Stalled
<1> QED BY <1>1, <1>2, <1>3, <1>4 DEF Next

\* However far apart the turns are in which the same tool fails in the same way: the run
\* is given up at exactly the failure that reaches the limit, and for nothing else.
THEOREM GivesUpInTime == Spec => []GivesUpOnRepetition
<1>1. CASE RepeatLimit > 0
  <2>1. Tallied => GivesUpOnRepetition
    BY DEF Tallied, Stalled, Count, Places, Times, GivesUpOnRepetition
  <2> HIDE DEF GivesUpOnRepetition
  <2> QED BY <1>1, <2>1, TypedInit, TypedStep, TalliedInit, TalliedStep, PTL DEF Spec
<1>2. CASE ~(RepeatLimit > 0)
  <2>1. GivesUpOnRepetition
    BY <1>2 DEF GivesUpOnRepetition
  <2> QED BY <2>1, PTL
<1> QED BY <1>1, <1>2
===============================================================================
