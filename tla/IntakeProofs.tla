----------------------------- MODULE IntakeProofs -----------------------------
(* What comes before a model is made. AnswersBind and NotAskedAgain hold for any     *)
(* fields and values and any opinions of the models; IndexIsSound, BuiltIsTrue and    *)
(* OutagesNeverBlock for any documents, sources and searchers, and any number of      *)
(* releases, runs and edits.                                                          *)
EXTENDS Confirmations, KnowledgeBase, FiniteSetTheorems, WellFoundedInduction, TLAPS

-------------------------------------------------------------------------------
(* The answers.                                                                    *)

\* What the reviews pass on.
Request ==
    [status : {"none", "needs_user_input", "approved", "rejected"}, asked : SUBSET Fields,
     missing : SUBSET Fields, proposed : SUBSET Fields, answers : Params]

Typed ==
    /\ said \in Params
    /\ review \in Request
    /\ open.fields \subseteq Fields

\* The plan on record has every answer of the request it was made from; a job that goes
\* back to the review leaves it behind and makes another.
PlanBinds ==
    stage \in {"modeling", "built"} =>
        \A f \in Fields : review.answers[f] # None => plan[f] = review.answers[f]

\* The record of a confirmation is that of one decision and the edits it came with.
ModelIsMerged ==
    \/ model = NoModel
    \/ \E d \in Decisions, e \in Edits(Fields) : (e # NoEdits => d = "edit") /\ model = Merged(d, e)

IInv == Typed /\ NotAskedAgain /\ PlanBinds /\ ReviewBinds /\ ModelIsMerged

-------------------------------------------------------------------------------
\* What is settled is open no more, whatever a model keeps asking.
LEMMA SettledIsNotOpen ==
    ASSUME NEW x \in Opinions, NEW o \in Settled(x), said \in Params
    PROVE  \A f \in Fields : f \in o.asked \cup o.missing => said[f] = None
<1>1. CASE Answered = {}
  BY <1>1 DEF Answered
<1>2. CASE Answered # {}
  <2>1. PICK missing \in SUBSET (x.missing \ Answered) :
            o = [status |-> IF x.asked \subseteq Answered /\ missing = {} THEN "pass"
                            ELSE x.status,
                 asked |-> x.asked \ Answered, missing |-> missing,
                 proposed |-> x.proposed \cup Answered]
    BY <1>2 DEF Settled
  <2>2. \A f \in o.asked \cup o.missing : f \notin Answered
    BY <2>1
  <2> QED BY <2>2 DEF Answered
<1> QED BY <1>1, <1>2

\* What models ask for, and what is left of it, are fields.
LEMMA OpenAreFields ==
    ASSUME NEW x \in Opinions, NEW o \in Settled(x)
    PROVE  o.asked \subseteq Fields /\ o.missing \subseteq Fields /\ o.proposed \subseteq Fields
<1>1. x.asked \subseteq Fields /\ x.missing \subseteq Fields /\ x.proposed \subseteq Fields
  BY DEF Opinions, Parsed, Extracted, Carded, Defaulted, Failed, Opinion
<1>2. /\ o.asked \subseteq x.asked /\ o.missing \subseteq x.missing
      /\ o.proposed \subseteq x.proposed \cup Fields
  BY DEF Settled, Answered
<1> QED BY <1>1, <1>2

LEMMA InitOK == Init => IInv
BY DEF Init, ReviewInit, NoRequest, NoParams, IInv, Typed, Request, Params, Answer,
       NotAskedAgain, Waiting, PlanBinds, ReviewBinds, ModelIsMerged

\* A review leaves the answers of its request, and a plan that has them, or no plan yet.
LEMMA ReviewKeeps ==
    ASSUME IInv, Review
    PROVE  /\ said' \in Params /\ review' \in Request
           /\ NotAskedAgain' /\ PlanBinds' /\ ReviewBinds'
<1>0. PICK o \in UNION {Settled(y) : y \in Opinions} :
          IF Passed(o)
          THEN /\ review' = Requested(o, "approved")
               /\ plan' = PlanFor(Requested(o, "approved"), said)
               /\ stage' = "modeling"
          ELSE /\ review' = Requested(o, "needs_user_input")
               /\ UNCHANGED <<plan, stage>>
  BY DEF Review
<1>1. PICK x \in Opinions : o \in Settled(x)
  OBVIOUS
<1>2. said' = said /\ said \in Params /\ spec' = spec /\ stage = "review"
  BY DEF Review, IInv, Typed
<1>3. /\ review'.answers = said /\ review'.asked = o.asked /\ review'.missing = o.missing
  BY <1>0 DEF Requested
<1>4. review' \in Request
  BY <1>0, <1>1, <1>2, OpenAreFields DEF Requested, Request
<1>5. NotAskedAgain'
  BY <1>1, <1>2, <1>3, SettledIsNotOpen, OpenAreFields DEF NotAskedAgain
<1>6. CASE Passed(o)
  <2>1. plan' = PlanFor(Requested(o, "approved"), said) /\ stage' = "modeling"
    BY <1>0, <1>6
  <2>2. \A f \in Fields : said[f] # None => plan'[f] = said[f]
    BY <2>1 DEF PlanFor
  <2> QED BY <1>2, <1>3, <1>4, <1>5, <2>1, <2>2 DEF PlanBinds, ReviewBinds
<1>7. CASE ~Passed(o)
  <2>1. stage' = "review"
    BY <1>0, <1>2, <1>7
  <2> QED BY <1>2, <1>4, <1>5, <2>1 DEF PlanBinds, ReviewBinds
<1> QED BY <1>6, <1>7

\* Requests ask for fields.
LEMMA RequestsAreOfFields == \A r \in Requests : r.fields \subseteq Fields
BY DEF Requests, AskedOf, Completions

\* Running the subgraph, on an answer to the questions shown or on one that nobody asked
\* for, leaves a record of it.
LEMMA SubgraphKeeps ==
    ASSUME IInv, NEW d \in Decisions, NEW e \in Edits(Fields), e # NoEdits => d = "edit",
           Subgraph(d, e), UNCHANGED reviewVars
    PROVE  IInv'
<1>1. ModelIsMerged'
  BY DEF Subgraph, ModelIsMerged
<1>2. open'.fields \subseteq Fields
  BY RequestsAreOfFields DEF Subgraph, IInv, Typed
<1> QED BY <1>1, <1>2 DEF reviewVars, IInv, Typed, NotAskedAgain, Waiting, PlanBinds, ReviewBinds

LEMMA RepliesEdit == ASSUME Typed, NEW e \in Replies PROVE e \in Edits(Fields)
BY DEF Typed, Replies, Edits

LEMMA StepOK == IInv /\ [Next]_vars => IInv'
<1> SUFFICES ASSUME IInv, [Next]_vars PROVE IInv'
  OBVIOUS
<1> USE DEF IInv
<1>1. CASE RunReview
  <2>1. Review /\ model' = model /\ open' = [fields |-> review'.asked, notes |-> FALSE]
    BY <1>1 DEF RunReview
  <2>2. review' \in Request
    BY <2>1, ReviewKeeps
  <2>3. open'.fields \subseteq Fields
    BY <2>1, <2>2 DEF Request
  <2> QED BY <2>1, <2>3, ReviewKeeps DEF ModelIsMerged, Typed
<1>2. CASE SubmitReject
  <2>1. /\ model' = model /\ open' = open /\ said' = said /\ stage = "review" /\ stage' = "review"
        /\ review' = [review EXCEPT !.status = "rejected"]
    BY <1>2 DEF SubmitReject, Reject
  <2>2. review' \in Request /\ review'.answers = review.answers /\ review'.status = "rejected"
    BY <2>1 DEF Typed, Request
  <2> QED BY <2>1, <2>2 DEF ModelIsMerged, Typed, NotAskedAgain, Waiting, PlanBinds, ReviewBinds
<1>3. CASE Workflow
  <2>1. CASE Supplement
    <3>1. /\ review' = review /\ plan' = plan /\ spec' = spec /\ stage' = stage
          /\ model' = model /\ open' = open
      BY <1>3, <2>1 DEF Workflow, Supplement, confVars
    <3>2. said' \in Params
      BY <2>1 DEF Supplement, Typed, Params
    <3> QED BY <3>1, <3>2 DEF ModelIsMerged, Typed, NotAskedAgain, Waiting, PlanBinds, ReviewBinds
  <2>2. CASE Model
    BY <1>3, <2>2 DEF Workflow, Model, confVars, ModelIsMerged, Typed, NotAskedAgain, Waiting,
                      PlanBinds, ReviewBinds
  <2>3. CASE RouteBack
    BY <1>3, <2>3 DEF Workflow, RouteBack, confVars, ModelIsMerged, Typed, NotAskedAgain,
                      Waiting, PlanBinds, ReviewBinds
  <2> QED BY <1>3, <2>1, <2>2, <2>3 DEF Workflow
<1>4. CASE ConfirmReview
  <2>1. /\ review' = [review EXCEPT !.status = "approved"] /\ plan' = PlanFor(review, NoParams)
        /\ stage' = "modeling" /\ said' = said /\ model' = model /\ open' = open
    BY <1>4 DEF ConfirmReview
  <2>2. review' \in Request /\ review'.answers = review.answers /\ review'.status = "approved"
    BY <2>1 DEF Typed, Request
  <2>3. \A f \in Fields : review.answers[f] # None => plan'[f] = review.answers[f]
    BY <2>1 DEF PlanFor, NoParams
  <2> QED BY <2>1, <2>2, <2>3 DEF ModelIsMerged, Typed, NotAskedAgain, Waiting, PlanBinds,
                                  ReviewBinds
<1>5. CASE Decline
  BY <1>5 DEF Decline, ModelIsMerged, Typed, NotAskedAgain, Waiting, PlanBinds, ReviewBinds
<1>6. CASE ConfirmModel
  <2>1. PICK e \in Replies : \E d \in DecisionOf(e) : Subgraph(d, e)
    BY <1>6 DEF ConfirmModel
  <2>2. PICK d \in DecisionOf(e) : Subgraph(d, e)
    BY <2>1
  <2>3. d \in Decisions /\ (e # NoEdits => d = "edit")
    BY DEF DecisionOf, Decisions
  <2> QED BY <1>6, <2>2, <2>3, RepliesEdit, SubgraphKeeps DEF ConfirmModel
<1>7. CASE SubmitUnasked
  <2>1. PICK d \in Decisions : Subgraph(d, NoEdits)
    BY <1>7 DEF SubmitUnasked
  <2>2. NoEdits \in Edits(Fields)
    BY DEF NoEdits, Edits
  <2> QED BY <1>7, <2>1, <2>2, SubgraphKeeps DEF SubmitUnasked
<1>8. CASE UNCHANGED vars
  BY <1>8 DEF vars, ModelIsMerged, Typed, NotAskedAgain, Waiting, PlanBinds, ReviewBinds
<1> QED BY <1>1, <1>2, <1>3, <1>4, <1>5, <1>6, <1>7, <1>8 DEF Next

-------------------------------------------------------------------------------
\* What a generation is told of a merged plan is what the user said of it.
LEMMA MergedBinds ==
    ASSUME IsFiniteSet(Fields), ModelIsMerged PROVE ConfirmationBinds
<1> SUFFICES ASSUME NEW told \in Told(model)
             PROVE  /\ \A f \in DOMAIN told :
                          IF f \in DOMAIN model.edits THEN told[f] = model.edits[f]
                          ELSE model.status = "approved" /\ told[f] = Proposed
                    /\ model.status \in {"approved", "edited"}
                          => \/ DOMAIN model.edits \subseteq DOMAIN told
                             \/ Cardinality(DOMAIN model.constraints) > MaxConstraints
  BY DEF ConfirmationBinds
<1> DEFINE all == DOMAIN model.constraints
<1>1. PICK S \in SUBSET all :
          /\ Cardinality(S) = IF Cardinality(all) < MaxConstraints
                              THEN Cardinality(all) ELSE MaxConstraints
          /\ told = Restrict(model.constraints, S)
  BY DEF Told
<1>2. DOMAIN told = S /\ \A f \in S : told[f] = model.constraints[f]
  BY <1>1 DEF Restrict
<1>3. CASE model = NoModel
  <2>1. all = {} /\ model.status = "none"
    BY <1>3 DEF NoModel, NoEdits
  <2> QED BY <1>1, <1>2, <2>1
<1>4. CASE model # NoModel
  <2>1. PICK d \in Decisions, e \in Edits(Fields) :
            (e # NoEdits => d = "edit") /\ model = Merged(d, e)
    BY <1>4 DEF ModelIsMerged
  <2>2. DOMAIN e \subseteq Fields
    BY DEF Edits
  <2>3. /\ model.edits = e /\ model.status = StatusOf(d)
        /\ model.constraints = IF d \in {"approve", "edit"} THEN Constraints(d, e) ELSE NoEdits
    BY <2>1 DEF Merged
  <2>4. CASE d \in {"approve", "edit"}
    <3>1. /\ all = IF d = "approve" THEN Fields ELSE DOMAIN e
          /\ \A f \in all : model.constraints[f] = IF f \in DOMAIN e THEN e[f] ELSE Proposed
      BY <2>3, <2>4 DEF Constraints
    <3>2. \A f \in DOMAIN told :
              IF f \in DOMAIN model.edits THEN told[f] = model.edits[f]
              ELSE model.status = "approved" /\ told[f] = Proposed
      BY <1>1, <1>2, <2>3, <2>4, <3>1 DEF StatusOf
    <3>3. DOMAIN e \subseteq all /\ all \subseteq Fields
      BY <2>2, <3>1
    <3>4. ASSUME ~(Cardinality(all) > MaxConstraints) PROVE S = all
      <4>1. IsFiniteSet(all) /\ Cardinality(all) \in Nat
        BY <3>3, FS_Subset, FS_CardinalityType
      <4>2. Cardinality(S) = Cardinality(all)
        BY <1>1, <3>4, <4>1, QuestionsAssumption
      <4> HIDE DEF all
      <4> QED BY <1>1, <4>1, <4>2, FS_Subset
    <3> QED BY <1>2, <2>3, <3>2, <3>3, <3>4
  <2>5. CASE d \notin {"approve", "edit"}
    <3>1. all = {} /\ model.status \notin {"approved", "edited"}
      BY <2>1, <2>3, <2>5 DEF NoEdits, StatusOf, Decisions
    <3> QED BY <1>1, <1>2, <3>1
  <2> QED BY <2>4, <2>5
<1> QED BY <1>3, <1>4

\* However many rounds of review, confirmations and returns of the job lie between, an
\* answer of the user is what modelling and generation go by, if fields are finitely many.
THEOREM AnswersAlwaysBind == IsFiniteSet(Fields) /\ Spec => []AnswersBind
<1> SUFFICES ASSUME IsFiniteSet(Fields) PROVE Spec => []AnswersBind
  OBVIOUS
<1>1. IInv => AnswersBind
  BY MergedBinds DEF IInv, AnswersBind
<1> QED BY <1>1, InitOK, StepOK, PTL DEF Spec

\* Whatever the model that reviews the requirements says is open, what is answered is not
\* asked for again.
THEOREM AnsweredOnce == Spec => []NotAskedAgain
<1>1. IInv => NotAskedAgain
  BY DEF IInv
<1> QED BY <1>1, InitOK, StepOK, PTL DEF Spec

-------------------------------------------------------------------------------
(* The first two phases.                                                           *)

\* Only a request without a word is ended; and what a phase goes on with is on file.
Prepared ==
    /\ {"at", "decision", "spec", "status"} \subseteq DOMAIN prep
    /\ {"report", "evidence", "spec"} \subseteq DOMAIN files
    /\ prep.decision = "block_no_context" => request.empty
    /\ prep.at = "blocked" => prep.decision = "block_no_context"
    /\ prep.at = "evidence" => files.report = prep.decision
    /\ prep.at \in {"planning", "validating", "saving", "planned"} =>
          /\ files.evidence = prep.decision /\ files.report = prep.decision
          /\ prep.decision # "block_no_context"

\* With a word to go by there is a signal, and no score or search can make it a block.
LEMMA WordsSuffice == Decision = "block_no_context" => request.empty
BY DEF Decision, HasSignal

LEMMA PreparedInit == BaseInit => Prepared
BY DEF BaseInit, PreparationInit, Prepared, Fresh, NoFiles

LEMMA PreparedPhase ==
    ASSUME Prepared, ContextPhase \/ PlanningPhase
    PROVE  Prepared'
<1>1. CASE ExtractRequirements
  BY <1>1 DEF ExtractRequirements, Prepares, Unfiled, Understood, Fresh, Prepared
<1>2. CASE AskKnowledge \/ Retrieved
  BY <1>2 DEF AskKnowledge, Retrieved, Prepared
<1>3. CASE ScoreRetrieved \/ SearchWeb
  BY <1>3 DEF ScoreRetrieved, SearchWeb, Prepares, Unfiled, Prepared
<1>4. CASE Decide
  BY <1>4, WordsSuffice DEF Decide, Prepares, Fresh, Prepared
<1>5. CASE SaveEvidence
  BY <1>5 DEF SaveEvidence, Prepares, Prepared
<1>6. CASE ParseTask \/ ValidateTask
  BY <1>6 DEF ParseTask, ValidateTask, Prepares, Unfiled, Prepared
<1>7. CASE SaveTask
  BY <1>7 DEF SaveTask, Prepares, Fresh, Prepared
<1> QED BY <1>1, <1>2, <1>3, <1>4, <1>5, <1>6, <1>7 DEF ContextPhase, PlanningPhase

LEMMA PreparedStep == Prepared /\ [BaseNext]_allVars => Prepared'
<1> SUFFICES ASSUME Prepared, [BaseNext]_allVars PROVE Prepared'
  OBVIOUS
<1>1. CASE UNCHANGED prepVars
  BY <1>1 DEF prepVars, Prepared
<1>2. CASE Restart
  BY <1>2 DEF Restart, Fresh, Prepared
<1>3. CASE PreparationNext
  <2>1. ASSUME NEW s, ToolAsk(s) \/ ToolClose(s) \/ Step(s) \/ Chat \/ Run PROVE UNCHANGED prepVars
    BY <2>1 DEF ToolAsk, ToolClose, Step, Chat, Run
  <2> QED BY <1>1, <1>2, <1>3, <2>1, PreparedPhase DEF PreparationNext
<1>4. CASE Build \/ UNCHANGED allVars
  BY <1>1, <1>4 DEF Build, allVars, preparationVars
<1> QED BY <1>3, <1>4 DEF BaseNext, Use

\* Whatever of the knowledge base, the web and the models fails, and however often the
\* phases are interrupted: a job whose request has words is not ended for want of
\* context, and what a phase goes on with is what its files say it decided.
THEOREM OutagesNeverEndAJob == BaseSpec => []OutagesNeverBlock
<1>1. Prepared => OutagesNeverBlock
  BY DEF Prepared, OutagesNeverBlock
<1> QED BY <1>1, PreparedInit, PreparedStep, PTL DEF BaseSpec

-------------------------------------------------------------------------------
(* The knowledge base in use.                                                      *)

Known == Docs \cup {Manual}

SearchState ==
    [at : {"idle", "asked", "reached", "waiting", "embedding", "ready", "answered"},
     found : SUBSET Known]

\* An index of the documents' texts of version v is as IndexIsSound asks.
SoundAt(entries, v) ==
    /\ \A i \in DOMAIN entries :
          /\ entries[i].doc \in Known
          /\ entries[i].of \in {<<entries[i].doc, entries[i].text>>, Nothing}
          /\ entries[i].doc # Manual => entries[i].text = v
    /\ \A i, j \in DOMAIN entries : entries[i].doc = entries[j].doc => i = j

KnowledgeTyped ==
    /\ release \in [version : Nat \ {0}, prebuilt : BOOLEAN]
    /\ search \in [Searchers -> SearchState]
    /\ lock \in [queue : Seq(Searchers), loop : Nat \cup {Nothing}, run : Nat]
    /\ {"at", "index"} \subseteq DOMAIN chat
    /\ {"embeddings", "hash"} \subseteq DOMAIN saved

\* Whoever embeds holds the lock, and there was no index when it went to embed: what
\* comes back is the whole of it.
Alone ==
    \A s \in Searchers : search[s].at = "embedding" =>
        Holds(s) /\ index = <<>>

\* The chat's embeddings are of one version of the documents. If the hash beside them
\* is this release's so are they: a crash between the two writes leaves a hash of
\* an earlier release, or of this one with other embeddings of this one.
HashTells ==
    /\ saved.hash \in {Nothing} \cup 1 .. release.version
    /\ saved.embeddings # Nothing =>
          \E v \in Nat, docs \in Batches :
             /\ saved.embeddings = Embedded(v, docs)
             /\ saved.hash = release.version => v = release.version

Indexed ==
    /\ SoundAt(index, release.version)
    /\ SoundAt(cache.entries, cache.fingerprint)
    /\ SoundAt(chat.index, release.version)

KnowledgeInv == KnowledgeTyped /\ Alone /\ HashTells /\ Indexed

\* A batch is a sequence of documents, none twice.
LEMMA BatchIs ==
    ASSUME NEW docs \in Batches
    PROVE  /\ docs \in Seq(Docs)
           /\ \A i, j \in DOMAIN docs : docs[i] = docs[j] => i = j
<1>1. PICK m \in 0 .. NumDocs : docs \in [1 .. m -> Docs]
  BY DEF Batches, BoundedSeq, SeqOf
<1>2. m \in Nat /\ DOMAIN docs = 1 .. m
  BY <1>1
<1>3. docs \in Seq(Docs)
  BY <1>1, <1>2
<1>4. \A i, j \in DOMAIN docs : docs[i] \in Nat /\ (i < j => docs[i] < docs[j])
  BY <1>1 DEF Batches, Docs
<1>5. ASSUME NEW i \in DOMAIN docs, NEW j \in DOMAIN docs, docs[i] = docs[j] PROVE i = j
  <2>1. i \in Nat /\ j \in Nat
    BY <1>2
  <2>2. ~(i < j) /\ ~(j < i)
    BY <1>4, <1>5
  <2> QED BY <2>1, <2>2
<1> QED BY <1>3, <1>5

LEMMA EmbeddedIsSound ==
    ASSUME NEW v, NEW docs \in Batches
    PROVE  SoundAt(Embedded(v, docs), v)
<1>1. \A i \in DOMAIN docs : docs[i] \in Docs
  BY BatchIs
<1> QED BY <1>1, BatchIs DEF Embedded, Entry, SoundAt, Known

\* Added to an index without entries, a batch is the index.
LEMMA FirstBatch ==
    ASSUME NEW v, NEW docs \in Batches
    PROVE  <<>> \o Embedded(v, docs) = Embedded(v, docs)
<1>1. docs \in Seq(Docs)
  BY BatchIs
<1>2. Embedded(v, docs) \in Seq({Entry(d, v, <<d, v>>) : d \in Docs})
  BY <1>1 DEF Embedded
<1> QED BY <1>2

\* The prebuilt index has the manual and every document besides, as a lexical entry.
LEMMA PrebuiltIsSound ==
    ASSUME NEW v
    PROVE  SoundAt(Prebuilt \o Lexical(v), v)
<1> DEFINE all == Prebuilt \o Lexical(v)
<1>1. NumDocs \in Nat
  BY KnowledgeAssumption
<1>2. Lexical(v) \in Seq({Entry(d, v, Nothing) : d \in Docs}) /\ DOMAIN Lexical(v) = 1 .. NumDocs
  BY <1>1 DEF Lexical, Docs
<1>3. /\ DOMAIN all = 1 .. NumDocs + 1
      /\ all[1] = Entry(Manual, Manual, <<Manual, Manual>>)
      /\ \A i \in 2 .. NumDocs + 1 : all[i] = Entry(i - 1, v, Nothing)
  <2>1. Len(Prebuilt) = 1 /\ Len(Lexical(v)) = NumDocs
    BY <1>1, <1>2 DEF Prebuilt
  <2>2. \A i \in 2 .. NumDocs + 1 : all[i] = Lexical(v)[i - 1]
    BY <1>1, <1>2, <2>1 DEF Prebuilt
  <2>3. all[1] = Prebuilt[1] /\ DOMAIN all = 1 .. NumDocs + 1
    BY <1>1, <1>2, <2>1 DEF Prebuilt
  <2>4. \A i \in 2 .. NumDocs + 1 : i - 1 \in 1 .. NumDocs
    BY <1>1
  <2> QED BY <2>2, <2>3, <2>4 DEF Prebuilt, Lexical, Docs
<1> HIDE DEF all
<1>4. \A i \in DOMAIN all : i # 1 => i \in 2 .. NumDocs + 1 /\ i - 1 \in Docs
  BY <1>1, <1>3 DEF Docs
<1>5. ASSUME NEW i \in DOMAIN all
      PROVE  /\ i \in Nat /\ all[i].doc = i - 1 /\ all[i].doc \in Known
             /\ all[i].of \in {<<all[i].doc, all[i].text>>, Nothing}
             /\ all[i].doc # Manual => all[i].text = v
  <2>1. CASE i = 1
    <3>1. all[i] = [doc |-> Manual, text |-> Manual, of |-> <<Manual, Manual>>]
      BY <2>1, <1>3 DEF Entry
    <3> QED BY <2>1, <3>1 DEF Manual, Known
  <2>2. CASE i # 1
    <3>1. i \in Nat /\ i - 1 \in Docs
      BY <1>1, <1>3, <1>4, <2>2
    <3>2. all[i] = [doc |-> i - 1, text |-> v, of |-> Nothing]
      BY <1>3, <1>4, <2>2 DEF Entry
    <3> QED BY <3>1, <3>2 DEF Known
  <2> QED BY <2>1, <2>2
<1>6. \A i, j \in DOMAIN all : all[i].doc = all[j].doc => i = j
  <2> SUFFICES ASSUME NEW i \in DOMAIN all, NEW j \in DOMAIN all, all[i].doc = all[j].doc
               PROVE  i = j
    OBVIOUS
  <2>1. i \in Nat /\ j \in Nat /\ i - 1 = j - 1
    BY <1>5
  <2> QED BY <2>1
<1>7. \A i \in DOMAIN all :
          /\ all[i].doc \in Known
          /\ all[i].of \in {<<all[i].doc, all[i].text>>, Nothing}
          /\ all[i].doc # Manual => all[i].text = v
  BY <1>5
<1>8. SoundAt(all, v)
  BY <1>6, <1>7 DEF SoundAt
<1> QED BY <1>8 DEF all

LEMMA NothingIsSound == ASSUME NEW v PROVE SoundAt(<<>>, v)
BY DEF SoundAt

LEMMA ThereIsALeast ==
    ASSUME NEW ids, ids \subseteq Nat, ids # {}
    PROVE  \E g \in ids : \A h \in ids : g <= h
<1>1. PICK g \in ids : \A h \in ids : ~(<<h, g>> \in OpToRel(<, Nat))
  BY WFMin, NatLessThanWellFounded
<1>2. \A h \in ids : ~(h < g)
  BY <1>1 DEF OpToRel
<1> QED BY <1>2

\* A batch of as many documents as there are is all of them, each in its place: why
\* the chat may pair its embeddings by position when their number is right.
LEMMA FullBatchIsInPlace ==
    ASSUME NEW docs \in Batches, Len(docs) = NumDocs
    PROVE  \A i \in 1 .. NumDocs : docs[i] = i
<1>0. NumDocs \in Nat
  BY KnowledgeAssumption
<1>1. DOMAIN docs = 1 .. NumDocs /\ \A i \in 1 .. NumDocs : docs[i] \in 1 .. NumDocs
  BY BatchIs DEF Docs
<1>2. \A i, j \in 1 .. NumDocs : i < j => docs[i] < docs[j]
  BY <1>1 DEF Batches
<1>3. ASSUME NEW n \in 1 .. NumDocs, docs[n] < n PROVE FALSE
  <2> DEFINE low == {i \in 1 .. NumDocs : docs[i] < i}
  <2>1. n \in low /\ low \subseteq Nat
    BY <1>0, <1>3
  <2>2. PICK g \in low : \A h \in low : g <= h
    BY <2>1, ThereIsALeast
  <2>3. g \in 1 .. NumDocs /\ docs[g] < g /\ g > 1
    BY <1>0, <1>1
  <2>4. g - 1 \in 1 .. NumDocs /\ g - 1 < g /\ g - 1 \notin low
    BY <1>0, <2>2, <2>3
  <2>5. docs[g - 1] < docs[g] /\ ~(docs[g - 1] < g - 1)
    BY <1>2, <2>3, <2>4
  <2>6. docs[g] \in Nat /\ docs[g - 1] \in Nat /\ g \in Nat
    BY <1>0, <1>1, <2>3, <2>4
  <2> QED BY <2>3, <2>5, <2>6
<1>4. ASSUME NEW n \in 1 .. NumDocs, docs[n] > n PROVE FALSE
  <2> DEFINE high == {k \in 0 .. NumDocs - 1 : docs[NumDocs - k] > NumDocs - k}
  <2>0. NumDocs - n \in 0 .. NumDocs - 1 /\ NumDocs - (NumDocs - n) = n
    BY <1>0
  <2>1. NumDocs - n \in high /\ high \subseteq Nat
    BY <1>0, <1>4, <2>0
  <2>2. PICK k \in high : \A h \in high : k <= h
    BY <2>1, ThereIsALeast
  <2> DEFINE g == NumDocs - k
  <2>3. k \in 0 .. NumDocs - 1 /\ g \in 1 .. NumDocs /\ docs[g] > g
    BY <1>0
  <2>4. g < NumDocs
    BY <1>0, <1>1, <2>3
  <2>5. k - 1 \in 0 .. NumDocs - 1 /\ k - 1 \notin high /\ NumDocs - (k - 1) = g + 1
    BY <1>0, <2>2, <2>3, <2>4
  <2>6. ~(docs[g + 1] > g + 1)
    BY <2>5
  <2>7. g + 1 \in 1 .. NumDocs /\ docs[g] < docs[g + 1]
    BY <1>0, <1>2, <2>3, <2>4
  <2>8. docs[g] \in 1 .. NumDocs /\ docs[g + 1] \in 1 .. NumDocs
    BY <1>1, <2>3, <2>7
  <2>9. docs[g] \in Nat /\ docs[g + 1] \in Nat /\ g \in Nat
    BY <1>0, <2>3, <2>8
  <2> QED BY <2>3, <2>6, <2>7, <2>9
<1> SUFFICES ASSUME NEW i \in 1 .. NumDocs PROVE docs[i] = i
  OBVIOUS
<1>5. docs[i] \in Nat /\ i \in Nat
  BY <1>0, <1>1
<1>6. ~(docs[i] < i) /\ ~(docs[i] > i)
  BY <1>3, <1>4
<1> QED BY <1>5, <1>6

-------------------------------------------------------------------------------
LEMMA KnowledgeInitOK == BaseInit => KnowledgeInv
<1> SUFFICES ASSUME BaseInit PROVE KnowledgeInv
  OBVIOUS
<1>1. /\ release \in [version : {1}, prebuilt : BOOLEAN] /\ index = <<>> /\ lock = NoLock
      /\ search = [s \in Searchers |-> Silent] /\ cache = NoCache /\ chat = ChatOff
      /\ saved = NothingSaved
  BY DEF BaseInit, PreparationInit, KnowledgeInit
<1>2. KnowledgeTyped
  BY <1>1 DEF KnowledgeTyped, SearchState, Silent, NoLock, ChatOff, NothingSaved
<1>3. Alone
  BY <1>1 DEF Alone, Silent
<1>4. HashTells
  BY <1>1 DEF HashTells, NothingSaved
<1>5. Indexed
  BY <1>1, NothingIsSound DEF Indexed, NoCache, ChatOff
<1> QED BY <1>2, <1>3, <1>4, <1>5 DEF KnowledgeInv

LEMMA Moved ==
    ASSUME KnowledgeTyped, NEW s \in Searchers, NEW r \in SearchState,
           search' = [search EXCEPT ![s] = r]
    PROVE  /\ search' \in [Searchers -> SearchState]
           /\ search'[s] = r
           /\ \A u \in Searchers : u # s => search'[u] = search[u]
BY DEF KnowledgeTyped

LEMMA Gone ==
    ASSUME KnowledgeTyped, NEW s \in Searchers,
           NEW at \in {"idle", "asked", "reached", "waiting", "embedding", "ready", "answered"},
           Goes(s, at)
    PROVE  /\ search' \in [Searchers -> SearchState]
           /\ search'[s].at = at
           /\ \A u \in Searchers : u # s => search'[u] = search[u]
<1> DEFINE r == [search[s] EXCEPT !.at = at]
<1>1. search[s] \in SearchState
  BY DEF KnowledgeTyped
<1>2. r \in SearchState /\ r.at = at
  BY <1>1 DEF SearchState
<1>3. search' = [search EXCEPT ![s] = r]
  BY DEF Goes
<1> QED BY <1>2, <1>3, Moved

\* What is not touched stays sound.
LEMMA IndexesStay ==
    ASSUME Indexed, UNCHANGED <<release, cache>>, UNCHANGED chat,
           SoundAt(index', release.version)
    PROVE  Indexed'
BY DEF Indexed, SoundAt

LEMMA ChatStays ==
    ASSUME HashTells, UNCHANGED <<release, saved>>
    PROVE  HashTells'
BY DEF HashTells

\* A question begins, fails, is answered or is over, whoever else embeds.
LEMMA Questions ==
    ASSUME KnowledgeInv, NEW s \in Searchers, Ask(s) \/ Backend(s) \/ Find(s) \/ Close(s)
    PROVE  KnowledgeInv'
<1>1. UNCHANGED <<release, index, lock, cache, chat, saved>>
  BY DEF Ask, Backend, Find, Close, ChatQuiet
<1>2. /\ search' \in [Searchers -> SearchState] /\ search'[s].at # "embedding"
      /\ \A u \in Searchers : u # s => search'[u] = search[u]
  <2>1. CASE Ask(s) \/ Close(s)
    <3>1. PICK r \in SearchState : search' = [search EXCEPT ![s] = r] /\ r.at # "embedding"
      BY <2>1 DEF Ask, Close, Silent, SearchState
    <3> QED BY <3>1, Moved DEF KnowledgeInv
  <2>2. CASE Backend(s)
    BY <2>2, Gone DEF Backend, KnowledgeInv
  <2>3. CASE Find(s)
    <3>1. DocsOf(index) \subseteq Known
      BY DEF DocsOf, KnowledgeInv, Indexed, SoundAt
    <3>2. PICK found \in SUBSET DocsOf(index) :
              search' = [search EXCEPT ![s] =
                            [at |-> "answered", found |-> IF s = Context THEN found ELSE {}]]
      BY <2>3 DEF Find
    <3>3. [at |-> "answered", found |-> IF s = Context THEN found ELSE {}] \in SearchState
      BY <3>1 DEF SearchState
    <3> QED BY <3>2, <3>3, Moved DEF KnowledgeInv
  <2> QED BY <2>1, <2>2, <2>3
<1>3. KnowledgeTyped'
  BY <1>1, <1>2 DEF KnowledgeInv, KnowledgeTyped
<1>4. Alone'
  BY <1>1, <1>2 DEF KnowledgeInv, Alone, Holds
<1> QED BY <1>1, <1>3, <1>4, ChatStays DEF KnowledgeInv, Indexed, SoundAt

\* What the holder of the lock loads at once is sound.
LEMMA LoadIsSound ==
    ASSUME KnowledgeInv, NEW s \in Searchers, Load(s, TRUE)
    PROVE  SoundAt(index', release.version)
<1>1. CASE index' = index
  BY <1>1 DEF KnowledgeInv, Indexed, SoundAt
<1>2. CASE index' = Prebuilt \o Lexical(release.version)
  BY <1>2, PrebuiltIsSound
<1>3. CASE Cached /\ index' = cache.entries
  BY <1>3 DEF Cached, KnowledgeInv, Indexed, SoundAt
<1> QED BY <1>1, <1>2, <1>3 DEF Load

LEMMA Entering ==
    ASSUME KnowledgeInv, NEW s \in Searchers, Enter(s)
    PROVE  KnowledgeInv'
<1>1. UNCHANGED <<release, cache, chat, saved>>
  BY DEF Enter, ChatQuiet
<1>2. lock \in [queue : Seq(Searchers), loop : Nat \cup {Nothing}, run : Nat]
  BY DEF KnowledgeInv, KnowledgeTyped
<1>3. CASE /\ UNCHANGED <<index, lock>>
           /\ \E at \in {"ready", "answered"} : Goes(s, at)
  <2>1. PICK at \in {"ready", "answered"} : Goes(s, at)
    BY <1>3
  <2>2. /\ search' \in [Searchers -> SearchState] /\ search'[s].at # "embedding"
        /\ \A u \in Searchers : u # s => search'[u] = search[u]
    BY <2>1, Gone DEF KnowledgeInv
  <2>3. KnowledgeTyped'
    BY <1>1, <1>3, <2>2 DEF KnowledgeInv, KnowledgeTyped
  <2>4. Alone'
    BY <1>3, <2>2 DEF KnowledgeInv, Alone, Holds
  <2> QED BY <1>1, <1>3, <2>3, <2>4, ChatStays, IndexesStay DEF KnowledgeInv, Indexed
<1>4. CASE lock.queue = <<>> /\ Load(s, TRUE) /\ UNCHANGED lock
  <2>1. /\ search' \in [Searchers -> SearchState] /\ search'[s].at # "embedding"
        /\ \A u \in Searchers : u # s => search'[u] = search[u]
    BY <1>4, Gone DEF Load, KnowledgeInv
  <2>2. KnowledgeTyped'
    BY <1>1, <1>4, <2>1 DEF KnowledgeInv, KnowledgeTyped
  <2>3. Alone'
    BY <1>4, <2>1 DEF KnowledgeInv, Alone, Holds
  <2> QED BY <1>1, <1>4, <2>2, <2>3, LoadIsSound, ChatStays, IndexesStay DEF KnowledgeInv
<1>5. CASE /\ index = <<>> /\ lock.queue = <<>> /\ lock' = [lock EXCEPT !.queue = <<s>>]
           /\ Goes(s, "embedding") /\ UNCHANGED index
  <2>1. /\ search' \in [Searchers -> SearchState]
        /\ \A u \in Searchers : u # s => search'[u] = search[u]
    BY <1>5, Gone DEF KnowledgeInv
  <2>2. /\ lock' \in [queue : Seq(Searchers), loop : Nat \cup {Nothing}, run : Nat]
        /\ lock'.queue = <<s>>
    <3>0. <<s>> \in Seq(Searchers)
      OBVIOUS
    <3>1. PICK q \in Seq(Searchers) : q = <<s>>
      BY <3>0
    <3>2. lock' = [lock EXCEPT !.queue = q]
      BY <1>5, <3>1
    <3> QED BY <1>2, <3>1, <3>2
  <2>3. KnowledgeTyped'
    BY <1>1, <2>1, <2>2 DEF KnowledgeInv, KnowledgeTyped
  <2>4. Alone'
    BY <1>5, <2>1, <2>2 DEF KnowledgeInv, Alone, Holds
  <2> QED BY <1>1, <1>5, <2>3, <2>4, ChatStays, IndexesStay DEF KnowledgeInv, Indexed
<1>6. CASE /\ index = <<>> /\ lock.queue # <<>>
           /\ lock' = [lock EXCEPT !.queue = Append(@, s), !.loop = lock.run]
           /\ Goes(s, "waiting") /\ UNCHANGED index
  <2>1. /\ search' \in [Searchers -> SearchState] /\ search'[s].at # "embedding"
        /\ \A u \in Searchers : u # s => search'[u] = search[u]
    BY <1>6, Gone DEF KnowledgeInv
  <2>2. PICK q \in Seq(Searchers) : q = Append(lock.queue, s) /\ q # <<>> /\ q[1] = lock.queue[1]
    <3>1. lock.queue \in Seq(Searchers) /\ Len(lock.queue) \in Nat \ {0}
      BY <1>2, <1>6
    <3>2. Append(lock.queue, s) \in Seq(Searchers)
      BY <3>1
    <3>3. Append(lock.queue, s)[1] = lock.queue[1] /\ Append(lock.queue, s) # <<>>
      BY <3>1
    <3> QED BY <3>2, <3>3
  <2>3. lock' = [lock EXCEPT !.queue = q, !.loop = lock.run]
    BY <1>6, <2>2
  <2>4. /\ lock' \in [queue : Seq(Searchers), loop : Nat \cup {Nothing}, run : Nat]
        /\ lock'.queue = q
    BY <1>2, <2>3
  <2>5. KnowledgeTyped'
    BY <1>1, <2>1, <2>4 DEF KnowledgeInv, KnowledgeTyped
  <2>6. Alone'
    BY <1>6, <2>1, <2>2, <2>4 DEF KnowledgeInv, Alone, Holds
  <2> QED BY <1>1, <1>6, <2>5, <2>6, ChatStays, IndexesStay DEF KnowledgeInv, Indexed
<1> QED BY <1>3, <1>4, <1>5, <1>6 DEF Enter

\* The lock goes on to whoever waits next.
LEMMA ReleasedIs ==
    ASSUME KnowledgeTyped, NEW s \in Searchers, Holds(s)
    PROVE  Released \in [queue : Seq(Searchers), loop : Nat \cup {Nothing}, run : Nat]
<1>1. /\ lock \in [queue : Seq(Searchers), loop : Nat \cup {Nothing}, run : Nat]
      /\ lock.queue # <<>>
  BY DEF KnowledgeTyped, Holds
<1>2. PICK q \in Seq(Searchers) : q = Tail(lock.queue)
  <2>1. lock.queue \in Seq(Searchers) /\ lock.queue # <<>>
    BY <1>1
  <2>2. Tail(lock.queue) \in Seq(Searchers)
    BY <2>1
  <2> QED BY <2>2
<1>3. Released = [lock EXCEPT !.queue = q]
  BY <1>2 DEF Released
<1> QED BY <1>1, <1>3

LEMMA Waking ==
    ASSUME KnowledgeInv, NEW s \in Searchers, Wake(s)
    PROVE  KnowledgeInv'
<1>1. UNCHANGED <<release, cache, chat, saved>> /\ Holds(s) /\ search[s].at = "waiting"
  BY DEF Wake, ChatQuiet
<1>2. \A u \in Searchers : search[u].at # "embedding"
  BY <1>1 DEF KnowledgeInv, Alone, Holds
<1>3. CASE Load(s, TRUE) /\ lock' = Released
  <2>1. /\ search' \in [Searchers -> SearchState] /\ search'[s].at # "embedding"
        /\ \A u \in Searchers : u # s => search'[u] = search[u]
    BY <1>3, Gone DEF Load, KnowledgeInv
  <2>2. KnowledgeTyped'
    BY <1>1, <1>3, <2>1, ReleasedIs DEF KnowledgeInv, KnowledgeTyped
  <2>3. Alone'
    BY <1>2, <2>1 DEF Alone
  <2> QED BY <1>1, <1>3, <2>2, <2>3, LoadIsSound, ChatStays, IndexesStay DEF KnowledgeInv
<1>4. CASE index = <<>> /\ Goes(s, "embedding") /\ UNCHANGED <<index, lock>>
  <2>1. /\ search' \in [Searchers -> SearchState]
        /\ \A u \in Searchers : u # s => search'[u] = search[u]
    BY <1>4, Gone DEF KnowledgeInv
  <2>2. KnowledgeTyped'
    BY <1>1, <1>4, <2>1 DEF KnowledgeInv, KnowledgeTyped
  <2>3. Alone'
    BY <1>1, <1>2, <1>4, <2>1 DEF Alone, Holds
  <2> QED BY <1>1, <1>4, <2>2, <2>3, ChatStays, IndexesStay DEF KnowledgeInv, Indexed
<1> QED BY <1>3, <1>4 DEF Wake, MustEmbed

\* The embedder comes back: it is the only one, and its batch is the first.
LEMMA Embedding ==
    ASSUME KnowledgeInv, NEW s \in Searchers, Embeds(s)
    PROVE  KnowledgeInv'
<1>1. /\ UNCHANGED <<release, chat, saved>> /\ search[s].at = "embedding"
      /\ lock' = Released
  BY DEF Embeds, ChatQuiet
<1>2. Holds(s) /\ index = <<>>
  BY <1>1 DEF KnowledgeInv, Alone
<1>3. \A u \in Searchers : u # s => search[u].at # "embedding"
  BY <1>2 DEF KnowledgeInv, Alone, Holds
<1>4. PICK docs \in Batches, written \in BOOLEAN :
          /\ index' = index \o Embedded(release.version, docs)
          /\ Kept(docs, written)
          /\ Goes(s, IF docs = <<>> \/ (~written /\ s = Context) THEN "answered" ELSE "ready")
  BY DEF Embeds
<1>5. PICK at \in {"answered", "ready"} : Goes(s, at)
  BY <1>4
<1>6. /\ search' \in [Searchers -> SearchState] /\ search'[s].at # "embedding"
      /\ \A u \in Searchers : u # s => search'[u] = search[u]
  BY <1>5, Gone DEF KnowledgeInv
<1>7. index' = Embedded(release.version, docs)
  BY <1>2, <1>4, FirstBatch
<1>8. SoundAt(index', release.version)
  BY <1>7, EmbeddedIsSound
<1>9. SoundAt(cache'.entries, cache'.fingerprint)
  <2>1. CASE cache' = cache
    BY <2>1 DEF KnowledgeInv, Indexed, SoundAt
  <2>2. CASE cache' = [fingerprint |-> release.version, entries |-> index']
    BY <2>2, <1>8
  <2> QED BY <1>4, <2>1, <2>2 DEF Kept
<1>10. KnowledgeTyped'
  BY <1>1, <1>2, <1>6, ReleasedIs DEF KnowledgeInv, KnowledgeTyped
<1>11. Alone'
  BY <1>3, <1>6 DEF Alone
<1>12. Indexed'
  BY <1>1, <1>8, <1>9 DEF KnowledgeInv, Indexed, SoundAt
<1> QED BY <1>1, <1>10, <1>11, <1>12, ChatStays DEF KnowledgeInv

LEMMA NewRun ==
    ASSUME KnowledgeInv, NextRun
    PROVE  KnowledgeInv'
<1>1. /\ UNCHANGED <<release, index, search, cache, chat, saved>>
      /\ lock' = [lock EXCEPT !.run = @ + 1]
  BY DEF NextRun, ChatQuiet
<1>2. PICK n \in Nat : n = lock.run + 1
  BY DEF KnowledgeInv, KnowledgeTyped
<1>3. /\ lock' \in [queue : Seq(Searchers), loop : Nat \cup {Nothing}, run : Nat]
      /\ lock'.queue = lock.queue
  <2>1. lock' = [lock EXCEPT !.run = n]
    BY <1>1, <1>2
  <2> QED BY <2>1 DEF KnowledgeInv, KnowledgeTyped
<1>4. KnowledgeTyped' /\ Alone'
  BY <1>1, <1>3 DEF KnowledgeInv, KnowledgeTyped, Alone, Holds
<1> QED BY <1>1, <1>4, ChatStays DEF KnowledgeInv, Indexed, SoundAt

-------------------------------------------------------------------------------
\* The chat's embeddings, paired by position when hash and number are right.
LEMMA PairedIsSound ==
    ASSUME KnowledgeInv, Usable
    PROVE  SoundAt(Paired, release.version)
<1>1. PICK v \in Nat, docs \in Batches :
          saved.embeddings = Embedded(v, docs) /\ v = release.version
  BY DEF KnowledgeInv, HashTells, Usable
<1>2. docs \in Seq(Docs) /\ DOMAIN Embedded(v, docs) = DOMAIN docs
  BY BatchIs DEF Embedded
<1>3. NumDocs \in Nat /\ Len(docs) \in Nat /\ DOMAIN docs = 1 .. Len(docs)
  BY <1>2, KnowledgeAssumption
<1>4. Len(docs) = NumDocs
  <2>1. Embedded(v, docs) \in Seq({Entry(d, v, <<d, v>>) : d \in Docs})
    BY <1>2 DEF Embedded
  <2>2. Len(Embedded(v, docs)) = Len(docs)
    BY <1>2, <1>3, <2>1
  <2> QED BY <1>1, <2>2 DEF Usable
<1>5. \A i \in DOMAIN docs : docs[i] = i /\ i \in Docs
  BY <1>3, <1>4, FullBatchIsInPlace DEF Docs
<1>6. /\ DOMAIN Paired = DOMAIN docs
      /\ \A i \in DOMAIN docs : Paired[i] = Entry(i, v, <<i, v>>)
  <2>1. DOMAIN saved.embeddings = DOMAIN docs /\ release.version = v
    BY <1>1, <1>2
  <2>2. ASSUME NEW i \in DOMAIN docs PROVE saved.embeddings[i].of = <<i, v>>
    <3>1. saved.embeddings[i] = [doc |-> docs[i], text |-> v, of |-> <<docs[i], v>>]
      BY <1>1, <2>2 DEF Embedded, Entry
    <3>2. docs[i] = i
      BY <1>5, <2>2
    <3> QED BY <3>1, <3>2
  <2> QED BY <2>1, <2>2 DEF Paired
<1> QED BY <1>1, <1>5, <1>6 DEF SoundAt, Entry, Known

\* The embeddings and the hash that are saved together are of one release.
LEMMA SavedTogether ==
    ASSUME KnowledgeTyped, NEW docs \in Batches, UNCHANGED release,
           saved' = [embeddings |-> Embedded(release.version, docs), hash |-> release.version]
    PROVE  HashTells'
<1>1. release.version \in Nat /\ release.version \in 1 .. release.version
  BY DEF KnowledgeTyped
<1> QED BY <1>1 DEF HashTells, Embedded, Batches

LEMMA Chatting ==
    ASSUME KnowledgeInv, ChatStep
    PROVE  KnowledgeInv'
<1>1. UNCHANGED <<release, index, lock, search, cache>>
  BY DEF ChatStep, ChatAsk, ChatChecked, ChatEmbeds
<1>2. Alone'
  BY <1>1 DEF KnowledgeInv, Alone, Holds
<1>3. SoundAt(index, release.version)' /\ SoundAt(cache.entries, cache.fingerprint)'
  BY <1>1 DEF KnowledgeInv, Indexed, SoundAt
<1>4. CASE ChatAsk \/ ChatChecked
  <2>1. saved' = saved
    BY <1>4 DEF ChatAsk, ChatChecked
  <2>2. {"at", "index"} \subseteq DOMAIN chat' /\ SoundAt(chat'.index, release.version)
    <3>1. CASE \E at : chat' = [chat EXCEPT !.at = at]
      <4>1. PICK at : chat' = [chat EXCEPT !.at = at]
        BY <3>1
      <4>2. chat'.index = chat.index /\ DOMAIN chat' = DOMAIN chat
        BY <4>1 DEF KnowledgeInv, KnowledgeTyped
      <4> QED BY <4>2 DEF KnowledgeInv, KnowledgeTyped, Indexed
    <3>2. CASE Usable /\ chat' = [at |-> "on", index |-> Paired]
      BY <3>2, PairedIsSound
    <3> QED BY <1>4, <3>1, <3>2 DEF ChatAsk, ChatChecked
  <2>3. KnowledgeTyped'
    BY <1>1, <2>1, <2>2 DEF KnowledgeInv, KnowledgeTyped
  <2>4. Indexed'
    BY <1>1, <1>3, <2>2 DEF Indexed
  <2> QED BY <1>1, <1>2, <2>1, <2>3, <2>4, ChatStays DEF KnowledgeInv
<1>5. CASE ChatEmbeds
  <2>1. PICK docs \in Batches :
            /\ chat' = [at |-> "on", index |-> Embedded(release.version, docs)]
            /\ saved' = IF docs = <<>> THEN saved
                        ELSE [embeddings |-> Embedded(release.version, docs),
                              hash |-> release.version]
    BY <1>5 DEF ChatEmbeds
  <2>2. KnowledgeTyped'
    BY <1>1, <2>1 DEF KnowledgeInv, KnowledgeTyped
  <2>3. HashTells'
    BY <1>1, <2>1, SavedTogether, ChatStays DEF KnowledgeInv
  <2>4. Indexed'
    BY <1>1, <1>3, <2>1, EmbeddedIsSound DEF Indexed
  <2> QED BY <1>2, <2>2, <2>3, <2>4 DEF KnowledgeInv
<1> QED BY <1>4, <1>5 DEF ChatStep

\* A restart leaves no index and no embedder. What lies on disk is what it was, or,
\* in the middle of the chat's two writes, embeddings without the hash that is theirs.
LEMMA Restarting ==
    ASSUME KnowledgeInv, KnowledgeRestart
    PROVE  KnowledgeInv'
<1>1. /\ index' = <<>> /\ lock' = NoLock /\ chat' = ChatOff
      /\ search' = [s \in Searchers |-> Silent] /\ cache' = cache
  BY DEF KnowledgeRestart
<1>2. release' \in [version : {release.version, release.version + 1} \cap (1 .. MaxVersion),
                    prebuilt : {release.prebuilt, TRUE}]
  BY DEF KnowledgeRestart
<1>3. /\ release.version \in Nat /\ release'.version \in Nat \ {0}
      /\ release'.version \in {release.version, release.version + 1}
  BY <1>2, KnowledgeAssumption DEF KnowledgeInv, KnowledgeTyped
<1>4. release' \in [version : Nat \ {0}, prebuilt : BOOLEAN]
  <2>1. release.prebuilt \in BOOLEAN
    BY DEF KnowledgeInv, KnowledgeTyped
  <2> QED BY <1>2, <1>3, <2>1
<1>5. /\ saved'.hash = saved.hash /\ {"embeddings", "hash"} \subseteq DOMAIN saved'
      /\ \/ saved'.embeddings = saved.embeddings
         \/ saved'.embeddings = Nothing
         \/ \E docs \in Batches : saved'.embeddings = Embedded(release.version, docs)
  <2>1. CASE UNCHANGED saved
    BY <2>1 DEF KnowledgeInv, KnowledgeTyped
  <2>2. ASSUME NEW e, saved' = [saved EXCEPT !.embeddings = e]
        PROVE  /\ saved'.hash = saved.hash /\ {"embeddings", "hash"} \subseteq DOMAIN saved'
               /\ saved'.embeddings = e
    BY <2>2 DEF KnowledgeInv, KnowledgeTyped
  <2> QED BY <2>1, <2>2 DEF KnowledgeRestart
<1>6. HashTells'
  <2>1. saved'.hash \in {Nothing} \cup 1 .. release'.version
    BY <1>3, <1>5 DEF KnowledgeInv, HashTells
  <2>2. saved'.hash = release'.version =>
            saved.hash = release.version /\ release'.version = release.version
    BY <1>3, <1>5, KnowledgeAssumption DEF KnowledgeInv, HashTells
  <2>3. CASE saved'.embeddings = saved.embeddings
    BY <1>5, <2>1, <2>2, <2>3 DEF KnowledgeInv, HashTells, Embedded, Batches
  <2>4. CASE \E docs \in Batches : saved'.embeddings = Embedded(release.version, docs)
    BY <1>3, <2>1, <2>2, <2>4 DEF HashTells, Embedded, Batches
  <2> QED BY <1>5, <2>1, <2>3, <2>4 DEF HashTells
<1>7. KnowledgeTyped'
  BY <1>1, <1>4, <1>5 DEF KnowledgeTyped, NoLock, ChatOff, Silent, SearchState
<1>8. Alone'
  BY <1>1 DEF Alone, Silent
<1>9. Indexed'
  BY <1>1, NothingIsSound DEF KnowledgeInv, Indexed, SoundAt, ChatOff
<1> QED BY <1>6, <1>7, <1>8, <1>9 DEF KnowledgeInv

LEMMA KnowledgeStep == KnowledgeInv /\ [BaseNext]_allVars => KnowledgeInv'
<1> SUFFICES ASSUME KnowledgeInv, [BaseNext]_allVars PROVE KnowledgeInv'
  OBVIOUS
<1>1. CASE UNCHANGED knowledgeVars
  <2>1. UNCHANGED <<release, index, lock, search, cache, chat, saved>>
    BY <1>1 DEF knowledgeVars
  <2>2. KnowledgeTyped' /\ Alone' /\ Indexed'
    BY <2>1 DEF KnowledgeInv, KnowledgeTyped, Alone, Holds, Indexed, SoundAt
  <2> QED BY <2>1, <2>2, ChatStays DEF KnowledgeInv
<1>2. CASE ContextPhase
  <2>1. Context \in Searchers
    BY DEF Searchers
  <2>2. UNCHANGED knowledgeVars \/ Ask(Context) \/ Close(Context)
    BY <1>2 DEF ContextPhase, ExtractRequirements, AskKnowledge, Retrieved, ScoreRetrieved,
                SearchWeb, Decide, SaveEvidence, Prepares
  <2> QED BY <1>1, <2>1, <2>2, Questions
<1>3. CASE PlanningPhase
  BY <1>1, <1>3 DEF PlanningPhase, ParseTask, ValidateTask, SaveTask, Prepares
<1>4. ASSUME NEW s \in Tools, ToolAsk(s) \/ ToolClose(s) PROVE KnowledgeInv'
  BY <1>4, Questions DEF ToolAsk, ToolClose, Searchers
<1>5. ASSUME NEW s \in Searchers, Step(s) PROVE KnowledgeInv'
  BY <1>5, Questions, Entering, Waking, Embedding DEF Step, SearchStep
<1>6. CASE Chat \/ Run \/ Restart
  BY <1>6, Chatting, NewRun, Restarting DEF Chat, Run, Restart
<1>7. CASE Build \/ UNCHANGED allVars
  BY <1>1, <1>7 DEF Build, allVars, preparationVars
<1> QED BY <1>2, <1>3, <1>4, <1>5, <1>6, <1>7 DEF BaseNext, Use, PreparationNext

\* However many tasks find the index missing at once, in whatever order they get the
\* lock, whatever part of a batch can be embedded, and wherever a crash falls between
\* the writes: what a search can find is every document at most once, each with an
\* embedding of its own text of this release, or with none.
THEOREM IndexStaysSound == BaseSpec => []IndexIsSound
<1>1. KnowledgeInv => IndexIsSound
  <2> SUFFICES ASSUME KnowledgeInv PROVE IndexIsSound
    OBVIOUS
  <2>1. SoundAt(index, release.version) /\ SoundAt(chat.index, release.version)
    BY DEF KnowledgeInv, Indexed
  <2> QED BY <2>1 DEF SoundAt, IndexIsSound, EntriesAreOwn, Own, NoDocumentTwice
<1> QED BY <1>1, KnowledgeInitOK, KnowledgeStep, PTL DEF BaseSpec

-------------------------------------------------------------------------------
(* The knowledge base as it is built.                                              *)

BuildShape ==
    /\ {"at", "mode", "scanned", "left", "todo", "existing"} \subseteq DOMAIN build
    /\ build.mode \in [rebuild : BOOLEAN, skip : BOOLEAN, prune : BOOLEAN]
    /\ build.mode.rebuild => ~build.mode.prune
    /\ sources \in [Files -> Nat] /\ known \in [Files -> Nat]
    /\ build.scanned \in [Files -> Nat] /\ build.left \subseteq Kinds
    /\ jsonl \in [Kinds -> [docs : SUBSET (Files \X Nat), torn : BOOLEAN]]

\* What was noted of a source, or is about to be, is no later than the source, and what an
\* incremental run is about to note leaves no source out: an edit never makes the sources
\* what was noted.
NeverAhead ==
    \A f \in Files : sources[f] # 0 =>
        /\ known[f] <= sources[f]
        /\ build.at = "preprocessing" =>
              /\ build.scanned[f] <= sources[f]
              /\ ~build.mode.rebuild => build.scanned[f] # 0

\* Nothing went wrong since the sources were read: what is noted leaves none of them out
\* and, as long as it is what there is, the JSONL files have every document of it; so they
\* have while a rebuild has yet to note it.
AllRead ==
    /\ build.at = "scanning" => DocumentsOf(sources) \subseteq Documents
    /\ build.at # "scanning" =>
          /\ \A f \in Files : sources[f] # 0 => known[f] # 0
          /\ known = sources => DocumentsOf(sources) \subseteq Documents
    /\ \A k \in Kinds : ~jsonl[k].torn

\* And every document has a row, or is one of those the run has yet to come to.
AllIndexed ==
    /\ build.at \in {"idle", "unchanged"} => Documents \subseteq KeysInDb
    /\ build.at \in {"files", "chunks"} =>
          \A k \in Kinds \ build.left : \A d \in jsonl[k].docs :
              \/ d \in KeysInDb
              \/ build.at = "chunks" /\ \E c \in build.todo : KeyOf(c) = d

\* What a run goes by: sources found unchanged are those noted; chunks passed over have
\* a row, and chunks yet to come are of a document; a rebuild begins with no rows; and one
\* that rebuilds or prunes has, from then on, only rows of documents.
RunsTrue ==
    /\ build.at = "unchanged" => build.scanned = sources /\ known = sources
    /\ build.at = "chunks" =>
          /\ build.existing \subseteq KeysInDb
          /\ \A c \in build.todo : KeyOf(c) \in Documents
    /\ build.mode.rebuild /\ build.at \in {"preprocessing", "scanning", "open"} => db = {}
    /\ (build.mode.rebuild \/ build.mode.prune) /\ build.at \in {"files", "chunks"} =>
          KeysInDb \subseteq Documents

BuildInv ==
    /\ BuildShape /\ NeverAhead /\ RunsTrue
    /\ ~lapse => AllRead /\ AllIndexed

LEMMA BuildInitOK == BaseInit => BuildInv
<1> SUFFICES ASSUME BaseInit PROVE BuildInv
  OBVIOUS
<1>1. /\ sources = [f \in Files |-> 1] /\ known = NoSources /\ db = {} /\ build = NoBuild
      /\ lapse = TRUE /\ jsonl = [k \in Kinds |-> [docs |-> {}, torn |-> FALSE]]
  BY DEF BaseInit, Unbuilt
<1> QED BY <1>1 DEF BuildInv, BuildShape, NeverAhead, RunsTrue, NoBuild, NoSources

\* A source moves on, or is gone for good.
LEMMA Editing ==
    ASSUME BuildInv, Edit
    PROVE  BuildInv'
<1>1. PICK f \in Files, v \in Nat :
          /\ sources[f] # 0 /\ v \in {0, sources[f] + 1}
          /\ sources' = [sources EXCEPT ![f] = v]
  <2>1. PICK f \in Files : \E v \in 0 .. MaxEdit[f] :
            /\ sources[f] # 0 /\ v \in {0, sources[f] + 1}
            /\ sources' = [sources EXCEPT ![f] = v]
    BY DEF Edit
  <2>2. PICK v \in 0 .. MaxEdit[f] :
            /\ sources[f] # 0 /\ v \in {0, sources[f] + 1}
            /\ sources' = [sources EXCEPT ![f] = v]
    BY <2>1
  <2>3. sources[f] \in Nat
    BY DEF BuildInv, BuildShape
  <2>4. v \in Nat
    BY <2>2, <2>3
  <2> QED BY <2>2, <2>4
<1>2. /\ build.at \in {"idle", "preprocessing", "scanning"}
      /\ UNCHANGED <<known, jsonl, db, build>>
      /\ lapse' = (lapse \/ build.at = "scanning")
  BY DEF Edit
<1>3. /\ sources \in [Files -> Nat] /\ known \in [Files -> Nat]
      /\ sources' \in [Files -> Nat]
  BY <1>1 DEF BuildInv, BuildShape
<1>4. BuildShape'
  BY <1>2, <1>3 DEF BuildInv, BuildShape
<1>5. NeverAhead'
  <2> SUFFICES ASSUME NEW g \in Files, sources'[g] # 0
               PROVE  /\ known[g] <= sources'[g]
                      /\ build.at = "preprocessing" =>
                            /\ build.scanned[g] <= sources'[g]
                            /\ ~build.mode.rebuild => build.scanned[g] # 0
    BY <1>2 DEF NeverAhead
  <2>1. sources[g] # 0 /\ sources[g] <= sources'[g]
    BY <1>1, <1>3
  <2>2. /\ known[g] \in Nat /\ sources[g] \in Nat /\ sources'[g] \in Nat
        /\ build.scanned[g] \in Nat
    BY <1>3 DEF BuildInv, BuildShape
  <2> QED BY <2>1, <2>2 DEF BuildInv, NeverAhead
<1>6. RunsTrue'
  BY <1>2 DEF BuildInv, RunsTrue, KeysInDb, Documents
<1>7. ASSUME ~lapse' PROVE (AllRead /\ AllIndexed)'
  <2>1. ~lapse /\ build.at # "scanning"
    BY <1>2, <1>7
  <2>2. known # sources'
    <3>1. /\ known[f] # 0 /\ known[f] <= sources[f]
          /\ known[f] \in Nat /\ sources[f] \in Nat
      BY <1>1, <1>3, <2>1 DEF BuildInv, NeverAhead, AllRead
    <3>2. sources'[f] = v
      BY <1>1, <1>3
    <3> QED BY <1>1, <3>1, <3>2
  <2>3. \A g \in Files : sources'[g] # 0 => known[g] # 0
    BY <1>1, <1>3, <2>1 DEF BuildInv, AllRead
  <2> QED BY <1>2, <2>1, <2>2, <2>3 DEF BuildInv, AllRead, AllIndexed, Documents, KeysInDb
<1> QED BY <1>4, <1>5, <1>6, <1>7 DEF BuildInv

LEMMA Beginning ==
    ASSUME BuildInv, Begin
    PROVE  BuildInv'
<1>1. PICK mode \in Modes :
          LET unchanged == ~mode.rebuild /\ ~mode.skip /\ known = sources IN
          /\ build' = [NoBuild EXCEPT
                !.mode = [mode EXCEPT !.skip = FALSE],
                !.scanned = IF mode.rebuild THEN NoSources ELSE sources,
                !.at = IF mode.skip \/ (unchanged /\ mode.prune) THEN "open"
                       ELSE IF unchanged THEN "unchanged" ELSE "preprocessing"]
          /\ db' = IF mode.rebuild THEN {} ELSE db
          /\ lapse' = (lapse \/ mode.rebuild)
  BY DEF Begin
<1>2. UNCHANGED <<sources, known, jsonl>> /\ build.at = "idle"
  BY DEF Begin
<1>3. mode \in [rebuild : BOOLEAN, skip : BOOLEAN, prune : BOOLEAN] /\ (mode.rebuild => ~mode.prune)
  BY DEF Modes
<1>4. /\ DOMAIN build' = {"at", "mode", "scanned", "left", "todo", "existing"}
      /\ build'.mode \in [rebuild : BOOLEAN, skip : BOOLEAN, prune : BOOLEAN]
      /\ build'.mode.rebuild = mode.rebuild /\ build'.mode.prune = mode.prune
      /\ build'.scanned = IF mode.rebuild THEN NoSources ELSE sources
      /\ build'.at \in {"open", "unchanged", "preprocessing"} /\ build'.left = {}
      /\ build'.at = "unchanged" => ~mode.rebuild /\ known = sources
  BY <1>1, <1>3 DEF NoBuild
<1>5. BuildShape'
  BY <1>2, <1>3, <1>4 DEF BuildInv, BuildShape, NoSources
<1>6. \A f \in Files : sources[f] \in Nat /\ known[f] \in Nat /\ NoSources[f] = 0
  BY DEF BuildInv, BuildShape, NoSources
<1>7. NeverAhead'
  BY <1>2, <1>4, <1>6 DEF BuildInv, NeverAhead
<1>8. RunsTrue'
  BY <1>1, <1>2, <1>4 DEF RunsTrue
<1>9. ASSUME ~lapse' PROVE (AllRead /\ AllIndexed)'
  <2>1. ~lapse /\ ~mode.rebuild /\ db' = db
    BY <1>1, <1>9
  <2> QED BY <1>2, <1>4, <2>1 DEF BuildInv, AllRead, AllIndexed, Documents, KeysInDb
<1> QED BY <1>5, <1>7, <1>8, <1>9 DEF BuildInv

\* The JSONL files, as preprocess.py leaves them when it gets through.
LEMMA CompleteIs ==
    ASSUME jsonl' = Complete
    PROVE  /\ DocumentsOf(sources) \subseteq Documents'
           /\ \A k \in Kinds : jsonl'[k].torn = FALSE
<1>1. \A k \in Kinds : jsonl'[k].docs = Current(k) /\ jsonl'[k].torn = FALSE
  BY DEF Complete
<1>2. ASSUME NEW d \in DocumentsOf(sources) PROVE \E k \in Kinds : d \in Current(k)
  <2>1. PICK f \in Files : d = <<f, sources[f]>>
    BY DEF DocumentsOf
  <2>2. d[1] \in Files
    BY <2>1
  <2> QED BY <2>2 DEF Files, Kinds, Current, Of
<1> QED BY <1>1, <1>2 DEF Documents

\* However preprocess.py ends, the JSONL files hold documents of source files.
LEMMA FilesOfDocuments ==
    ASSUME BuildShape, NEW torn \in BOOLEAN, jsonl' = Complete \/ jsonl' \in Partial(torn)
    PROVE  jsonl' \in [Kinds -> [docs : SUBSET (Files \X Nat), torn : BOOLEAN]]
<1>1. \A k \in Kinds : Current(k) \subseteq Files \X Nat
  <2>1. ASSUME NEW d \in DocumentsOf(sources) PROVE d \in Files \X Nat
    <3>1. PICK f \in Files : d = <<f, sources[f]>>
      BY DEF DocumentsOf
    <3> QED BY <3>1 DEF BuildShape
  <2> QED BY <2>1 DEF Current
<1>2. Complete \in [Kinds -> [docs : SUBSET (Files \X Nat), torn : BOOLEAN]]
  BY <1>1 DEF Complete
<1>3. "manuals" \in Kinds /\ "examples" \in Kinds
  BY DEF Kinds
<1>4. ASSUME NEW D \in SUBSET Current("manuals"), jsonl' = Written("manuals", D, torn)
      PROVE  jsonl' \in [Kinds -> [docs : SUBSET (Files \X Nat), torn : BOOLEAN]]
  <2>1. [docs |-> D, torn |-> torn] \in [docs : SUBSET (Files \X Nat), torn : BOOLEAN]
    BY <1>1, <1>3
  <2> QED BY <1>3, <1>4, <2>1 DEF Written, BuildShape
<1>5. ASSUME NEW D \in SUBSET Current("examples"),
             jsonl' = [Complete EXCEPT !["examples"] = [docs |-> D, torn |-> torn]]
      PROVE  jsonl' \in [Kinds -> [docs : SUBSET (Files \X Nat), torn : BOOLEAN]]
  <2>1. [docs |-> D, torn |-> torn] \in [docs : SUBSET (Files \X Nat), torn : BOOLEAN]
    BY <1>1, <1>3
  <2> QED BY <1>2, <1>3, <1>5, <2>1
<1> QED BY <1>2, <1>4, <1>5 DEF Partial

LEMMA Preprocessing ==
    ASSUME BuildInv, Preprocess
    PROVE  BuildInv'
<1>1. /\ build.at = "preprocessing" /\ UNCHANGED <<sources, db>>
      /\ build' = [build EXCEPT !.at = IF build.mode.rebuild THEN "scanning" ELSE "open",
                                !.scanned = NoSources]
  BY DEF Preprocess
<1>2. /\ BuildShape /\ NeverAhead /\ RunsTrue
      /\ \A f \in Files : sources[f] \in Nat /\ known[f] \in Nat
  BY DEF BuildInv, BuildShape
<1>3. /\ DOMAIN build' = DOMAIN build /\ build'.mode = build.mode
      /\ build'.at = IF build.mode.rebuild THEN "scanning" ELSE "open"
      /\ build'.left = build.left
  BY <1>1, <1>2 DEF BuildShape
<1>4. build'.scanned \in [Files -> Nat]
  BY <1>1, <1>2 DEF BuildShape, NoSources
<1>5. jsonl' \in [Kinds -> [docs : SUBSET (Files \X Nat), torn : BOOLEAN]]
  BY <1>2, FilesOfDocuments DEF Preprocess
<1>6. RunsTrue'
  BY <1>1, <1>2, <1>3 DEF RunsTrue
<1>7. CASE /\ jsonl' = Complete /\ lapse' = FALSE
           /\ known' = IF build.mode.rebuild THEN known ELSE build.scanned
  <2>1. /\ known' \in [Files -> Nat] /\ \A f \in Files : sources[f] # 0 => known'[f] <= sources[f]
        /\ ~build.mode.rebuild => \A f \in Files : sources[f] # 0 => known'[f] # 0
    <3>1. CASE build.mode.rebuild
      BY <1>2, <1>7, <3>1 DEF BuildShape, NeverAhead
    <3>2. CASE ~build.mode.rebuild
      BY <1>1, <1>2, <1>7, <3>2 DEF BuildShape, NeverAhead
    <3> QED BY <3>1, <3>2
  <2>2. BuildShape' /\ NeverAhead'
    BY <1>1, <1>2, <1>3, <1>4, <1>5, <2>1 DEF BuildShape, NeverAhead
  <2>3. AllRead'
    BY <1>1, <1>3, <1>7, <2>1, CompleteIs DEF AllRead
  <2>4. AllIndexed'
    BY <1>3 DEF AllIndexed
  <2> QED BY <1>6, <2>2, <2>3, <2>4 DEF BuildInv
<1>8. CASE lapse' = TRUE /\ UNCHANGED known
  <2>1. BuildShape' /\ NeverAhead'
    BY <1>1, <1>2, <1>3, <1>4, <1>8, <1>5 DEF BuildShape, NeverAhead
  <2> QED BY <1>6, <1>8, <2>1 DEF BuildInv
<1> QED BY <1>7, <1>8 DEF Preprocess

LEMMA Scanning ==
    ASSUME BuildInv, ScanAfterwards
    PROVE  BuildInv'
<1>1. /\ build.at = "scanning" /\ known' = sources
      /\ build' = [build EXCEPT !.at = "open"]
      /\ UNCHANGED <<sources, jsonl, db, lapse>>
  BY DEF ScanAfterwards, BuildAt
<1>2. BuildShape /\ RunsTrue /\ \A f \in Files : sources[f] \in Nat
  BY DEF BuildInv, BuildShape
<1>3. /\ DOMAIN build' = DOMAIN build /\ build'.mode = build.mode /\ build'.at = "open"
      /\ build'.scanned = build.scanned /\ build'.left = build.left
  BY <1>1, <1>2 DEF BuildShape
<1>4. BuildShape'
  BY <1>1, <1>2, <1>3 DEF BuildShape
<1>5. NeverAhead' /\ RunsTrue'
  BY <1>1, <1>2, <1>3 DEF NeverAhead, RunsTrue
<1>6. ~lapse' => AllRead' /\ AllIndexed'
  BY <1>1, <1>3 DEF BuildInv, AllRead, AllIndexed, Documents
<1> QED BY <1>4, <1>5, <1>6 DEF BuildInv

\* A run that ends leaves the sources and the documents as they are. When nothing has
\* gone wrong since the sources were read, every document must have a row by then.
LEMMA Ending ==
    ASSUME BuildInv, build' = NoBuild, UNCHANGED <<sources, known, db>>,
           jsonl' \in [Kinds -> [docs : SUBSET (Files \X Nat), torn : BOOLEAN]],
           ~lapse' => ~lapse /\ jsonl' = jsonl /\ build.at # "scanning"
                      /\ Documents \subseteq KeysInDb
    PROVE  BuildInv'
<1>1. /\ DOMAIN build' = {"at", "mode", "scanned", "left", "todo", "existing"}
      /\ build'.mode \in [rebuild : BOOLEAN, skip : BOOLEAN, prune : BOOLEAN]
      /\ build'.scanned \in [Files -> Nat] /\ build'.at = "idle"
      /\ build'.left = {} /\ build'.mode.rebuild = FALSE /\ build'.mode.prune = FALSE
  BY DEF NoBuild, NoSources
<1>2. BuildShape' /\ NeverAhead' /\ RunsTrue'
  BY <1>1 DEF BuildInv, BuildShape, NeverAhead, RunsTrue
<1>3. ~lapse' => AllRead' /\ AllIndexed'
  BY <1>1 DEF BuildInv, AllRead, AllIndexed, Documents, KeysInDb
<1> QED BY <1>2, <1>3 DEF BuildInv

LEMMA Opening ==
    ASSUME BuildInv, Open
    PROVE  BuildInv'
<1>1. build.at = "open" /\ UNCHANGED <<sources, known, jsonl, lapse>>
  BY DEF Open
<1>2. CASE build.mode.prune /\ \E k \in Kinds : jsonl[k].torn
  <2>1. build' = NoBuild /\ UNCHANGED db
    BY <1>2 DEF Open
  <2>2. lapse
    BY <1>2 DEF BuildInv, AllRead
  <2> QED BY <1>1, <2>1, <2>2, Ending DEF BuildInv, BuildShape
<1>3. CASE ~(build.mode.prune /\ \E k \in Kinds : jsonl[k].torn)
  <2>1. /\ build' = [build EXCEPT !.at = "files", !.left = Kinds]
        /\ db' = IF build.mode.prune THEN Pruned ELSE db
    BY <1>3 DEF Open
  <2>2. BuildShape /\ NeverAhead /\ RunsTrue
    BY DEF BuildInv
  <2>3. /\ DOMAIN build' = DOMAIN build /\ build'.mode = build.mode /\ build'.at = "files"
        /\ build'.scanned = build.scanned /\ build'.left = Kinds
    BY <2>1, <2>2 DEF BuildShape
  <2>4. BuildShape' /\ NeverAhead'
    BY <1>1, <2>2, <2>3 DEF BuildShape, NeverAhead
  <2>5. build.mode.prune => KeysInDb' \subseteq Documents
    BY <2>1 DEF KeysInDb, Pruned
  <2>6. build.mode.rebuild => KeysInDb' \subseteq Documents
    BY <1>1, <2>1, <2>2 DEF BuildShape, RunsTrue, KeysInDb
  <2>7. Documents' = Documents
    BY <1>1 DEF Documents
  <2>8. RunsTrue'
    BY <2>3, <2>5, <2>6, <2>7 DEF RunsTrue
  <2>9. ~lapse' => AllRead' /\ AllIndexed'
    BY <1>1, <2>3, <2>7 DEF BuildInv, AllRead, AllIndexed
  <2> QED BY <2>4, <2>8, <2>9 DEF BuildInv
<1> QED BY <1>2, <1>3

\* Every document of a JSONL file has a chunk, and every chunk is of one.
LEMMA ChunksAreOfDocuments ==
    ASSUME BuildShape, NEW k \in Kinds
    PROVE  /\ \A c \in ChunksOf(k) : KeyOf(c) \in jsonl[k].docs
           /\ \A d \in jsonl[k].docs : \E c \in ChunksOf(k) : KeyOf(c) = d
<1>1. \A d \in jsonl[k].docs : d = <<d[1], d[2]>> /\ d[1] \in Files
  BY DEF BuildShape
<1>2. ASSUME NEW c \in ChunksOf(k) PROVE KeyOf(c) \in jsonl[k].docs
  BY <1>1 DEF ChunksOf, KeyOf
<1>3. ASSUME NEW d \in jsonl[k].docs PROVE \E c \in ChunksOf(k) : KeyOf(c) = d
  <2>1. 1 \in 1 .. Chunks[d[1]]
    BY <1>1, IndexBuildAssumption DEF Files
  <2>2. <<d[1], d[2], 1>> \in ChunksOf(k)
    BY <2>1 DEF ChunksOf
  <2>3. KeyOf(<<d[1], d[2], 1>>) = d
    BY <1>1 DEF KeyOf
  <2> QED BY <2>2, <2>3
<1> QED BY <1>2, <1>3

LEMMA NextFileIs ==
    ASSUME BuildInv, NextFile
    PROVE  BuildInv'
<1>1. /\ build.at = "files" /\ UNCHANGED <<sources, known, jsonl, db, lapse>>
      /\ Documents' = Documents /\ KeysInDb' = KeysInDb
  BY DEF NextFile, Documents, KeysInDb
<1>2. PICK kind \in build.left :
          build' = IF jsonl[kind].torn THEN NoBuild
                   ELSE IF jsonl[kind].docs = {} THEN [build EXCEPT !.left = @ \ {kind}]
                   ELSE [build EXCEPT !.left = @ \ {kind}, !.at = "chunks",
                                      !.todo = ChunksOf(kind),
                                      !.existing = IF build.mode.rebuild THEN {} ELSE KeysInDb]
  BY DEF NextFile
<1>3. BuildShape /\ NeverAhead /\ RunsTrue /\ kind \in Kinds
  BY <1>2 DEF BuildInv, BuildShape
<1>4. CASE jsonl[kind].torn
  <2>1. lapse
    BY <1>3, <1>4 DEF BuildInv, AllRead
  <2> QED BY <1>1, <1>2, <1>3, <1>4, <2>1, Ending DEF BuildShape
<1>5. CASE ~jsonl[kind].torn /\ jsonl[kind].docs = {}
  <2>1. build' = [build EXCEPT !.left = build.left \ {kind}]
    BY <1>2, <1>5
  <2>2. /\ DOMAIN build' = DOMAIN build /\ build'.mode = build.mode /\ build'.at = "files"
        /\ build'.scanned = build.scanned /\ build'.left = build.left \ {kind}
    BY <1>1, <1>3, <2>1 DEF BuildShape
  <2>3. BuildShape' /\ NeverAhead' /\ RunsTrue'
    BY <1>1, <1>3, <2>2 DEF BuildShape, NeverAhead, RunsTrue
  <2>4. ~lapse' => AllRead' /\ AllIndexed'
    BY <1>1, <1>5, <2>2 DEF BuildInv, AllRead, AllIndexed
  <2> QED BY <2>3, <2>4 DEF BuildInv
<1>6. CASE ~jsonl[kind].torn /\ jsonl[kind].docs # {}
  <2> DEFINE passed == IF build.mode.rebuild THEN {} ELSE KeysInDb
  <2>1. build' = [build EXCEPT !.left = build.left \ {kind}, !.at = "chunks",
                               !.todo = ChunksOf(kind), !.existing = passed]
    BY <1>2, <1>6
  <2> HIDE DEF passed
  <2>2. /\ DOMAIN build' = DOMAIN build /\ build'.mode = build.mode /\ build'.at = "chunks"
        /\ build'.scanned = build.scanned /\ build'.left = build.left \ {kind}
        /\ build'.todo = ChunksOf(kind) /\ build'.existing = passed
    BY <1>1, <1>3, <2>1 DEF BuildShape
  <2>3. passed \subseteq KeysInDb
    BY DEF passed
  <2>4. \A c \in ChunksOf(kind) : KeyOf(c) \in Documents
    BY <1>3, ChunksAreOfDocuments DEF Documents
  <2>5. BuildShape' /\ NeverAhead'
    BY <1>1, <1>3, <2>2 DEF BuildShape, NeverAhead
  <2>6. RunsTrue'
    BY <1>1, <1>3, <2>2, <2>3, <2>4 DEF RunsTrue
  <2>7. \A d \in jsonl[kind].docs : \E c \in ChunksOf(kind) : KeyOf(c) = d
    BY <1>3, ChunksAreOfDocuments
  <2>8. ~lapse' => AllRead' /\ AllIndexed'
    BY <1>1, <2>2, <2>7 DEF BuildInv, AllRead, AllIndexed
  <2> QED BY <2>5, <2>6, <2>8 DEF BuildInv
<1> QED BY <1>4, <1>5, <1>6

\* A chunk done is a document with a row, or a lapse.
LEMMA Indexing ==
    ASSUME BuildInv, IndexChunk
    PROVE  BuildInv'
<1>1. build.at = "chunks" /\ UNCHANGED <<sources, known, jsonl>> /\ Documents' = Documents
  BY DEF IndexChunk, Documents
<1>2. PICK chunk \in build.todo :
          /\ build' = IF build.todo = {chunk} THEN FileDone
                      ELSE [build EXCEPT !.todo = @ \ {chunk}]
          /\ IF KeyOf(chunk) \in build.existing
             THEN UNCHANGED <<db, lapse>>
             ELSE \/ db' = Inserted(chunk) /\ UNCHANGED lapse
                  \/ lapse' = TRUE /\ UNCHANGED db
  BY DEF IndexChunk
<1>3. BuildShape /\ NeverAhead /\ RunsTrue
  BY DEF BuildInv
<1>4. /\ KeysInDb \subseteq KeysInDb'
      /\ KeysInDb' \subseteq KeysInDb \cup {KeyOf(chunk)}
      /\ KeyOf(chunk) \in KeysInDb' \/ lapse' = TRUE
      /\ ~lapse' => ~lapse
  <2>1. CASE KeyOf(chunk) \in build.existing
    BY <1>1, <1>2, <1>3, <2>1 DEF RunsTrue, KeysInDb
  <2>2. CASE db' = Inserted(chunk) /\ UNCHANGED lapse
    BY <2>2 DEF Inserted, KeysInDb
  <2>3. CASE lapse' = TRUE /\ UNCHANGED db
    BY <2>3 DEF KeysInDb
  <2> QED BY <1>2, <2>1, <2>2, <2>3
<1>5. KeyOf(chunk) \in Documents
  BY <1>1, <1>3 DEF RunsTrue
<1>6. /\ DOMAIN build' = DOMAIN build /\ build'.mode = build.mode
      /\ build'.scanned = build.scanned /\ build'.left = build.left
      /\ \/ build'.at = "files" /\ build.todo = {chunk}
         \/ /\ build'.at = "chunks" /\ build'.todo = build.todo \ {chunk}
            /\ build'.existing = build.existing
  BY <1>1, <1>2, <1>3 DEF FileDone, BuildShape
<1>7. BuildShape' /\ NeverAhead'
  BY <1>1, <1>3, <1>6 DEF BuildShape, NeverAhead
<1>8. RunsTrue'
  BY <1>1, <1>3, <1>4, <1>5, <1>6 DEF RunsTrue
<1>9. ASSUME ~lapse' PROVE AllRead' /\ AllIndexed'
  <2>1. KeyOf(chunk) \in KeysInDb' /\ AllRead /\ AllIndexed
    BY <1>4, <1>9 DEF BuildInv
  <2>2. ASSUME NEW k \in Kinds \ build.left, NEW d \in jsonl[k].docs
        PROVE  \/ d \in KeysInDb'
               \/ build'.at = "chunks" /\ \E c \in build'.todo : KeyOf(c) = d
    BY <1>1, <1>4, <1>6, <2>1, <2>2 DEF AllIndexed
  <2> QED BY <1>1, <1>6, <2>1, <2>2 DEF AllRead, AllIndexed
<1> QED BY <1>7, <1>8, <1>9 DEF BuildInv

LEMMA BuildStepOK ==
    ASSUME BuildInv, BuildStep
    PROVE  BuildInv'
<1>1. CASE BuildDone
  <2>1. /\ build.at = "unchanged" \/ (build.at = "files" /\ build.left = {})
        /\ build' = NoBuild /\ UNCHANGED <<sources, known, jsonl, db, lapse>>
    BY <1>1 DEF BuildDone
  <2>2. ~lapse => Documents \subseteq KeysInDb
    BY <2>1 DEF BuildInv, AllIndexed, Documents
  <2> QED BY <2>1, <2>2, Ending DEF BuildInv, BuildShape
<1>2. CASE Killed
  <2>1. build' = NoBuild /\ lapse' = TRUE /\ UNCHANGED <<sources, known, db>>
    BY <1>2 DEF Killed
  <2>2. jsonl' = jsonl \/ \E torn \in BOOLEAN : jsonl' \in Partial(torn)
    BY <1>2 DEF Killed
  <2>3. jsonl' \in [Kinds -> [docs : SUBSET (Files \X Nat), torn : BOOLEAN]]
    BY <2>2, FilesOfDocuments DEF BuildInv, BuildShape
  <2> QED BY <2>1, <2>3, Ending
<1> QED BY <1>1, <1>2, Editing, Beginning, Preprocessing, Scanning, Opening, NextFileIs,
           Indexing DEF BuildStep

LEMMA BuildNext == BuildInv /\ [BaseNext]_allVars => BuildInv'
<1> SUFFICES ASSUME BuildInv, [BaseNext]_allVars PROVE BuildInv'
  OBVIOUS
<1>1. CASE UNCHANGED buildVars
  <2>1. UNCHANGED <<sources, known, jsonl, db, build, lapse>>
    BY <1>1 DEF buildVars
  <2>2. BuildShape' /\ NeverAhead' /\ RunsTrue'
    BY <2>1 DEF BuildInv, BuildShape, NeverAhead, RunsTrue, KeysInDb, Documents
  <2>3. ~lapse' => AllRead' /\ AllIndexed'
    BY <2>1 DEF BuildInv, AllRead, AllIndexed, KeysInDb, Documents
  <2> QED BY <2>2, <2>3 DEF BuildInv
<1>2. CASE Build
  BY <1>2, BuildStepOK DEF Build
<1>3. CASE Use(PreparationNext) \/ UNCHANGED allVars
  BY <1>1, <1>3 DEF Use, allVars
<1> QED BY <1>2, <1>3 DEF BaseNext

\* Whatever is edited while a build runs, wherever it is killed and whichever chunks
\* cannot be embedded: unless that happened since the sources were last read, "nothing
\* has changed" is said only when every document the sources make has a row; and a run
\* that prunes or rebuilds leaves no row of a document that is gone.
THEOREM BuiltStaysTrue == BaseSpec => []BuiltIsTrue
<1>1. BuildInv => BuiltIsTrue
  <2> SUFFICES ASSUME BuildInv PROVE BuiltIsTrue
    OBVIOUS
  <2>1. ASSUME build.at = "unchanged", ~lapse
        PROVE  DocumentsOf(build.scanned) \subseteq KeysInDb
    <3>1. build.scanned = sources /\ known = sources
      BY <2>1 DEF BuildInv, RunsTrue
    <3>2. DocumentsOf(sources) \subseteq Documents
      BY <2>1, <3>1 DEF BuildInv, AllRead
    <3> QED BY <2>1, <3>1, <3>2 DEF BuildInv, AllIndexed
  <2>2. PrunedIsCurrent
    BY DEF BuildInv, RunsTrue, PrunedIsCurrent
  <2> QED BY <2>1, <2>2 DEF BuiltIsTrue, UnchangedMeansIndexed
<1> QED BY <1>1, BuildInitOK, BuildNext, PTL DEF BaseSpec
===============================================================================
