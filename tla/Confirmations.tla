----------------------------- MODULE Confirmations -----------------------------
(* The confirmation of the model's assumptions, and the line-based REPL that asks   *)
(* for it.  /confirm serves two things: it approves the requirements while their    *)
(* review waits, and otherwise runs the human_confirmation subgraph, which is no    *)
(* longer one of the phases.  Jobs of module RequirementsReview can be taken up     *)
(* here between any two steps of the service.                                      *)
EXTENDS RequirementsReview, Functions, Naturals

CONSTANTS
    MaxQuestions,     \* questions of one round (8)
    MaxConstraints    \* constraints of a plan the code generation is told of (40)

ASSUME QuestionsAssumption ==
    /\ MaxQuestions \in Nat \ {0}
    /\ MaxConstraints \in Nat

VARIABLES
    open,      \* the request confirmation_request_path names
    raw,       \* raw_human_response: the decision it carries
    model,     \* confirmed_model_plan.json and confirmation_record.json
    conf       \* confirmation_status

vars == <<review, said, plan, spec, stage, open, raw, model, conf>>
confVars == <<open, raw, model, conf>>

Decisions == {"approve", "edit", "reject", "ask_more"}
NoEdits == [f \in {} |-> None]
NoModel == [status |-> "none", constraints |-> NoEdits, edits |-> NoEdits]
NoRequest == [fields |-> {}, notes |-> FALSE]

\* Edits of some fields; one to nothing is how a proposal is turned down.
Edits(F) == UNION {[S -> Values \cup {None}] : S \in SUBSET F}

TypeOK ==
    /\ ReviewTypeOK
    /\ open \in [fields : SUBSET Fields, notes : BOOLEAN]
    /\ raw \in Decisions \cup {"none", "model_pass"}
    /\ model.status \in {"none", "approved", "edited", "rejected", "ask_more"}
    /\ DOMAIN model.constraints \subseteq Fields
    /\ model.edits \in Edits(Fields)
    /\ conf \in {"none", "pending", "approved", "edited", "rejected"}

-------------------------------------------------------------------------------
\* _get_field_source: the fields the evidence does not give to the user are completed
\* by retrieval, a default or an assumption, and to be confirmed.
Completions == SUBSET Fields

\* _collect_assumptions, _collect_missing_information: whether the evidence notes any.
Noted == BOOLEAN

\* generate_confirmation_request: the most urgent questions, not more than a round's.
\* When no field is asked for, what is missing or assumed may be asked for instead; the
\* answers to that are of no field.
AskedOf(todo) ==
    IF todo = {} THEN {[fields |-> {}, notes |-> n] : n \in Noted}
    ELSE {[fields |-> S, notes |-> FALSE] :
             S \in {S \in SUBSET todo :
                       Cardinality(S) = IF Cardinality(todo) < MaxQuestions
                                        THEN Cardinality(todo) ELSE MaxQuestions}}

Requests == UNION {AskedOf(todo) : todo \in Completions}

\* _build_confirmed_constraints, from the parameters of the proposal: what was edited is
\* as edited, and an approval takes over every other proposal, asked for or not.
Constraints(decision, edits) ==
    [f \in IF decision = "approve" THEN Fields ELSE DOMAIN edits |->
        IF f \in DOMAIN edits THEN edits[f] ELSE Proposed]

StatusOf(decision) ==
    CASE decision = "approve" -> "approved"
      [] decision = "edit" -> "edited"
      [] decision = "ask_more" -> "ask_more"
      [] OTHER -> "rejected"

\* merge_user_confirmation writes the plan and the record of the answer.
Merged(decision, edits) ==
    [status |-> StatusOf(decision),
     constraints |-> IF decision \in {"approve", "edit"}
                     THEN Constraints(decision, edits) ELSE NoEdits,
     edits |-> edits]

\* validate_confirmation_completeness looks for components of the plan that are to be
\* confirmed and are not; a merged plan says of none that it is to be, so every plan passes.
Validated(m) == m.status

\* The subgraph, entered with a response: a proposal and a request are made, answered by
\* the response at hand and merged.  ask_more asks and answers for ever, until the graph's
\* step limit raises; then only the files have changed.
Subgraph(decision, edits) ==
    LET m == Merged(decision, edits) IN
    /\ model' = m
    /\ IF m.status = "ask_more"
       THEN UNCHANGED <<conf, open>>
       ELSE conf' = Validated(m) /\ open' \in Requests

\* _load_human_confirmation_context: what the code generation would be told; a plan lists
\* its fields in the order of the model, and those after the last one told are lost.
Told(m) ==
    LET all == DOMAIN m.constraints
    IN  {Restrict(m.constraints, S) :
            S \in {S \in SUBSET all :
                      Cardinality(S) = IF Cardinality(all) < MaxConstraints
                                       THEN Cardinality(all) ELSE MaxConstraints}}

-------------------------------------------------------------------------------
\* requirements_review_node also names its request, and its approval is kept as
\* the last response of the user.
RunReview ==
    /\ Review
    /\ open' = [fields |-> review'.asked, notes |-> FALSE]
    /\ IF review'.status = "approved"
       THEN raw' = "model_pass" /\ conf' = "approved"
       ELSE conf' = "pending" /\ UNCHANGED raw
    /\ UNCHANGED model

SubmitReject ==
    /\ Reject
    /\ raw' = "reject" /\ conf' = "rejected"
    /\ UNCHANGED <<open, model>>

\* What a user answers to the questions shown: edits of some of them.
Replies == Edits(open.fields)

DecisionOf(edits) ==
    IF edits # NoEdits THEN {"edit"} ELSE IF open.notes THEN {"approve", "edit"} ELSE {"approve"}

\* /confirm while the review waits: the request as it stands is approved.  What the user
\* changed is kept in raw_human_response only, where the plan does not look for it.
ConfirmReview ==
    /\ stage = "review" /\ Waiting
    /\ \E e \in Replies : raw' \in DecisionOf(e)
    /\ review' = [review EXCEPT !.status = "approved"]
    /\ plan' = PlanFor(review, NoParams)
    /\ stage' = "modeling"
    /\ conf' = "approved"
    /\ UNCHANGED <<said, spec, open, model>>

\* /confirm with no questions on display takes a rejection.
Decline ==
    /\ review.status # "none" /\ open = NoRequest
    /\ raw' = "reject"
    /\ UNCHANGED <<review, said, plan, spec, stage, open, model, conf>>

\* /confirm otherwise: the open request is shown, the subgraph is run on the answers,
\* and then the phase's number is looked up, which fails: it has none.
ConfirmModel ==
    /\ stage # "review" \/ ~Waiting
    /\ review.status # "none"
    /\ \E e \in Replies : \E d \in DecisionOf(e) :
          raw' = d /\ Subgraph(d, e)
    /\ UNCHANGED reviewVars

\* The service runs the subgraph on the decision a front end sends unasked.
SubmitUnasked ==
    /\ stage = "built"
    /\ \E d \in Decisions : raw' = d /\ Subgraph(d, NoEdits)
    /\ UNCHANGED reviewVars

Init ==
    /\ ReviewInit
    /\ open = NoRequest /\ raw = "none" /\ model = NoModel /\ conf = "none"

\* Steps of the job that no confirmation is involved in.
Workflow == (Supplement \/ Model \/ RouteBack) /\ UNCHANGED confVars

Next ==
    \/ RunReview \/ SubmitReject \/ Workflow
    \/ ConfirmReview \/ Decline \/ ConfirmModel \/ SubmitUnasked

Spec == Init /\ [][Next]_vars

-------------------------------------------------------------------------------
(* What the review of the requirements and the confirmation of assumptions owe the  *)
(* user: an answer is asked for once and is what gets built.                       *)

\* The simulation is modelled with every answer the approved request records, whatever
\* the model proposed for the field in this round or a later one
\* (g4_modeling/subgraph_io.py, apply_confirmed_requirement_plan).
ReviewBinds ==
    stage = "built" =>
        \A f \in Fields : review.answers[f] # None => spec[f] = review.answers[f]

\* Of a confirmed model plan the code generation is told no value but the user's own for
\* a field the user edited in the confirmation on record, none but the proposal for a
\* field that was approved, and nothing of a field that was neither; an edit is lost only
\* if the plan has more constraints than the generation reads
\* (human_confirmation/nodes.py, g4_codegen/graph_nodes.py:195).
ConfirmationBinds ==
    \A told \in Told(model) :
        /\ \A f \in DOMAIN told :
              IF f \in DOMAIN model.edits THEN told[f] = model.edits[f]
              ELSE model.status = "approved" /\ told[f] = Proposed
        /\ model.status \in {"approved", "edited"}
              => \/ DOMAIN model.edits \subseteq DOMAIN told
                 \/ Cardinality(DOMAIN model.constraints) > MaxConstraints

\* So an answer of the user is what is built, in either form it is given.
AnswersBind == ReviewBinds /\ ConfirmationBinds

\* A request does not ask again for what the user had answered when it was made, though
\* the model that writes it may (requirements_review.py,
\* _apply_confirmed_requirement_answers).
NotAskedAgain ==
    Waiting => \A f \in review.asked \cup review.missing : review.answers[f] = None
===============================================================================
