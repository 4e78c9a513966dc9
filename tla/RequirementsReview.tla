-------------------------- MODULE RequirementsReview ---------------------------
(* The review a job passes before modelling: a model lists the parameters that     *)
(* are open, the user answers some of them, the review is run again with every     *)
(* answer so far, and once nothing is open the requirement plan is written that    *)
(* modelling starts from.                                                         *)
EXTENDS FiniteSets

CONSTANTS
    Fields,     \* parameters of the simulation
    Values,     \* what a user may enter for one
    Proposed,   \* what the model recommends
    None

ASSUME ReviewAssumption ==
    /\ Proposed \notin Values
    /\ None \notin Values \cup {Proposed}

VARIABLES
    review,    \* requirements_review_status and the request on disk
    said,      \* the newest answer of the user to each field (the supplements)
    plan,      \* confirmed_requirement_plan.json
    spec,      \* the task spec modelling has loaded
    stage      \* how far the job is

reviewVars == <<review, said, plan, spec, stage>>

Answer == Values \cup {Proposed}
Params == [Fields -> Answer \cup {None}]
NoParams == [f \in Fields |-> None]

ReviewTypeOK ==
    /\ review \in [status : {"none", "needs_user_input", "approved", "rejected"},
                   asked : SUBSET Fields, missing : SUBSET Fields,
                   proposed : SUBSET Fields, answers : Params]
    /\ said \in Params
    /\ plan \in Params \cup {None}
    /\ spec \in Params \cup {None}
    /\ stage \in {"review", "modeling", "built"}

Waiting == review.status = "needs_user_input"
Answered == {f \in Fields : said[f] # None}

-------------------------------------------------------------------------------
Opinion(status, asked, missing, proposed) ==
    [status : status, asked : asked, missing : missing, proposed : proposed]

\* An answer that is JSON, at once or after one repair, says anything.
Parsed == Opinion({"pass", "needs"}, SUBSET Fields, SUBSET Fields, {Fields})

\* Otherwise whole questions and lists are cut out of the broken text.
Extracted == Opinion({"needs"}, SUBSET Fields \ {{}}, SUBSET Fields, {{}})

\* Without a single question, a second call fills question cards; a pass needs none.
Carded ==
    Opinion({"needs"}, SUBSET Fields \ {{}}, SUBSET Fields, {{}})
    \cup Opinion({"pass"}, SUBSET Fields, SUBSET Fields, {{}})

\* Without cards, the questions the task plan hints at are asked, or default ones.
Defaulted == Opinion({"needs"}, SUBSET Fields \ {{}}, SUBSET Fields, {{}})

\* The call itself failed: an empty review that needs input.
Failed == Opinion({"needs"}, {{}}, {{}}, {{}})

\* Fields are those the review may ask for: items about the number of events, which
\* the user chooses at run time, are taken out of every opinion.
Opinions == Parsed \cup Extracted \cup Carded \cup Defaulted \cup Failed

\* _apply_confirmed_requirement_answers: answered fields are open no more.  Missing
\* items are free text, compared with the answers word by word, so that others can
\* go with them.  When nothing is open any more the review has passed.
Settled(o) ==
    IF Answered = {} THEN {o}
    ELSE { [status |-> IF o.asked \subseteq Answered /\ missing = {} THEN "pass" ELSE o.status,
            asked |-> o.asked \ Answered, missing |-> missing,
            proposed |-> o.proposed \cup Answered] :
              missing \in SUBSET (o.missing \ Answered) }

\* _review_passed
Passed(o) == o.status = "pass" /\ o.asked = {} /\ o.missing = {}

Requested(o, status) ==
    [status |-> status, asked |-> o.asked, missing |-> o.missing,
     proposed |-> o.proposed, answers |-> said]

\* What a plan says of a field: the proposals of the request, overridden by the
\* answers it was made with and by those that come with the approval.
PlanFor(request, supplements) ==
    [f \in Fields |->
        IF supplements[f] # None THEN supplements[f]
        ELSE IF request.answers[f] # None THEN request.answers[f]
        ELSE IF f \in request.proposed THEN Proposed
        ELSE None]

-------------------------------------------------------------------------------
\* Variant: an answer holds for one round of the review.
Review_Forgets ==
    /\ stage = "review"
    /\ \E o \in Opinions :
          IF Passed(o)
          THEN /\ review' = Requested(o, "approved")
               /\ plan' = PlanFor(Requested(o, "approved"), NoParams)
               /\ stage' = "modeling"
          ELSE /\ review' = Requested(o, "needs_user_input")
               /\ UNCHANGED <<plan, stage>>
    /\ said' = NoParams
    /\ UNCHANGED spec

\* requirements_review_node, run by the loop, by a step or after an answer.
Review ==
    /\ stage = "review"
    /\ \E o \in UNION {Settled(x) : x \in Opinions} :
          IF Passed(o)
          THEN /\ review' = Requested(o, "approved")
               /\ plan' = PlanFor(Requested(o, "approved"), said)
               /\ stage' = "modeling"
          ELSE /\ review' = Requested(o, "needs_user_input")
               /\ UNCHANGED <<plan, stage>>
    /\ UNCHANGED <<said, spec>>

\* The user answers some fields, changes an earlier answer, or just sends text; the
\* review runs again at once (Review), or fails and leaves the request as it was.
Supplement ==
    /\ stage = "review" /\ Waiting
    /\ \E F \in SUBSET Fields : \E a \in [F -> Answer] :
          said' = [f \in Fields |-> IF f \in F THEN a[f] ELSE said[f]]
    /\ UNCHANGED <<review, plan, spec, stage>>

Reject ==
    /\ stage = "review" /\ Waiting
    /\ review' = [review EXCEPT !.status = "rejected"]
    /\ UNCHANGED <<said, plan, spec, stage>>

\* Variant: proposals come last and win.
Model_ProposalsWin ==
    /\ stage = "modeling"
    /\ spec' = [f \in Fields |-> IF f \in review.proposed THEN Proposed ELSE plan[f]]
    /\ stage' = "built"
    /\ UNCHANGED <<review, said, plan>>

\* load_task_spec projects the plan into the task spec before anything is modelled.
Model ==
    /\ stage = "modeling"
    /\ spec' = plan
    /\ stage' = "built"
    /\ UNCHANGED <<review, said, plan>>

\* A failed gate sends the job back to modelling or to the review.
RouteBack ==
    /\ stage = "built"
    /\ stage' \in {"review", "modeling"}
    /\ UNCHANGED <<review, said, plan, spec>>

ReviewInit ==
    /\ review = [status |-> "none", asked |-> {}, missing |-> {}, proposed |-> {},
                 answers |-> NoParams]
    /\ said = NoParams
    /\ plan = None /\ spec = None
    /\ stage = "review"

ReviewNext == Review \/ Supplement \/ Reject \/ Model \/ RouteBack

ReviewSpec == ReviewInit /\ [][ReviewNext]_reviewVars
===============================================================================
