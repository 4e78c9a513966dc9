----------------------------- MODULE CodegenProofs -----------------------------
(* What a generation call hands on, for any limits, budgets, projects and fixes;    *)
(* and before it and after it, what the modelling phase lets through, for any        *)
(* drafts and wishes, and what the job delivers.                                     *)
EXTENDS CodegenRepair, Delivery, FiniteSetTheorems, WellFoundedInduction, TLAPS

\* Only a sound run can pass the audit, and its counts of events agree.
LEMMA PassedAuditsAgree ==
    ASSUME NEW passed \in BOOLEAN, NEW audit \in Audits(passed), audit.status = "pass"
    PROVE  audit.agreed /\ audit.agreed \in BOOLEAN
<1>1. PICK f \in Facts, opinion \in Opinions :
          audit = [status |-> AuditStatus(f, opinion), agreed |-> Agree(f)]
  BY DEF Audits
<1>2. Sound(f)
  BY <1>1 DEF AuditStatus
<1>3. /\ f.expected \in {0, 1} /\ f.macro \in 0 .. 2 /\ f.rows \in 0 .. 2
  BY DEF Facts
<1>4. f.expected > 0 => f.rows \in {f.macro, f.summary, f.rows}
  OBVIOUS
<1>5. f.expected \in {0, f.rows}
  BY <1>2, <1>3, <1>4 DEF Sound
<1>6. f.macro \in {0, f.rows}
  BY <1>2, <1>3 DEF Sound
<1> QED BY <1>1, <1>5, <1>6 DEF Agree

\* A review passes only if its answer names nothing that the agent could mend.
LEMMA PassedReviewsName ==
    ASSUME NEW review \in Reviews
    PROVE  /\ review.defect \in BOOLEAN
           /\ review.verdict \in {"pass", "revise", "needs_user_input"}
           /\ review.verdict = "pass" => ~review.defect
<1>1. PICK a \in Answers \cup {Failed} :
          review = [verdict |-> Normalized(a), defect |-> NamesDefect(a)]
  BY DEF Reviews
<1>2. a.status \in {"pass", "revise", "needs_user_input", "fail"}
  BY DEF Answers, Failed
<1>3. Normalized(a) \in {"pass", "revise", "needs_user_input"}
  BY <1>2 DEF Normalized
<1>4. ASSUME NamesDefect(a) PROVE Normalized(a) # "pass"
  <2>1. Repairable(a.fixes) # {} /\ Routing(a) = "repair_code" /\ a.status # "pass"
    BY <1>4 DEF NamesDefect, Routing
  <2> QED BY <1>2, <2>1 DEF Normalized
<1>5. NamesDefect(a) \in BOOLEAN
  BY DEF NamesDefect
<1> QED BY <1>1, <1>3, <1>4, <1>5

-------------------------------------------------------------------------------
(* Types.                                                                          *)

LEMMA Budgets ==
    ASSUME TypeOK PROVE /\ Budget \in Nat \ {0} /\ LatestTurns \in Nat \ {0}
                        /\ LatestTurns + Increment \in Nat \ {0}
<1>1. job.override \in Nat /\ call.turns \in Nat
  BY DEF TypeOK, Job, Call
<1>2. Budget \in Nat \ {0}
  BY <1>1, BudgetAssumption DEF Budget
<1>3. LatestTurns \in Nat \ {0}
  BY <1>1, <1>2 DEF LatestTurns
<1> QED BY <1>2, <1>3, BudgetAssumption

LEMMA FreshCalls == ASSUME NEW j \in Job PROVE NewCall(j) \in Call
<1>1. 0 \in Nat /\ 0 \in 0 .. RecursionLimit
  BY BudgetAssumption
<1>2. Complaint(j) \in Complaints \cup {"none"}
  BY DEF Complaint, Complaints
<1>3. /\ j.request \in {"none", "pending", "approved"} /\ j.total \in Nat
      /\ j.answer \in {"none", "pending", "approved", "rejected"}
  BY DEF Job
<1> QED BY <1>1, <1>2, <1>3 DEF NewCall, Call

LEMMA NewJobs == NewJob \in Job /\ NoCall \in Call /\ NothingSeen \in Seen
<1>1. NewJob \in Job
  BY DEF NewJob, Job
<1>2. NothingSeen \in Seen
  BY DEF NothingSeen, Seen
<1> QED BY <1>1, <1>2, FreshCalls DEF NoCall

LEMMA Steps ==
    ASSUME TypeOK, NEW n \in Nat, NEW c \in Call, Takes(n, c)
    PROVE  call' \in Call
<1>1. call.steps \in Nat /\ RecursionLimit \in Nat /\ call.steps + n <= RecursionLimit
  BY BudgetAssumption DEF TypeOK, Call, Takes
<1>2. call.steps + n \in 0 .. RecursionLimit
  BY <1>1
<1> QED BY <1>2 DEF Takes, Call

LEMMA Rejections ==
    ASSUME NEW c \in Call, NEW by \in Complaints
    PROVE  Rejected(c, by) \in Call
<1>1. c.told # "none" => c.history \cup {c.told} \in SUBSET Complaints
  BY DEF Call
<1>2. c.history \in SUBSET Complaints
  BY DEF Call
<1> QED BY <1>1, <1>2 DEF Rejected, Call

LEMMA Runs ==
    ASSUME TypeOK, NEW c \in Call, AgentRun(c)
    PROVE  /\ call' \in Call /\ seen' \in Seen
           /\ call'.report \in {"passed", "failed", "exhausted"}
           /\ call'.report = "passed" => seen'.passed = {"gate"}
           /\ call'.audit = "none" /\ call'.review = "none"
           /\ call'.request = c.request /\ call'.answer = c.answer /\ call'.total = c.total
           /\ seen'.continued = (seen.continued \/ node = "continue")
           /\ call'.audits = c.audits /\ call'.reviews = c.reviews
           /\ call'.steps = call.steps + 1
           /\ seen'.exhausted = (seen.exhausted \/ call'.report = "exhausted")
<1>1. PICK result \in {"passed", "failed", "exhausted"}, used \in {0, 1, Budget} :
          /\ Takes(1, [c EXCEPT !.report = result, !.turns = used,
                               !.audit = "none", !.review = "none"])
          /\ seen' = [seen EXCEPT !.exhausted = @ \/ (result = "exhausted"),
                                  !.passed = IF result = "passed" THEN {"gate"} ELSE {},
                                  !.agreed = FALSE, !.defect = FALSE, !.shown = NothingShown,
                                  !.continued = @ \/ (node = "continue")]
  BY DEF AgentRun
<1> DEFINE d == [c EXCEPT !.report = result, !.turns = used,
                         !.audit = "none", !.review = "none"]
<1>2. used \in Nat
  BY Budgets
<1>3. d \in Call
  BY <1>2 DEF Call
<1>4. call' \in Call
  BY <1>1, <1>3, Steps
<1>5. /\ d.report = result /\ d.audit = "none" /\ d.review = "none"
      /\ d.request = c.request /\ d.answer = c.answer /\ d.total = c.total
      /\ d.audits = c.audits /\ d.reviews = c.reviews
  BY DEF Call
<1>6. /\ call'.report = d.report /\ call'.audit = d.audit /\ call'.review = d.review
      /\ call'.request = d.request /\ call'.answer = d.answer /\ call'.total = d.total
      /\ call'.audits = d.audits /\ call'.reviews = d.reviews /\ call'.steps = call.steps + 1
  <2>1. Takes(1, d)
    BY <1>1
  <2> HIDE DEF d
  <2> QED BY <1>3, <2>1 DEF Takes, Call
<1>7. seen' \in Seen
  <2> DEFINE passed == IF result = "passed" THEN {"gate"} ELSE {}
  <2>1. /\ passed \in SUBSET {"gate", "audit", "review"}
        /\ {(result = "exhausted"), (node = "continue")} \subseteq BOOLEAN
    OBVIOUS
  <2>2. seen' = [seen EXCEPT !.exhausted = @ \/ (result = "exhausted"), !.passed = passed,
                             !.agreed = FALSE, !.defect = FALSE, !.shown = NothingShown,
                             !.continued = @ \/ (node = "continue")]
    BY <1>1
  <2>3. seen \in Seen
    BY DEF TypeOK
  <2> HIDE DEF passed
  <2> QED BY <2>1, <2>2, <2>3 DEF Seen
<1>8. /\ result = "passed" => seen'.passed = {"gate"}
      /\ seen'.continued = (seen.continued \/ node = "continue")
      /\ seen'.exhausted = (seen.exhausted \/ result = "exhausted")
  BY <1>1 DEF TypeOK, Seen
<1> QED BY <1>1, <1>4, <1>5, <1>6, <1>7, <1>8

\* What the nodes of a call keep true of what it has seen, and of the request it was given:
\* a project's judgements are about that project, and an approval is gone once used.
Judged ==
    /\ call.report = "passed" => "gate" \in seen.passed
    /\ call.audit = "pass" => "audit" \in seen.passed /\ seen.agreed
    /\ call.review = "pass" => "review" \in seen.passed /\ ~seen.defect

Spent == seen.continued => call.answer # "approved"

\* The request that is returned is the one that was given, cleared if it was approved,
\* or one of the call's own.
Given ==
    \/ call.request = "pending" /\ call.answer = "pending"
    \/ job.answer = "approved" /\ call.request = "none" /\ call.answer = "none"
    \/ call.request = job.request /\ call.answer = job.answer

Countable ==
    /\ job.request = "pending" => job.total > 0
    /\ job.answer = "approved" => job.override > 0
    /\ call.request = "pending" => call.total > 0

Kept == node # "idle" =>
    /\ Given
    /\ node \notin {"load", "continue"} => call.answer # "approved"
    /\ node = "continue" => job.answer = "approved"

IInv == TypeOK /\ Judged /\ Spent /\ Countable /\ Kept /\ PauseIsAnswerable

LEMMA InitOK == Init => IInv
<1> SUFFICES ASSUME Init PROVE IInv
  OBVIOUS
<1>1. TypeOK
  BY NewJobs DEF Init, TypeOK
<1>2. Judged /\ Spent /\ Countable /\ Kept /\ PauseIsAnswerable
  BY DEF Init, Judged, Spent, Countable, Kept, PauseIsAnswerable, NoCall, NewCall, NewJob,
         NothingSeen
<1> QED BY <1>1, <1>2 DEF IInv

LEMMA IdleOK ==
    ASSUME IInv, node' = "idle", call' = NoCall, seen' = seen, job' \in Job,
           job'.request = "pending" => job'.total > 0,
           job'.answer = "approved" => job'.override > 0,
           PauseIsAnswerable'
    PROVE  IInv'
<1>1. TypeOK'
  BY NewJobs DEF IInv, TypeOK, Nodes
<1>2. /\ call'.report = "none" /\ call'.audit = "none" /\ call'.review = "none"
      /\ call'.request = "none" /\ call'.answer = "none"
  BY DEF NoCall, NewCall, NewJob
<1> QED BY <1>1, <1>2 DEF IInv, Judged, Spent, Countable, Kept

\* A step of a call that does not judge and leaves what was asked of the user alone.
LEMMA JudgementOK ==
    ASSUME IInv, node # "idle", node' \in Nodes, call' \in Call, seen' \in Seen, Judged',
           seen'.continued = seen.continued \/ call'.answer # "approved",
           job' = job \/ job' = [job EXCEPT !.audited = TRUE],
           \/ call'.request = call.request /\ call'.answer = call.answer /\ call'.total = call.total
           \/ call'.request = "pending" /\ call'.answer = "pending" /\ call'.total > 0,
           node' \notin {"load", "continue"}, node \notin {"load", "continue"}
    PROVE  IInv'
<1>1. /\ job' \in Job /\ job'.request = job.request /\ job'.answer = job.answer
      /\ job'.total = job.total /\ job'.override = job.override /\ job'.status = job.status
  BY DEF IInv, TypeOK, Job
<1>2. TypeOK'
  BY <1>1 DEF IInv, TypeOK
<1>3. call.answer # "approved" /\ call'.answer # "approved"
  BY DEF IInv, Kept
<1> QED BY <1>1, <1>2, <1>3 DEF IInv, Spent, Countable, Kept, Given, PauseIsAnswerable

LEMMA RunOK ==
    ASSUME IInv, node # "idle", NEW c \in Call, AgentRun(c), job' = job,
           node' \in {"audit", "persist"}, Given',
           call.request = "pending" /\ c.request = "pending" => c.total = call.total,
           c.request \in {"none", call.request},
           c.answer # "approved"
    PROVE  IInv'
<1>1. /\ call' \in Call /\ seen' \in Seen
      /\ call'.report = "passed" => seen'.passed = {"gate"}
      /\ call'.audit = "none" /\ call'.review = "none"
      /\ call'.request = c.request /\ call'.answer = c.answer /\ call'.total = c.total
  BY Runs DEF IInv
<1>2. TypeOK'
  BY <1>1 DEF IInv, TypeOK, Nodes
<1>3. Judged'
  BY <1>1 DEF Judged
<1>4. Spent'
  BY <1>1 DEF Spent
<1>5. Countable'
  BY <1>1 DEF IInv, Countable
<1>6. Kept'
  BY <1>1 DEF Kept
<1> QED BY <1>2, <1>3, <1>4, <1>5, <1>6 DEF IInv, PauseIsAnswerable

LEMMA StepOK == IInv /\ [Next]_vars => IInv'
<1> SUFFICES ASSUME IInv, [Next]_vars PROVE IInv'
  OBVIOUS
<1> USE DEF At
<1>t. /\ job \in Job /\ call \in Call /\ seen \in Seen /\ node \in Nodes \cup {"idle"}
  BY DEF IInv, TypeOK
<1>1. CASE Generate
  <2>1. /\ node' = "load" /\ call' = NewCall(job) /\ seen' = NothingSeen /\ job' = job
    BY <1>1 DEF Generate
  <2>2. TypeOK'
    BY <1>t, <2>1, FreshCalls, NewJobs DEF TypeOK, Nodes
  <2>3. /\ call'.report = "none" /\ call'.audit = "none" /\ call'.review = "none"
        /\ call'.request = job.request /\ call'.answer = job.answer /\ call'.total = job.total
        /\ seen'.continued = FALSE
    BY <2>1 DEF NewCall, NothingSeen
  <2> QED BY <2>1, <2>2, <2>3
          DEF IInv, Judged, Spent, Countable, Kept, Given, PauseIsAnswerable
<1>2. CASE LoadModelIr
  <2>1. /\ node = "load" /\ node' \in {"continue", "plan"} /\ job' = job /\ seen' = seen
        /\ Takes(1, call)
        /\ node' = "continue" <=> call.answer = "approved" /\ job.override > 0
    BY <1>2 DEF LoadModelIr
  <2>2. /\ call' \in Call /\ call'.report = call.report /\ call'.audit = call.audit
        /\ call'.review = call.review /\ call'.request = call.request
        /\ call'.answer = call.answer /\ call'.total = call.total
    <3>1. call' \in Call
      BY <1>t, <2>1, Steps DEF IInv
    <3> QED BY <1>t, <2>1, <3>1 DEF Takes, Call
  <2>3. TypeOK'
    BY <1>t, <2>1, <2>2 DEF TypeOK, Nodes
  <2>4. Given /\ (call.answer = "approved" => job.answer = "approved")
    BY <2>1 DEF IInv, Kept, Given
  <2>5. job.answer = "approved" => job.override > 0
    BY DEF IInv, Countable
  <2> QED BY <2>1, <2>2, <2>3, <2>4, <2>5
          DEF IInv, Judged, Spent, Countable, Kept, Given, PauseIsAnswerable
<1>3. CASE Plan
  <2>1. /\ node = "plan" /\ node' = "agent" /\ job' = job /\ seen' = seen
        /\ Takes(6, call)
    BY <1>3 DEF Plan, PlanningNodes
  <2>2. call' \in Call
    BY <1>t, <2>1, Steps DEF IInv
  <2>3. /\ call'.report = call.report /\ call'.audit = call.audit
        /\ call'.review = call.review /\ call'.request = call.request
        /\ call'.answer = call.answer /\ call'.total = call.total
    BY <1>t, <2>1, <2>2 DEF Takes, Call
  <2>4. Judged'
    BY <2>1, <2>3 DEF IInv, Judged
  <2> QED BY <1>t, <2>1, <2>2, <2>3, <2>4, JudgementOK DEF Nodes
<1>4. CASE ProjectAgent
  <2>1. /\ node = "agent" /\ node' = "audit" /\ job' = job /\ AgentRun(call)
    BY <1>4 DEF ProjectAgent
  <2>2. call.answer # "approved" /\ Given
    BY <2>1 DEF IInv, Kept
  <2>3. call'.request = call.request /\ call'.answer = call.answer
    BY <1>t, <2>1, Runs DEF IInv
  <2>4. Given'
    BY <2>1, <2>2, <2>3 DEF Given
  <2> QED BY <1>t, <2>1, <2>2, <2>4, RunOK
<1>5. CASE ContinueRepair
  <2> DEFINE c == [call EXCEPT !.request = "none", !.answer = "none", !.total = 0]
  <2>1. /\ node = "continue" /\ node' \in {"audit", "persist"} /\ job' = job /\ AgentRun(c)
    BY <1>5 DEF ContinueRepair
  <2>2. /\ c \in Call /\ c.request = "none" /\ c.answer = "none"
    BY <1>t DEF Call
  <2>3. job.answer = "approved"
    BY <2>1 DEF IInv, Kept
  <2> HIDE DEF c
  <2>4. call'.request = "none" /\ call'.answer = "none"
    BY <2>1, <2>2, Runs DEF IInv
  <2>5. Given'
    BY <2>1, <2>3, <2>4 DEF Given
  <2> QED BY <2>1, <2>2, <2>5, RunOK
<1>6. CASE AuditBlocked
  <2> DEFINE c == [call EXCEPT !.audit = "blocked", !.request = "pending",
                             !.answer = "pending", !.total = call.turns + Increment]
  <2>1. /\ node = "audit" /\ node' = AfterAudit(call') /\ job' = job /\ seen' = seen
        /\ Takes(1, c) /\ call.report = "exhausted"
    BY <1>6 DEF AuditBlocked
  <2>2. call.turns + Increment \in Nat \ {0}
    <3>1. call.turns \in Nat
      BY <1>t DEF Call
    <3> QED BY <3>1, BudgetAssumption
  <2>3. /\ c \in Call /\ c.report = call.report /\ c.audit = "blocked" /\ c.review = call.review
        /\ c.request = "pending" /\ c.answer = "pending" /\ c.total = call.turns + Increment
    BY <1>t, <2>2 DEF Call
  <2>c. c.total > 0
    BY <2>2, <2>3
  <2> HIDE DEF c
  <2>4. call' \in Call
    BY <2>1, <2>3, Steps DEF IInv
  <2>5. /\ call'.report = call.report /\ call'.audit = "blocked" /\ call'.review = call.review
        /\ call'.request = "pending" /\ call'.answer = "pending" /\ call'.total > 0
    BY <2>1, <2>3, <2>c, <2>4 DEF Takes, Call
  <2>6. Judged'
    BY <2>1, <2>5 DEF IInv, Judged
  <2>7. node' \in {"review", "agent", "persist"}
    BY <2>1 DEF AfterAudit
  <2> QED BY <1>t, <2>1, <2>4, <2>5, <2>6, <2>7, JudgementOK DEF Nodes
<1>7. CASE AuditPasses
  <2> DEFINE c == [call EXCEPT !.audit = "pass"]
  <2>1. /\ node = "audit" /\ node' = AfterAudit(call') /\ job' = [job EXCEPT !.audited = TRUE]
        /\ Takes(1, c)
    BY <1>7 DEF AuditPasses
  <2>2. PICK audit \in AuditsOfPassed :
            /\ audit.status = "pass"
            /\ seen' = [seen EXCEPT !.passed = @ \cup {"audit"}, !.agreed = audit.agreed]
    BY <1>7 DEF AuditPasses
  <2>3. audit.agreed /\ audit.agreed \in BOOLEAN
    BY <2>2, PassedAuditsAgree DEF AuditsOfPassed
  <2>4. /\ c \in Call /\ c.report = call.report /\ c.review = call.review
        /\ c.request = call.request /\ c.answer = call.answer /\ c.total = call.total
    BY <1>t DEF Call
  <2> HIDE DEF c
  <2>5. call' \in Call
    BY <2>1, <2>4, Steps DEF IInv
  <2>6. /\ call'.report = call.report /\ call'.review = call.review
        /\ call'.request = call.request /\ call'.answer = call.answer
        /\ call'.total = call.total
    BY <2>1, <2>4, <2>5 DEF Takes, Call
  <2>7. /\ seen' \in Seen /\ seen'.passed = seen.passed \cup {"audit"} /\ seen'.agreed
        /\ seen'.defect = seen.defect /\ seen'.continued = seen.continued
    BY <1>t, <2>2, <2>3 DEF Seen
  <2>8. Judged'
    BY <2>6, <2>7 DEF IInv, Judged
  <2>9. node' \in {"review", "agent", "persist"}
    BY <2>1 DEF AfterAudit
  <2> QED BY <1>t, <2>1, <2>5, <2>6, <2>7, <2>8, <2>9, JudgementOK DEF Nodes
<1>8. CASE AuditFails
  <2> DEFINE b == [call EXCEPT !.audit = "fail", !.audits = @ + 1]
             c == Rejected(b, "audit")
  <2>1. /\ node = "audit" /\ node' = AfterAudit(call') /\ job' = [job EXCEPT !.audited = TRUE]
        /\ Takes(1, c) /\ seen' = Rejects("audit")
    BY <1>8 DEF AuditFails
  <2>2. b \in Call
    <3>1. call.audits + 1 \in Nat
      BY <1>t DEF Call
    <3> QED BY <1>t, <3>1 DEF Call
  <2>3. c \in Call
    BY <2>2, Rejections DEF Complaints
  <2>4. /\ c.report = call.report /\ c.audit = "fail" /\ c.review = call.review
        /\ c.request = call.request /\ c.answer = call.answer /\ c.total = call.total
    BY <1>t DEF Rejected, Call
  <2> HIDE DEF b, c
  <2>5. call' \in Call
    BY <2>1, <2>3, Steps DEF IInv
  <2>6. /\ call'.report = call.report /\ call'.audit = "fail" /\ call'.review = call.review
        /\ call'.request = call.request /\ call'.answer = call.answer
        /\ call'.total = call.total
    BY <2>1, <2>3, <2>4, <2>5 DEF Takes, Call
  <2>7. /\ seen' \in Seen /\ seen'.passed = seen.passed
        /\ seen'.agreed = seen.agreed /\ seen'.defect = seen.defect
        /\ seen'.continued = seen.continued
    BY <1>t, <2>1 DEF Rejects, Seen
  <2>8. Judged'
    BY <2>6, <2>7 DEF IInv, Judged
  <2>9. node' \in {"review", "agent", "persist"}
    BY <2>1 DEF AfterAudit
  <2> QED BY <1>t, <2>1, <2>5, <2>6, <2>7, <2>8, <2>9, JudgementOK DEF Nodes
<1>9. CASE ReviewPasses
  <2> DEFINE c == [call EXCEPT !.review = "pass"]
  <2>1. PICK review \in Reviews, prompt \in Prompts :
            /\ review.verdict = "pass"
            /\ Takes(1, c)
            /\ seen' = [seen EXCEPT !.passed = @ \cup {"review"},
                                    !.defect = review.defect, !.shown = prompt]
    BY <1>9 DEF ReviewPasses
  <2>2. node = "review" /\ node' = "persist" /\ job' = job
    BY <1>9 DEF ReviewPasses
  <2>3. review.defect \in BOOLEAN /\ ~review.defect
    BY <2>1, PassedReviewsName
  <2>4. /\ c \in Call /\ c.report = call.report /\ c.audit = call.audit
        /\ c.request = call.request /\ c.answer = call.answer /\ c.total = call.total
    BY <1>t DEF Call
  <2>x. Takes(1, c)
    BY <2>1
  <2>7. /\ seen' \in Seen /\ seen'.passed = seen.passed \cup {"review"}
        /\ seen'.agreed = seen.agreed /\ ~seen'.defect
        /\ seen'.continued = seen.continued
    BY <1>t, <2>1, <2>3 DEF Seen
  <2> HIDE DEF c
  <2>5. call' \in Call
    BY <2>x, <2>4, Steps DEF IInv
  <2>6. /\ call'.report = call.report /\ call'.audit = call.audit
        /\ call'.request = call.request /\ call'.answer = call.answer
        /\ call'.total = call.total
    BY <2>x, <2>4, <2>5 DEF Takes, Call
  <2>8. Judged'
    BY <2>6, <2>7 DEF IInv, Judged
  <2> QED BY <1>t, <2>2, <2>5, <2>6, <2>7, <2>8, JudgementOK DEF Nodes
<1>10. CASE ReviewFails
  <2>1. node = "review" /\ job' = job
    BY <1>10 DEF ReviewFails
  <2>2. PICK review \in Reviews, prompt \in Prompts :
            /\ review.verdict # "pass"
            /\ Takes(1, Rejected([call EXCEPT !.review = review.verdict, !.reviews = @ + 1],
                                 "review"))
            /\ node' \in {"agent", "persist"}
            /\ seen' = [Rejects("review") EXCEPT !.defect = review.defect, !.shown = prompt]
    BY <1>10 DEF ReviewFails
  <2> DEFINE b == [call EXCEPT !.review = review.verdict, !.reviews = @ + 1]
             c == Rejected(b, "review")
  <2>3. /\ review.defect \in BOOLEAN /\ review.verdict \in {"revise", "needs_user_input"}
    BY <2>2, PassedReviewsName
  <2>4. b \in Call
    <3>1. call.reviews + 1 \in Nat
      BY <1>t DEF Call
    <3> QED BY <1>t, <2>3, <3>1 DEF Call
  <2>5. c \in Call
    BY <2>4, Rejections DEF Complaints
  <2>6. /\ c.report = call.report /\ c.audit = call.audit /\ c.review # "pass"
        /\ c.request = call.request /\ c.answer = call.answer /\ c.total = call.total
    BY <1>t, <2>3 DEF Rejected, Call
  <2>7. Takes(1, c)
    BY <2>2
  <2>8. /\ seen' \in Seen /\ seen'.passed = seen.passed
        /\ seen'.agreed = seen.agreed /\ seen'.continued = seen.continued
    BY <1>t, <2>2, <2>3 DEF Rejects, Seen
  <2> HIDE DEF b, c
  <2>9. call' \in Call
    BY <2>5, <2>7, Steps DEF IInv
  <2>10. /\ call'.report = call.report /\ call'.audit = call.audit /\ call'.review # "pass"
         /\ call'.request = call.request /\ call'.answer = call.answer
         /\ call'.total = call.total
    BY <2>5, <2>6, <2>7, <2>9 DEF Takes, Call
  <2>11. Judged'
    BY <2>8, <2>10 DEF IInv, Judged
  <2> QED BY <1>t, <2>1, <2>2, <2>8, <2>9, <2>10, <2>11, JudgementOK DEF Nodes
<1>11. CASE Persist
  <2>1. /\ node = "persist" /\ node' = "idle" /\ call' = NoCall /\ seen' = seen
    BY <1>11 DEF Persist
  <2>2. LatestTurns + Increment \in Nat \ {0}
    BY Budgets DEF IInv
  <2>3. Given /\ call.answer # "approved"
    BY <2>1 DEF IInv, Kept
  <2>4. Verdict \in {"passed", "failed", "needs_user_input"}
        /\ (Verdict = "needs_user_input" <=> Raised)
    BY DEF Verdict
  <2>5. CASE Raised
    <3>1. /\ job' = [job EXCEPT !.status = Verdict, !.request = "pending",
                               !.answer = "pending", !.total = LatestTurns + Increment]
      BY <1>11, <2>5 DEF Persist
    <3>2. /\ job' \in Job /\ job'.total = LatestTurns + Increment /\ job'.answer = "pending"
          /\ job'.request = "pending"
      BY <1>t, <2>2, <2>4, <3>1 DEF Job
    <3>3. job'.total > 0
      BY <2>2, <3>2
    <3>4. PauseIsAnswerable'
      BY <3>2, <3>3 DEF PauseIsAnswerable
    <3> QED BY <2>1, <3>2, <3>3, <3>4, IdleOK
  <2>6. CASE ~Raised
    <3>1. /\ job' = [job EXCEPT !.status = Verdict, !.request = call.request,
                               !.answer = call.answer, !.total = call.total]
      BY <1>11, <2>6 DEF Persist
    <3>2. /\ job' \in Job /\ job'.total = call.total /\ job'.answer = call.answer
          /\ job'.request = call.request /\ job'.status # "needs_user_input"
      BY <1>t, <2>4, <2>6, <3>1 DEF Job, Call
    <3>3. PauseIsAnswerable'
      BY <3>2 DEF PauseIsAnswerable
    <3>4. call.request = "pending" => call.total > 0
      BY DEF IInv, Countable
    <3> QED BY <2>1, <2>3, <3>2, <3>3, <3>4, IdleOK
  <2> QED BY <2>5, <2>6
<1>12. CASE RecursionError \/ NodeRaises
  <2>1. node' = "idle" /\ call' = NoCall /\ seen' = seen /\ job' = job
    BY <1>12 DEF RecursionError, NodeRaises
  <2> QED BY <1>t, <2>1, IdleOK DEF IInv, Countable, PauseIsAnswerable
<1>13. CASE Approve \/ Reject \/ PatchRejected \/ Gated
  <2>1. /\ node = "idle" /\ node' = "idle" /\ call' = call /\ seen' = seen
    BY <1>13 DEF Approve, Reject, PatchRejected, Gated
  <2>2. /\ job' \in Job /\ (job'.request = "pending" => job'.total > 0)
        /\ (job'.answer = "approved" => job'.override > 0) /\ PauseIsAnswerable'
    <3>1. CASE Approve
      <4>1. job.total \in Nat /\ job.total > 0
        BY <1>t, <3>1 DEF Approve, IInv, Countable, Job
      <4> QED BY <1>t, <3>1, <4>1 DEF Approve, Job, PauseIsAnswerable
    <3>2. CASE Reject
      BY <1>t, <3>2 DEF Reject, Job, IInv, Countable, PauseIsAnswerable
    <3>3. CASE PatchRejected
      BY <1>t, <3>3 DEF PatchRejected, Job, IInv, Countable, PauseIsAnswerable
    <3>4. CASE Gated
      BY <1>t, <3>4 DEF Gated, Job, IInv, Countable, PauseIsAnswerable
    <3> QED BY <1>13, <3>1, <3>2, <3>3, <3>4
  <2>3. TypeOK'
    BY <1>t, <2>1, <2>2 DEF TypeOK
  <2> QED BY <2>1, <2>2, <2>3 DEF IInv, Judged, Spent, Countable, Kept
<1>14. CASE UNCHANGED vars
  BY <1>14 DEF vars, IInv, TypeOK, Judged, Spent, Countable, Kept, Given, PauseIsAnswerable
<1> QED BY <1>1, <1>2, <1>3, <1>4, <1>5, <1>6, <1>7, <1>8, <1>9, <1>10, <1>11, <1>12, <1>13,
           <1>14 DEF Next, Running

-------------------------------------------------------------------------------
\* Whatever the limits, every request for more turns that code waits for is one the user
\* can answer, and asks for a turn at least.
THEOREM PausesCanBeAnswered == Spec => []PauseIsAnswerable
<1>1. IInv => PauseIsAnswerable
  BY DEF IInv
<1> QED BY <1>1, InitOK, StepOK, PTL DEF Spec

\* Whatever the auditor and the reviewer answer, and however often code was sent back, it
\* is handed on as passed only if that very project was judged by all three.
THEOREM OnlyJudgedPasses == Spec => PassedIsJudged
<1>1. IInv /\ [Next]_vars =>
          [Persist /\ job'.status = "passed"
               => seen.passed = {"gate", "audit", "review"} /\ seen.agreed /\ ~seen.defect]_vars
  <2> SUFFICES ASSUME IInv, Persist, job'.status = "passed"
               PROVE  seen.passed = {"gate", "audit", "review"} /\ seen.agreed /\ ~seen.defect
    OBVIOUS
  <2>1. job \in Job /\ seen.passed \subseteq {"gate", "audit", "review"}
    BY DEF IInv, TypeOK, Seen
  <2>2. job'.status = Verdict
    BY <2>1 DEF Persist, Job
  <2>3. call.report = "passed" /\ call.audit = "pass" /\ call.review = "pass"
    BY <2>2 DEF Verdict
  <2> QED BY <2>1, <2>3 DEF IInv, Judged
<1>2. Spec => []IInv
  BY InitOK, StepOK, PTL DEF Spec
<1> QED BY <1>1, <1>2, PTL DEF Spec, PassedIsJudged

\* An approval is spent by the continuation it pays for, also when that asks for another.
THEOREM ApprovalsAreSpent == Spec => ApprovalSpent
<1>1. IInv /\ [Next]_vars => [Persist /\ seen.continued => job'.answer # "approved"]_vars
  <2> SUFFICES ASSUME IInv, Persist, seen.continued PROVE job'.answer # "approved"
    OBVIOUS
  <2>1. job \in Job /\ call.answer # "approved"
    BY DEF IInv, TypeOK, Spent
  <2> QED BY <2>1 DEF Persist, Job
<1>2. Spec => []IInv
  BY InitOK, StepOK, PTL DEF Spec
<1> QED BY <1>1, <1>2, PTL DEF Spec, ApprovalSpent

\* The pipeline's model of the phase, field by field.
LEMMA ResultOf ==
    ASSUME NEW status, NEW raised \in BOOLEAN
    PROVE  PL!CodegenResult(status, raised) =
               [codegen |-> status,
                request |-> IF raised THEN "pending"
                            ELSE IF job.answer = "approved" THEN "none" ELSE job.request,
                answer |-> IF raised THEN "pending"
                           ELSE IF job.answer = "approved" THEN "none" ELSE job.answer]
<1> DEFINE s == [codegen |-> job.status, request |-> job.request, answer |-> job.answer]
           cleared == [s EXCEPT !.request = "none", !.answer = "none"]
           kept == IF s.answer = "approved" THEN cleared ELSE s
           result(k) == [k EXCEPT !.codegen = status,
                                  !.request = IF raised THEN "pending" ELSE @,
                                  !.answer = IF raised THEN "pending" ELSE @]
<1>1. PL!CodegenResult(status, raised) = result(kept)
  BY DEF PL!CodegenResult
<1>2. s.answer = job.answer /\ s.request = job.request
  OBVIOUS
<1>3. cleared = [codegen |-> job.status, request |-> "none", answer |-> "none"]
  <2>1. cleared \in [codegen : {job.status}, request : {"none"}, answer : {"none"}]
    OBVIOUS
  <2> HIDE DEF cleared
  <2> QED BY <2>1
<1>4. ASSUME NEW c, NEW r, NEW a
      PROVE  result([codegen |-> c, request |-> r, answer |-> a]) =
                 [codegen |-> status, request |-> IF raised THEN "pending" ELSE r,
                  answer |-> IF raised THEN "pending" ELSE a]
  <2> DEFINE k == [codegen |-> c, request |-> r, answer |-> a]
             i == IF raised THEN "pending" ELSE r
             j == IF raised THEN "pending" ELSE a
  <2>1. k \in [codegen : {c}, request : {r}, answer : {a}]
        /\ k.request = r /\ k.answer = a
    OBVIOUS
  <2>2. result(k) = [k EXCEPT !.codegen = status, !.request = i, !.answer = j]
    BY <2>1
  <2> HIDE DEF k, i, j
  <2>3. [k EXCEPT !.codegen = status, !.request = i, !.answer = j]
            \in [codegen : {status}, request : {i}, answer : {j}]
    BY <2>1
  <2>4. \A x \in [codegen : {status}, request : {i}, answer : {j}] :
            x = [codegen |-> status, request |-> i, answer |-> j]
    OBVIOUS
  <2>5. result(k) = [codegen |-> status, request |-> i, answer |-> j]
    BY <2>2, <2>3, <2>4
  <2> QED BY <2>5 DEF i, j, k
<1> HIDE DEF result
<1>5. CASE job.answer = "approved"
  <2>1. kept = [codegen |-> job.status, request |-> "none", answer |-> "none"]
    BY <1>2, <1>3, <1>5
  <2>2. result(kept) = [codegen |-> status, request |-> IF raised THEN "pending" ELSE "none",
                        answer |-> IF raised THEN "pending" ELSE "none"]
    BY <1>4, <2>1
  <2> QED BY <1>1, <1>5, <2>2
<1>6. CASE job.answer # "approved"
  <2>1. kept = s
    BY <1>2, <1>6
  <2>2. result(s) = [codegen |-> status, request |-> IF raised THEN "pending" ELSE job.request,
                     answer |-> IF raised THEN "pending" ELSE job.answer]
    BY <1>4
  <2> QED BY <1>1, <1>6, <2>1, <2>2
<1> QED BY <1>5, <1>6

\* The pipeline's model of the phase is the abstract specification of what a call returns.
THEOREM PipelineIsAnswered == Spec => AnswersThePipeline
<1> DEFINE Answered ==
        \E raised \in BOOLEAN, status \in {"passed", "failed", "needs_user_input"} :
            /\ status = "needs_user_input" => raised
            /\ [codegen |-> job'.status, request |-> job'.request, answer |-> job'.answer]
                   = PL!CodegenResult(status, raised)
<1>1. IInv /\ [Next]_vars => [Persist => Answered]_vars
  <2> SUFFICES ASSUME IInv, Persist PROVE Answered
    OBVIOUS
  <2>1. job \in Job /\ Given /\ call.answer # "approved"
    BY DEF IInv, TypeOK, Kept, Persist
  <2>2. Verdict \in {"passed", "failed", "needs_user_input"}
        /\ (Verdict = "needs_user_input" <=> Raised)
    BY DEF Verdict
  <2>3. CASE Raised
    <3>1. job'.status = Verdict /\ job'.request = "pending" /\ job'.answer = "pending"
      BY <2>1, <2>3 DEF Persist, Job
    <3>2. [codegen |-> job'.status, request |-> job'.request, answer |-> job'.answer]
              = PL!CodegenResult(Verdict, TRUE)
      BY <3>1, ResultOf
    <3> QED BY <2>2, <3>2
  <2>4. CASE ~Raised
    <3>1. job'.status = Verdict /\ job'.request = call.request /\ job'.answer = call.answer
      BY <2>1, <2>4 DEF Persist, Job
    <3>2. CASE call.request = "pending" /\ call.answer = "pending"
      <4>1. [codegen |-> job'.status, request |-> job'.request, answer |-> job'.answer]
                = PL!CodegenResult(Verdict, TRUE)
        BY <3>1, <3>2, ResultOf
      <4> QED BY <2>2, <4>1
    <3>3. CASE \/ job.answer = "approved" /\ call.request = "none" /\ call.answer = "none"
               \/ call.request = job.request /\ call.answer = job.answer
      <4>1. [codegen |-> job'.status, request |-> job'.request, answer |-> job'.answer]
                = PL!CodegenResult(Verdict, FALSE)
        BY <2>1, <3>1, <3>3, ResultOf
      <4> QED BY <2>2, <2>4, <4>1
    <3> QED BY <2>1, <3>2, <3>3 DEF Given
  <2> QED BY <2>3, <2>4
<1>2. Spec => []IInv
  BY InitOK, StepOK, PTL DEF Spec
<1>3. AnswersThePipeline <=> [][Persist => Answered]_vars
  BY DEF AnswersThePipeline
<1> HIDE DEF Answered
<1> QED BY <1>1, <1>2, <1>3, PTL DEF Spec

-------------------------------------------------------------------------------
(* What the agent is told.                                                        *)

\* The newest rejection comes first, and what it replaced is remembered.
Remembered ==
    node # "idle" =>
        /\ seen.last # "none" => call.told = seen.last
        /\ seen.rejections \subseteq call.history \cup {call.told}
        /\ call.told = "none" => call.history = {} /\ seen.rejections = {}
        /\ Complaint(job) = "gates" => "gates" \in call.history \cup {call.told}

LEMMA RememberedInit == Init => Remembered
BY DEF Init, Remembered, NoCall, NewCall, NewJob, Complaint, NothingSeen

\* A step that rejects nothing and does not end the call.
LEMMA NothingForgotten ==
    ASSUME Remembered, node # "idle", call'.told = call.told, call'.history = call.history,
           seen'.last = seen.last, seen'.rejections = seen.rejections,
           Complaint(job)' = Complaint(job)
    PROVE  Remembered'
BY DEF Remembered

LEMMA RejectionRemembered ==
    ASSUME Remembered, node # "idle", NEW by \in {"audit", "review"},
           call'.told = by,
           call'.history = (IF call.told = "none" THEN call.history
                            ELSE call.history \cup {call.told}),
           seen'.last = by, seen'.rejections = seen.rejections \cup {by},
           Complaint(job)' = Complaint(job)
    PROVE  Remembered'
BY DEF Remembered

LEMMA RememberedStep == IInv /\ Remembered /\ [Next]_vars => Remembered'
<1> SUFFICES ASSUME IInv, Remembered, [Next]_vars PROVE Remembered'
  OBVIOUS
<1> USE DEF At
<1>t. /\ job \in Job /\ call \in Call /\ seen \in Seen /\ TypeOK
  BY DEF IInv, TypeOK
<1>1. CASE Generate
  <2>1. /\ call'.told = Complaint(job) /\ call'.history = {} /\ seen'.last = "none"
        /\ seen'.rejections = {} /\ job' = job
    BY <1>1 DEF Generate, NewCall, NothingSeen
  <2>2. Complaint(job)' = Complaint(job)
    BY <2>1 DEF Complaint
  <2> QED BY <2>1, <2>2 DEF Remembered
<1>2. CASE LoadModelIr \/ Plan \/ AuditBlocked
  <2>1. /\ node # "idle" /\ job' = job /\ seen' = seen
    BY <1>2 DEF LoadModelIr, Plan, AuditBlocked
  <2>2. call'.told = call.told /\ call'.history = call.history
    BY <1>t, <1>2 DEF LoadModelIr, Plan, AuditBlocked, Takes, Call
  <2>3. Complaint(job)' = Complaint(job)
    BY <2>1 DEF Complaint
  <2> QED BY <2>1, <2>2, <2>3, NothingForgotten
<1>3. CASE ProjectAgent \/ ContinueRepair
  <2>1. node # "idle" /\ job' = job
    BY <1>3 DEF ProjectAgent, ContinueRepair
  <2>2. PICK c \in {call, [call EXCEPT !.request = "none", !.answer = "none", !.total = 0]} :
            AgentRun(c)
    BY <1>3 DEF ProjectAgent, ContinueRepair
  <2> DEFINE d == [call EXCEPT !.request = "none", !.answer = "none", !.total = 0]
  <2>a. d \in Call /\ d.told = call.told /\ d.history = call.history
    BY <1>t DEF Call
  <2>b. c = call \/ c = d
    BY <2>2
  <2> HIDE DEF d
  <2>3. c \in Call /\ c.told = call.told /\ c.history = call.history
    BY <1>t, <2>a, <2>b
  <2>4. PICK result \in {"passed", "failed", "exhausted"}, used \in {0, 1, Budget} :
            /\ Takes(1, [c EXCEPT !.report = result, !.turns = used,
                                 !.audit = "none", !.review = "none"])
            /\ seen' = [seen EXCEPT !.exhausted = @ \/ (result = "exhausted"),
                                    !.passed = IF result = "passed" THEN {"gate"} ELSE {},
                                    !.agreed = FALSE, !.defect = FALSE, !.shown = NothingShown,
                                    !.continued = @ \/ (node = "continue")]
    BY <2>2 DEF AgentRun
  <2>5. call'.told = c.told /\ call'.history = c.history
    BY <2>3, <2>4 DEF Takes, Call
  <2>6. seen'.last = seen.last /\ seen'.rejections = seen.rejections
    BY <1>t, <2>4 DEF Seen
  <2>7. Complaint(job)' = Complaint(job)
    BY <2>1 DEF Complaint
  <2> QED BY <2>1, <2>3, <2>5, <2>6, <2>7, NothingForgotten
<1>4. CASE AuditPasses
  <2>1. node # "idle" /\ job' = [job EXCEPT !.audited = TRUE]
    BY <1>4 DEF AuditPasses
  <2>2. call'.told = call.told /\ call'.history = call.history
    BY <1>t, <1>4 DEF AuditPasses, Takes, Call
  <2>3. seen'.last = seen.last /\ seen'.rejections = seen.rejections
    BY <1>t, <1>4 DEF AuditPasses, Seen
  <2>4. Complaint(job)' = Complaint(job)
    BY <1>t, <2>1 DEF Complaint, Job
  <2> QED BY <2>1, <2>2, <2>3, <2>4, NothingForgotten
<1>5. CASE AuditFails
  <2> DEFINE b == [call EXCEPT !.audit = "fail", !.audits = @ + 1]
  <2>1. /\ node # "idle" /\ job' = [job EXCEPT !.audited = TRUE]
        /\ Takes(1, Rejected(b, "audit")) /\ seen' = Rejects("audit")
    BY <1>5 DEF AuditFails
  <2>2. b.told = call.told /\ b.history = call.history /\ "told" \in DOMAIN b
        /\ "history" \in DOMAIN b
    BY <1>t DEF Call
  <2> HIDE DEF b
  <2>3. /\ call'.told = "audit"
        /\ call'.history = IF call.told = "none" THEN call.history
                           ELSE call.history \cup {call.told}
    BY <2>1, <2>2 DEF Takes, Rejected
  <2>4. seen'.last = "audit" /\ seen'.rejections = seen.rejections \cup {"audit"}
    BY <1>t, <2>1 DEF Rejects, Seen
  <2>5. Complaint(job)' = Complaint(job)
    BY <1>t, <2>1 DEF Complaint, Job
  <2> QED BY <2>1, <2>3, <2>4, <2>5, RejectionRemembered
<1>6. CASE ReviewPasses
  <2>1. node # "idle" /\ job' = job
    BY <1>6 DEF ReviewPasses
  <2>2. call'.told = call.told /\ call'.history = call.history
    BY <1>t, <1>6 DEF ReviewPasses, Takes, Call
  <2>3. seen'.last = seen.last /\ seen'.rejections = seen.rejections
    BY <1>t, <1>6 DEF ReviewPasses, Seen
  <2>4. Complaint(job)' = Complaint(job)
    BY <2>1 DEF Complaint
  <2> QED BY <2>1, <2>2, <2>3, <2>4, NothingForgotten
<1>7. CASE ReviewFails
  <2>1. node # "idle" /\ job' = job
    BY <1>7 DEF ReviewFails
  <2>2. PICK review \in Reviews, prompt \in Prompts :
            /\ Takes(1, Rejected([call EXCEPT !.review = review.verdict, !.reviews = @ + 1],
                                 "review"))
            /\ seen' = [Rejects("review") EXCEPT !.defect = review.defect, !.shown = prompt]
    BY <1>7 DEF ReviewFails
  <2> DEFINE b == [call EXCEPT !.review = review.verdict, !.reviews = @ + 1]
  <2>3. b.told = call.told /\ b.history = call.history /\ "told" \in DOMAIN b
        /\ "history" \in DOMAIN b
    BY <1>t DEF Call
  <2>4. Takes(1, Rejected(b, "review"))
    BY <2>2
  <2> HIDE DEF b
  <2>5. /\ call'.told = "review"
        /\ call'.history = IF call.told = "none" THEN call.history
                           ELSE call.history \cup {call.told}
    BY <2>3, <2>4 DEF Takes, Rejected
  <2>6. seen'.last = "review" /\ seen'.rejections = seen.rejections \cup {"review"}
    BY <1>t, <2>2 DEF Rejects, Seen
  <2>7. Complaint(job)' = Complaint(job)
    BY <2>1 DEF Complaint
  <2> QED BY <2>1, <2>5, <2>6, <2>7, RejectionRemembered
<1>8. CASE Persist \/ RecursionError \/ NodeRaises
  <2>1. node' = "idle"
    BY <1>8 DEF Persist, RecursionError, NodeRaises
  <2> QED BY <2>1 DEF Remembered
<1>9. CASE Approve \/ Reject \/ PatchRejected \/ Gated
  <2>1. node' = "idle"
    BY <1>9 DEF Approve, Reject, PatchRejected, Gated
  <2> QED BY <2>1 DEF Remembered
<1>10. CASE UNCHANGED vars
  BY <1>10 DEF vars, Remembered, Complaint
<1> QED BY <1>1, <1>2, <1>3, <1>4, <1>5, <1>6, <1>7, <1>8, <1>9, <1>10 DEF Next, Running

\* What a call rejects, and the failed gates before it, the agent is told when it runs
\* again (_merge_runtime_failure_context, _make_g4_codegen_subgraph_node).
THEOREM AgentKnowsWhy == Spec => AgentIsToldWhy
<1> DEFINE Knows ==
        /\ seen.last # "none" => Told = seen.last
        /\ seen.rejections \subseteq call.history \cup {Told}
        /\ job.gates = "failed" /\ job.complaint = "none" =>
              "gates" \in call.history \cup {Told}
        /\ node = "continue" /\ job.audited => Told # "none"
<1>1. IInv /\ Remembered /\ [Next]_vars =>
          (ProjectAgent \/ ContinueRepair => Knows)
  <2> SUFFICES ASSUME IInv, Remembered, ProjectAgent \/ ContinueRepair PROVE Knows
    OBVIOUS
  <2>1. node # "idle" /\ seen.last \in {"none", "audit", "review"}
    BY DEF ProjectAgent, ContinueRepair, At, IInv, TypeOK, Seen
  <2> QED BY <2>1 DEF Remembered, Told, Complaint
<1>2. Spec => [](IInv /\ Remembered)
  <2>1. Init => IInv /\ Remembered
    BY InitOK, RememberedInit
  <2>2. IInv /\ Remembered /\ [Next]_vars => (IInv /\ Remembered)'
    BY StepOK, RememberedStep
  <2> QED BY <2>1, <2>2, PTL DEF Spec
<1>3. AgentIsToldWhy <=> [][ProjectAgent \/ ContinueRepair => Knows]_vars
  BY DEF AgentIsToldWhy
<1> HIDE DEF Knows
<1> QED BY <1>1, <1>2, <1>3, PTL DEF Spec

-------------------------------------------------------------------------------
(* The recursion limit.                                                           *)

\* A call that sends everything back as often as it may: load, the planning chain, a run
\* with its audit for each failed audit, one with its review too for each failed review,
\* a last run with both, and persist.
LongestCall == 5 * RouteLimit + 6

\* How many nodes a call has run, by what it has counted.  The agent runs again only for a
\* counted rejection as long as no run was out of turns.
Counts ==
    node # "idle" =>
        /\ call.report = "exhausted" => seen.exhausted
        /\ ~seen.exhausted =>
              /\ node \in {"load", "plan", "continue"} =>
                    /\ call.audits = 0 /\ call.reviews = 0
                    /\ call.steps = IF node = "load" THEN 0 ELSE 1
              /\ node \in {"agent", "audit", "review"} =>
                    call.audits < RouteLimit /\ call.reviews < RouteLimit
              /\ node = "agent" => call.steps <= 7 + 2 * call.audits + 3 * call.reviews
              /\ node = "audit" => call.steps <= 8 + 2 * call.audits + 3 * call.reviews
              /\ node = "review" => call.steps <= 9 + 2 * call.audits + 3 * call.reviews
              /\ node = "persist" => call.steps <= 5 * RouteLimit + 5

LEMMA CountsInit == Init => Counts
BY DEF Init, Counts

\* What a judging node takes and counts.
LEMMA Counted ==
    ASSUME TypeOK, NEW c \in Call, Takes(1, c)
    PROVE  /\ call'.steps = call.steps + 1
           /\ call'.audits = c.audits /\ call'.reviews = c.reviews
           /\ call'.report = c.report /\ call'.audit = c.audit
BY DEF Takes, Call

LEMMA CountsStep == TypeOK /\ Counts /\ [Next]_vars => Counts'
<1> SUFFICES ASSUME TypeOK, Counts, [Next]_vars PROVE Counts'
  OBVIOUS
<1> USE DEF At
<1>t. /\ call \in Call /\ seen \in Seen
      /\ call.audits \in Nat /\ call.reviews \in Nat /\ call.steps \in Nat
      /\ RouteLimit \in Nat /\ RouteLimit >= 1
  BY BudgetAssumption DEF TypeOK, Call
<1>b. seen.exhausted \in BOOLEAN
  BY <1>t DEF Seen
<1>1. CASE Generate
  BY <1>1 DEF Generate, NewCall, Counts
<1>2. CASE LoadModelIr
  <2>1. /\ node = "load" /\ node' \in {"continue", "plan"} /\ seen' = seen /\ Takes(1, call)
    BY <1>2 DEF LoadModelIr
  <2> QED BY <1>t, <2>1, Counted DEF Counts
<1>3. CASE Plan
  <2>1. node = "plan" /\ node' = "agent" /\ seen' = seen
    BY <1>3 DEF Plan
  <2>2. /\ call'.steps = call.steps + 6 /\ call'.audits = call.audits
        /\ call'.reviews = call.reviews /\ call'.report = call.report
    BY <1>t, <1>3 DEF Plan, PlanningNodes, Takes, Call
  <2>3. ~seen.exhausted =>
            call.steps = 1 /\ call.audits = 0 /\ call.reviews = 0 /\ call.report # "exhausted"
    BY <2>1 DEF Counts
  <2>4. ~seen'.exhausted =>
            /\ call'.steps <= 7 + 2 * call'.audits + 3 * call'.reviews
            /\ call'.audits < RouteLimit /\ call'.reviews < RouteLimit
    BY <1>t, <2>1, <2>2, <2>3
  <2>5. call'.report = "exhausted" => seen'.exhausted
    BY <2>1, <2>2 DEF Counts
  <2> QED BY <2>1, <2>4, <2>5 DEF Counts
<1>4. CASE ProjectAgent
  <2>1. node = "agent" /\ node' = "audit" /\ AgentRun(call)
    BY <1>4 DEF ProjectAgent
  <2>2. /\ call'.steps = call.steps + 1 /\ call'.audits = call.audits
        /\ call'.reviews = call.reviews
        /\ seen'.exhausted = (seen.exhausted \/ call'.report = "exhausted")
    BY <1>t, <2>1, Runs
  <2>3. ~seen.exhausted =>
            /\ call.audits < RouteLimit /\ call.reviews < RouteLimit
            /\ call.steps <= 7 + 2 * call.audits + 3 * call.reviews
    BY <2>1 DEF Counts
  <2>4. ~seen'.exhausted =>
            /\ call'.steps <= 8 + 2 * call'.audits + 3 * call'.reviews
            /\ call'.audits < RouteLimit /\ call'.reviews < RouteLimit
    BY <1>t, <1>b, <2>2, <2>3
  <2> QED BY <1>b, <2>1, <2>2, <2>4 DEF Counts
<1>5. CASE ContinueRepair
  <2> DEFINE c == [call EXCEPT !.request = "none", !.answer = "none", !.total = 0]
  <2>1. node = "continue" /\ node' \in {"audit", "persist"} /\ AgentRun(c)
    BY <1>5 DEF ContinueRepair
  <2>2. c \in Call /\ c.audits = call.audits /\ c.reviews = call.reviews
    BY <1>t DEF Call
  <2> HIDE DEF c
  <2>3. /\ call'.steps = call.steps + 1 /\ call'.audits = call.audits
        /\ call'.reviews = call.reviews
        /\ seen'.exhausted = (seen.exhausted \/ call'.report = "exhausted")
    BY <1>t, <2>1, <2>2, Runs
  <2>4. ~seen.exhausted => call.steps = 1 /\ call.audits = 0 /\ call.reviews = 0
    BY <2>1 DEF Counts
  <2>5. ~seen'.exhausted =>
            /\ call'.steps = 2 /\ call'.audits = 0 /\ call'.reviews = 0
            /\ call'.audits < RouteLimit /\ call'.reviews < RouteLimit
            /\ call'.steps <= 5 * RouteLimit + 5
    BY <1>t, <1>b, <2>3, <2>4
  <2>6. call'.report = "exhausted" => seen'.exhausted
    BY <2>3
  <2> QED BY <2>1, <2>5, <2>6 DEF Counts
<1>6. CASE AuditBlocked
  <2> DEFINE c == [call EXCEPT !.audit = "blocked", !.request = "pending",
                               !.answer = "pending", !.total = call.turns + Increment]
  <2>1. /\ node = "audit" /\ node' \in {"review", "agent", "persist"} /\ seen' = seen
        /\ call.report = "exhausted" /\ Takes(1, c)
    BY <1>6 DEF AuditBlocked, AfterAudit
  <2>2. seen.exhausted
    BY <2>1 DEF Counts
  <2> QED BY <2>1, <2>2 DEF Counts
<1>7. CASE AuditPasses
  <2> DEFINE c == [call EXCEPT !.audit = "pass"]
  <2>1. node = "audit" /\ node' = AfterAudit(call') /\ Takes(1, c)
    BY <1>7 DEF AuditPasses
  <2>2. seen'.exhausted = seen.exhausted
    BY <1>t, <1>7 DEF AuditPasses, Seen
  <2>3. /\ c \in Call /\ c.audit = "pass" /\ c.report = call.report
        /\ c.audits = call.audits /\ c.reviews = call.reviews
    BY <1>t DEF Call
  <2> HIDE DEF c
  <2>4. /\ call'.steps = call.steps + 1 /\ call'.audits = call.audits
        /\ call'.reviews = call.reviews /\ call'.report = call.report
        /\ node' = "review"
    BY <2>1, <2>3, Counted DEF AfterAudit
  <2> QED BY <1>t, <2>1, <2>2, <2>4 DEF Counts
<1>8. CASE AuditFails
  <2> DEFINE c == [call EXCEPT !.audit = "fail", !.audits = @ + 1]
             d == Rejected(c, "audit")
  <2>1. /\ node = "audit" /\ node' = AfterAudit(call') /\ Takes(1, d)
        /\ seen' = Rejects("audit")
    BY <1>8 DEF AuditFails
  <2>2. /\ c \in Call /\ c.audit = "fail" /\ c.report = call.report
        /\ c.audits = call.audits + 1 /\ c.reviews = call.reviews
    <3>1. call.audits + 1 \in Nat
      BY <1>t
    <3> QED BY <1>t, <3>1 DEF Call
  <2> HIDE DEF c
  <2>3. /\ d \in Call /\ d.audit = "fail" /\ d.report = call.report
        /\ d.audits = call.audits + 1 /\ d.reviews = call.reviews
    <3>1. d \in Call
      BY <2>2, Rejections DEF Complaints
    <3> QED BY <2>2, <3>1 DEF Rejected, Call
  <2> HIDE DEF d
  <2>4. /\ call'.steps = call.steps + 1 /\ call'.audits = call.audits + 1
        /\ call'.reviews = call.reviews /\ call'.report = call.report
        /\ node' = IF call.audits + 1 < RouteLimit THEN "agent" ELSE "persist"
    BY <2>1, <2>3, Counted DEF AfterAudit
  <2>5. seen'.exhausted = seen.exhausted
    BY <1>t, <2>1 DEF Rejects, Seen
  <2> QED BY <1>t, <2>1, <2>4, <2>5 DEF Counts
<1>9. CASE ReviewPasses
  <2>1. /\ node = "review" /\ node' = "persist" /\ Takes(1, [call EXCEPT !.review = "pass"])
    BY <1>9 DEF ReviewPasses
  <2>2. seen'.exhausted = seen.exhausted
    BY <1>t, <1>9 DEF ReviewPasses, Seen
  <2>3. call'.steps = call.steps + 1 /\ call'.report = call.report
    BY <1>t, <2>1 DEF Takes, Call
  <2> QED BY <1>t, <2>1, <2>2, <2>3 DEF Counts
<1>10. CASE ReviewFails
  <2>1. PICK review \in Reviews, prompt \in Prompts :
            /\ Takes(1, Rejected([call EXCEPT !.review = review.verdict, !.reviews = @ + 1],
                                 "review"))
            /\ node' = IF review.verdict = "revise" /\ call'.reviews < RouteLimit
                       THEN "agent" ELSE "persist"
            /\ seen' = [Rejects("review") EXCEPT !.defect = review.defect, !.shown = prompt]
    BY <1>10 DEF ReviewFails
  <2> DEFINE c == [call EXCEPT !.review = review.verdict, !.reviews = @ + 1]
             d == Rejected(c, "review")
  <2>2. Takes(1, d) /\ node = "review"
    BY <1>10, <2>1 DEF ReviewFails
  <2>3. /\ c \in Call /\ c.report = call.report
        /\ c.audits = call.audits /\ c.reviews = call.reviews + 1
    <3>1. call.reviews + 1 \in Nat /\ review.verdict \in {"pass", "revise", "needs_user_input"}
      BY <1>t, PassedReviewsName
    <3> QED BY <1>t, <3>1 DEF Call
  <2> HIDE DEF c
  <2>4. /\ d \in Call /\ d.report = call.report
        /\ d.audits = call.audits /\ d.reviews = call.reviews + 1
    <3>1. d \in Call
      BY <2>3, Rejections DEF Complaints
    <3> QED BY <2>3, <3>1 DEF Rejected, Call
  <2> HIDE DEF d
  <2>5. /\ call'.steps = call.steps + 1 /\ call'.audits = call.audits
        /\ call'.reviews = call.reviews + 1 /\ call'.report = call.report
    BY <2>2, <2>4, Counted
  <2>6. node' = "persist" \/ (node' = "agent" /\ call.reviews + 1 < RouteLimit)
    BY <2>1, <2>5
  <2>7. seen'.exhausted = seen.exhausted
    BY <1>t, <2>1 DEF Rejects, Seen
  <2> QED BY <1>t, <2>2, <2>5, <2>6, <2>7 DEF Counts
<1>11. CASE \/ Persist \/ RecursionError \/ NodeRaises
            \/ Approve \/ Reject \/ PatchRejected \/ Gated
  <2>1. node' = "idle"
    BY <1>11 DEF Persist, RecursionError, NodeRaises, Approve, Reject, PatchRejected, Gated
  <2> QED BY <2>1 DEF Counts
<1>12. CASE UNCHANGED vars
  BY <1>12 DEF vars, Counts
<1> QED BY <1>1, <1>2, <1>3, <1>4, <1>5, <1>6, <1>7, <1>8, <1>9, <1>10, <1>11, <1>12
        DEF Next, Running

\* For any route limit whose longest call fits the recursion limit (16 nodes of 25 with
\* AUDIT_REPAIR_ROUTE_LIMIT = 2): the phase is lost to the recursion limit only in a call
\* whose agent ran out of turns.
THEOREM RepairsFitTheLimit ==
    LongestCall <= RecursionLimit => (Spec => []LimitOnlyIfExhausted)
<1> SUFFICES ASSUME LongestCall <= RecursionLimit PROVE Spec => []LimitOnlyIfExhausted
  OBVIOUS
<1>1. TypeOK /\ Counts => LimitOnlyIfExhausted
  <2> SUFFICES ASSUME TypeOK, Counts, node # "idle", ~seen.exhausted,
                      call.steps + NodeCost > RecursionLimit
               PROVE  FALSE
    BY DEF LimitOnlyIfExhausted
  <2>1. /\ call.audits \in Nat /\ call.reviews \in Nat /\ call.steps \in Nat
        /\ RouteLimit \in Nat /\ RouteLimit >= 1 /\ RecursionLimit \in Nat
        /\ 5 * RouteLimit + 6 <= RecursionLimit
    BY BudgetAssumption DEF TypeOK, Call, LongestCall
  <2>2. CASE node \in {"load", "plan", "continue"}
    <3>1. call.steps + NodeCost <= 7
      BY <2>1, <2>2 DEF Counts, NodeCost, PlanningNodes
    <3> QED BY <2>1, <3>1 DEF NodeCost, PlanningNodes
  <2>3. CASE node \in {"agent", "audit", "review", "persist"}
    <3>1. NodeCost = 1
      BY <2>3 DEF NodeCost
    <3>2. call.steps + 1 <= 5 * RouteLimit + 6
      BY <2>1, <2>3 DEF Counts
    <3> QED BY <2>1, <3>1, <3>2
  <2> QED BY <2>2, <2>3 DEF TypeOK, Nodes
<1>2. Spec => [](IInv /\ Counts)
  <2>1. Init => IInv /\ Counts
    BY InitOK, CountsInit
  <2>2. IInv /\ Counts /\ [Next]_vars => (IInv /\ Counts)'
    BY StepOK, CountsStep DEF IInv
  <2> QED BY <2>1, <2>2, PTL DEF Spec
<1>3. IInv /\ Counts => LimitOnlyIfExhausted
  BY <1>1 DEF IInv
<1> QED BY <1>2, <1>3, PTL

-------------------------------------------------------------------------------
(* What is done step by step: a recursive function exists, so its equations hold.   *)

LEMMA LeastOf ==
    ASSUME NEW S, S \subseteq Nat, S # {}
    PROVE  \E x \in S : \A y \in S : x <= y
<1>1. PICK x \in S : \A y \in S : ~(<<y, x>> \in OpToRel(<, Nat))
  BY WFMin, NatLessThanWellFounded
<1>2. \A y \in S : ~(y < x)
  BY <1>1 DEF OpToRel
<1> QED BY <1>2

\* What a pass does at the k-th component; a sweep of "contain" is a whole pass.
Repair(kind, parts, k) ==
    CASE kind = "frames" -> ToMotherFrame(parts, k)
      [] kind = "siblings" -> MoveBehindSiblings(parts, k)
      [] kind = "mothers" -> ExpandMotherOf(parts, k)
      [] kind = "contain" -> ExpandMothers(parts)

\* The k-th step of a pass, of a sum of sizes, of an excerpt, or of all excerpts.
Advance(kind, with, x, k) ==
    CASE kind = "sum" -> x + with[k]
      [] kind = "windows" -> TakeWindow(with[1], with[2], x)
      [] kind = "files" -> TakeFile(x)
      [] kind \in {"frames", "siblings", "mothers", "contain"} -> Repair(kind, x, k)

Stepwise(kind, with, x, n, f) ==
    /\ f = [k \in 0..n |-> f[k]]
    /\ \A k \in 0..n : f[k] = IF k = 0 THEN x ELSE Advance(kind, with, f[k - 1], k)

LEMMA StepsExist ==
    ASSUME NEW kind, NEW with, NEW x, NEW n \in Nat
    PROVE  \E f : Stepwise(kind, with, x, n, f)
<1> DEFINE Missing == {m \in Nat : ~\E f : Stepwise(kind, with, x, m, f)}
<1>1. 0 \notin Missing
  <2>1. Stepwise(kind, with, x, 0, [k \in 0..0 |-> x])
    BY DEF Stepwise
  <2> QED BY <2>1
<1>2. ASSUME NEW m \in Nat, m \notin Missing PROVE m + 1 \notin Missing
  <2>1. PICK f : Stepwise(kind, with, x, m, f)
    BY <1>2
  <2> DEFINE g == [k \in 0..(m + 1) |-> IF k \in 0..m THEN f[k]
                                         ELSE Advance(kind, with, f[m], m + 1)]
  <2>2. ASSUME NEW k \in 0..(m + 1)
        PROVE  g[k] = IF k = 0 THEN x ELSE Advance(kind, with, g[k - 1], k)
    <3>1. CASE k = 0
      <4>1. 0 \in 0..m /\ k \in 0..m
        BY <3>1
      <4>2. g[k] = f[k] /\ f[k] = x
        BY <2>1, <3>1, <4>1 DEF Stepwise
      <4> QED BY <3>1, <4>2
    <3>2. CASE k \in 1..m
      <4>1. k \in 0..m /\ k - 1 \in 0..m /\ k # 0 /\ k - 1 \in 0..(m + 1)
        BY <3>2
      <4> QED BY <2>1, <4>1 DEF Stepwise
    <3>3. CASE k = m + 1
      <4>1. k \notin 0..m /\ k # 0 /\ k - 1 = m /\ m \in 0..m /\ m \in 0..(m + 1)
        BY <3>3
      <4>2. g[k] = Advance(kind, with, f[m], m + 1) /\ g[k - 1] = f[m]
        BY <4>1
      <4> QED BY <3>3, <4>1, <4>2
    <3> QED BY <3>1, <3>2, <3>3
  <2>3. g = [k \in 0..(m + 1) |-> g[k]]
    OBVIOUS
  <2>4. Stepwise(kind, with, x, m + 1, g)
    BY <2>2, <2>3 DEF Stepwise
  <2> QED BY <2>4
<1>3. Missing = {}
  <2> SUFFICES ASSUME Missing # {} PROVE FALSE
    OBVIOUS
  <2>1. PICK m \in Missing : \A j \in Missing : m <= j
    BY LeastOf
  <2>2. m \in Nat /\ m # 0 /\ m - 1 \in Nat /\ m - 1 \notin Missing /\ (m - 1) + 1 = m
    BY <1>1, <2>1
  <2> QED BY <1>2, <2>1, <2>2
<1> QED BY <1>3


-------------------------------------------------------------------------------
(* What the reviewer is shown.                                                     *)

LEMMA LeastIs ==
    ASSUME NEW a \in Int, NEW b \in Int
    PROVE  /\ Min({a, b}) = IF a <= b THEN a ELSE b
           /\ Max({a, b}) = IF a <= b THEN b ELSE a
  BY DEF Min, Max

LEMMA SizesAre == ASSUME NEW s \in Seq(Nat), NEW k \in 1..Len(s) PROVE s[k] \in Nat
  OBVIOUS

\* The sums of the first sizes.
LEMMA SumUnfolds ==
    ASSUME NEW s \in Seq(Nat)
    PROVE  \E u : /\ Stepwise("sum", s, 0, Len(s), u)
                  /\ Sum(s) = u[Len(s)]
                  /\ u[0] = 0
                  /\ \A k \in 1..Len(s) : u[k] = u[k - 1] + s[k]
<1> DEFINE n == Len(s)
           Is(f) == f = [k \in 0..n |-> IF k = 0 THEN 0 ELSE f[k - 1] + s[k]]
           upTo == CHOOSE f : Is(f)
<1>1. Sum(s) = upTo[n]
  BY DEF Sum
<1>2. ASSUME NEW f PROVE Stepwise("sum", s, 0, n, f) <=> Is(f)
  BY DEF Stepwise, Advance
<1>3. n \in Nat
  OBVIOUS
<1>4. \E f : Is(f)
  BY <1>2, <1>3, StepsExist
<1>5. Is(upTo)
  BY <1>4
<1>6. /\ upTo[0] = 0
      /\ \A k \in 1..n : upTo[k] = upTo[k - 1] + s[k]
  <2> HIDE DEF upTo, n
  <2> QED BY <1>3, <1>5
<1> QED BY <1>1, <1>2, <1>5, <1>6

LEMMA SumsAreNat ==
    ASSUME NEW s \in Seq(Nat), NEW u, u[0] = 0,
           \A k \in 1..Len(s) : u[k] = u[k - 1] + s[k]
    PROVE  \A k \in 0..Len(s) : u[k] \in Nat
<1> DEFINE Wrong == {k \in 0..Len(s) : u[k] \notin Nat}
<1> SUFFICES ASSUME Wrong # {} PROVE FALSE
  OBVIOUS
<1>1. Len(s) \in Nat /\ Wrong \subseteq Nat
  OBVIOUS
<1>2. PICK k \in Wrong : \A j \in Wrong : k <= j
  <2> HIDE DEF Wrong
  <2> QED BY <1>1, LeastOf
<1>3. k \in 1..Len(s) /\ k - 1 \in 0..Len(s) /\ k - 1 \notin Wrong
  BY <1>1, <1>2
<1>4. u[k - 1] \in Nat /\ s[k] \in Nat /\ u[k] = u[k - 1] + s[k]
  BY <1>3
<1> QED BY <1>2, <1>4

\* Larger sizes have a larger sum, over the indices that both have.
LEMMA SumsGrow ==
    ASSUME NEW s \in Seq(Nat), NEW t \in Seq(Nat), NEW u, NEW v, NEW n \in Nat,
           n <= Len(s), n <= Len(t),
           u[0] = 0, \A k \in 1..Len(s) : u[k] = u[k - 1] + s[k],
           v[0] = 0, \A k \in 1..Len(t) : v[k] = v[k - 1] + t[k],
           \A k \in 1..n : s[k] <= t[k]
    PROVE  u[n] <= v[n]
<1> DEFINE Wrong == {k \in 0..n : ~(u[k] <= v[k])}
<1>1. n \in 0..n /\ Wrong \subseteq Nat
  OBVIOUS
<1>2. ASSUME Wrong # {} PROVE FALSE
  <2>1. PICK k \in Wrong : \A j \in Wrong : k <= j
    <3> HIDE DEF Wrong
    <3> QED BY <1>1, <1>2, LeastOf
  <2>2. k \in 1..n /\ k - 1 \in 0..n /\ k - 1 \notin Wrong
    BY <2>1
  <2>3. k \in 1..Len(s) /\ k \in 1..Len(t) /\ k - 1 \in 0..Len(s) /\ k - 1 \in 0..Len(t)
    BY <2>2
  <2>4. u[k - 1] \in Nat /\ v[k - 1] \in Nat
    BY <2>3, SumsAreNat
  <2>5. s[k] \in Nat /\ t[k] \in Nat /\ s[k] <= t[k]
    <3>1. s[k] \in Nat /\ t[k] \in Nat
      BY <2>3, SizesAre
    <3> QED BY <2>2, <3>1
  <2>6. u[k] = u[k - 1] + s[k] /\ v[k] = v[k - 1] + t[k] /\ u[k - 1] <= v[k - 1]
    BY <2>2, <2>3
  <2>7. u[k - 1] + s[k] <= v[k - 1] + t[k]
    <3>1. \A a, b, c, d \in Nat : a <= b /\ c <= d => a + c <= b + d
      OBVIOUS
    <3> QED BY <2>4, <2>5, <2>6, <3>1
  <2> QED BY <2>1, <2>6, <2>7
<1> QED BY <1>1, <1>2

LEMMA Sums ==
    /\ Sum(<<>>) = 0
    /\ \A s \in Seq(Nat) : Sum(s) \in Nat
    /\ \A s \in Seq(Nat), e \in Nat : Sum(Append(s, e)) = Sum(s) + e
    /\ \A s, t \in Seq(Nat) :
          Len(s) = Len(t) /\ (\A k \in 1..Len(s) : s[k] <= t[k]) => Sum(s) <= Sum(t)
<1>1. Sum(<<>>) = 0
  <2>1. <<>> \in Seq(Nat) /\ Len(<<>>) = 0
    OBVIOUS
  <2> QED BY <2>1, SumUnfolds
<1>2. ASSUME NEW s \in Seq(Nat) PROVE Sum(s) \in Nat
  <2>1. Len(s) \in 0..Len(s)
    OBVIOUS
  <2> QED BY <2>1, SumUnfolds, SumsAreNat
<1>3. ASSUME NEW s \in Seq(Nat), NEW e \in Nat PROVE Sum(Append(s, e)) = Sum(s) + e
  <2> DEFINE n == Len(s)
             t == Append(s, e)
  <2>1. /\ t \in Seq(Nat) /\ n \in Nat /\ Len(t) = n + 1
        /\ t[n + 1] = e /\ \A k \in 1..n : t[k] = s[k]
    OBVIOUS
  <2>2. PICK u : /\ Sum(s) = u[n] /\ u[0] = 0
                 /\ \A k \in 1..n : u[k] = u[k - 1] + s[k]
    BY SumUnfolds
  <2> HIDE DEF t
  <2>3. PICK v : /\ Sum(t) = v[Len(t)] /\ v[0] = 0
                 /\ \A k \in 1..Len(t) : v[k] = v[k - 1] + t[k]
    BY <2>1, SumUnfolds
  <2> HIDE DEF n
  <2>4. s[1] = s[1] /\ \A k \in 1..n : s[k] <= t[k] /\ t[k] <= s[k]
    <3>1. \A k \in 1..n : s[k] \in Nat
      BY DEF n
    <3> QED BY <2>1, <3>1
  <2>5. u[n] <= v[n] /\ v[n] <= u[n]
    <3>1. n = Len(s)
      BY DEF n
    <3>2. n <= Len(s) /\ n <= Len(t)
      BY <2>1, <3>1
    <3>3. u[n] <= v[n]
      BY <2>1, <2>2, <2>3, <2>4, <3>1, <3>2, SumsGrow
    <3>4. v[n] <= u[n]
      BY <2>1, <2>2, <2>3, <2>4, <3>1, <3>2, SumsGrow
    <3> QED BY <3>3, <3>4
  <2>6. u[n] \in Nat /\ v[n] \in Nat
    <3>1. n = Len(s) /\ n \in 0..Len(s) /\ n \in 0..Len(t)
      BY <2>1 DEF n
    <3> QED BY <2>1, <2>2, <2>3, <3>1, SumsAreNat
  <2>7. v[n + 1] = v[n] + e
    <3>1. n + 1 \in 1..Len(t) /\ (n + 1) - 1 = n
      BY <2>1
    <3> QED BY <2>1, <2>3, <3>1
  <2> QED BY <2>1, <2>2, <2>3, <2>5, <2>6, <2>7 DEF t
<1>4. ASSUME NEW s \in Seq(Nat), NEW t \in Seq(Nat), Len(s) = Len(t),
             \A k \in 1..Len(s) : s[k] <= t[k]
      PROVE  Sum(s) <= Sum(t)
  <2>1. PICK u : /\ Sum(s) = u[Len(s)] /\ u[0] = 0
                 /\ \A k \in 1..Len(s) : u[k] = u[k - 1] + s[k]
    BY SumUnfolds
  <2>2. PICK v : /\ Sum(t) = v[Len(t)] /\ v[0] = 0
                 /\ \A k \in 1..Len(t) : v[k] = v[k - 1] + t[k]
    BY SumUnfolds
  <2>3. Len(s) \in Nat /\ Len(s) <= Len(s) /\ Len(s) <= Len(t)
    BY <1>4
  <2>4. u[Len(s)] <= v[Len(s)]
    BY <1>4, <2>1, <2>2, <2>3, SumsGrow
  <2> QED BY <1>4, <2>1, <2>2, <2>4
<1> QED BY <1>1, <1>2, <1>3, <1>4

\* Cutting files short makes none of them longer.
LEMMA ShrunkFits ==
    ASSUME NEW files \in Seq(Nat), NEW limit \in Nat
    PROVE  /\ Shrunk(files, limit) \in Seq(Nat)
           /\ Sum(Shrunk(files, limit)) <= Sum(files)
<1> DEFINE s == Shrunk(files, limit)
<1>1. Len(files) \in Nat /\ s = [i \in 1..Len(files) |-> Min({files[i], limit})]
  BY DEF Shrunk
<1>2. ASSUME NEW i \in 1..Len(files)
      PROVE  Min({files[i], limit}) \in Nat /\ Min({files[i], limit}) <= files[i]
  <2>1. files[i] \in Nat
    BY SizesAre
  <2>2. files[i] \in Int /\ limit \in Int
    BY <2>1
  <2>3. Min({files[i], limit}) = IF files[i] <= limit THEN files[i] ELSE limit
    BY <2>2, LeastIs
  <2> QED BY <2>1, <2>3
<1>3. ASSUME NEW i \in 1..Len(files) PROVE s[i] \in Nat /\ s[i] <= files[i]
  <2>1. s[i] = Min({files[i], limit})
    BY <1>1
  <2> QED BY <1>2, <2>1
<1>4. s \in Seq(Nat) /\ Len(s) = Len(files)
  <2>1. s = [i \in 1..Len(files) |-> s[i]]
    BY <1>1
  <2> HIDE DEF s
  <2>2. s \in Seq(Nat)
    BY <1>1, <1>3, <2>1
  <2>3. DOMAIN s = 1..Len(files)
    BY <2>1
  <2> QED BY <1>1, <2>2, <2>3
<1>5. \A k \in 1..Len(s) : s[k] <= files[k]
  BY <1>3, <1>4
<1> QED BY <1>4, <1>5, Sums

LEMMA SourceLines ==
    ASSUME NEW lines \in Seq([size : Nat, rank : Nat])
    PROVE  /\ \A I : SizeOf(lines, I) \in Nat
           /\ IsFiniteSet(Windows(lines))
<1>1. ASSUME NEW I PROVE SizeOf(lines, I) \in Nat
  <2> DEFINE s == [i \in 1..Len(lines) |-> IF i \in I THEN lines[i].size ELSE 0]
  <2>1. \A i \in 1..Len(lines) : lines[i].size \in Nat
    <3> DEFINE Line == [size : Nat, rank : Nat]
    <3>1. lines \in Seq(Line)
      OBVIOUS
    <3>2. \A i \in 1..Len(lines) : lines[i] \in Line
      <4> HIDE DEF Line, s
      <4> QED BY <3>1
    <3> QED BY <3>2
  <2>2. s \in Seq(Nat)
    BY <2>1
  <2> HIDE DEF s
  <2>3. Sum(s) \in Nat
    BY <2>2, Sums
  <2> QED BY <2>3 DEF SizeOf, s
<1>2. IsFiniteSet(Windows(lines))
  <2> DEFINE n == Len(lines)
             wanted == {j \in 1..n : lines[j].rank > 0}
             hits == {<<lines[i].rank, Max({1, i - 2}), Min({n, i + 3})>> : i \in wanted}
  <2>1. 1 \in Int /\ n \in Int
    OBVIOUS
  <2>2. IsFiniteSet(wanted)
    BY <2>1, FS_Interval, FS_Subset
  <2>3. IsFiniteSet(hits)
    <3> DEFINE g == [i \in wanted |-> <<lines[i].rank, Max({1, i - 2}), Min({n, i + 3})>>]
    <3> HIDE DEF wanted, n
    <3>1. g \in Surjection(wanted, hits)
      BY DEF Surjection
    <3> QED BY <2>2, <3>1, FS_Surjection
  <2> HIDE DEF hits
  <2>4. IsFiniteSet({<<50, 1, Min({n, 40})>>})
    BY FS_Singleton
  <2>5. IsFiniteSet(hits \cup {<<40, 1, Min({n, 12})>>})
    BY <2>3, FS_Singleton, FS_Union
  <2> QED BY <2>4, <2>5 DEF Windows, hits
<1> QED BY <1>1, <1>2

\* The windows of a file fill what it may have, and no more.
LEMMA ExcerptFits ==
    ASSUME NEW lines \in Seq([size : Nat, rank : Nat]), NEW limit \in Nat
    PROVE  Excerpt(lines, limit).size \in Nat /\ Excerpt(lines, limit).size <= limit + Note
<1> DEFINE n == Cardinality(Windows(lines))
           none == [left |-> Windows(lines), lines |-> {}, size |-> 0, last |-> 0]
           Is(f) == f = [k \in 0..n |-> IF k = 0 THEN none ELSE TakeWindow(lines, limit, f[k - 1])]
           after == CHOOSE f : Is(f)
<1>1. n \in Nat
  BY SourceLines, FS_CardinalityType
<1>2. ASSUME NEW f PROVE Stepwise("windows", <<lines, limit>>, none, n, f) <=> Is(f)
  BY DEF Stepwise, Advance
<1>3. \E f : Is(f)
  <2> HIDE DEF none, n, Is
  <2> QED BY <1>1, <1>2, StepsExist
<1>4. Is(after)
  BY <1>3
<1> DEFINE Fits(acc) == "size" \in DOMAIN acc /\ acc.size \in Nat /\ acc.size <= limit
<1>5. ASSUME NEW acc, Fits(acc) PROVE Fits(TakeWindow(lines, limit, acc))
  <2> DEFINE w == NextWindow(acc.left)
             new == (w[2]..w[3]) \ acc.lines
             gap == acc.last # 0 /\ new # {} /\ Min(new) > acc.last + 1
             cost == SizeOf(lines, new) + (IF gap THEN 1 ELSE 0)
  <2>1. TakeWindow(lines, limit, acc)
          = IF new = {} \/ acc.size + cost > limit
            THEN [acc EXCEPT !.left = @ \ {w}]
            ELSE [left |-> acc.left \ {w}, lines |-> acc.lines \cup new,
                  size |-> acc.size + cost, last |-> Max(new)]
    BY DEF TakeWindow
  <2>2. cost \in Nat
    <3>1. SizeOf(lines, new) \in Nat
      BY SourceLines
    <3> HIDE DEF gap, new
    <3> QED BY <3>1
  <2> HIDE DEF w, new, gap, cost
  <2>3. CASE new = {} \/ acc.size + cost > limit
    <3>1. TakeWindow(lines, limit, acc) = [acc EXCEPT !.left = @ \ {w}]
      BY <2>1, <2>3
    <3>2. Fits([acc EXCEPT !.left = @ \ {w}])
      BY <1>5
    <3> HIDE DEF Fits
    <3> QED BY <3>1, <3>2
  <2>4. CASE ~(new = {} \/ acc.size + cost > limit)
    <3> DEFINE t == [left |-> acc.left \ {w}, lines |-> acc.lines \cup new,
                     size |-> acc.size + cost, last |-> Max(new)]
    <3>1. TakeWindow(lines, limit, acc) = t
      BY <2>1, <2>4
    <3>2. Fits(t)
      BY <1>5, <2>2, <2>4
    <3> HIDE DEF Fits, t
    <3> QED BY <3>1, <3>2
  <2> QED BY <2>3, <2>4
<1>6. \A k \in 0..n : Fits(after[k])
  <2> DEFINE Wrong == {k \in 0..n : ~Fits(after[k])}
  <2> SUFFICES ASSUME Wrong # {} PROVE FALSE
    OBVIOUS
  <2>1. Wrong \subseteq Nat
    BY <1>1
  <2>2. PICK k \in Wrong : \A j \in Wrong : k <= j
    <3> HIDE DEF Wrong
    <3> QED BY <2>1, LeastOf
  <2> HIDE DEF after, Fits, n
  <2>3. CASE k = 0
    <3>1. after[k] = none
      BY <1>1, <1>4, <2>3
    <3>2. Fits(none)
      BY DEF Fits
    <3> QED BY <2>2, <3>1, <3>2
  <2>4. CASE k # 0
    <3>1. k \in 0..n /\ k - 1 \in 0..n /\ k - 1 \notin Wrong
      BY <1>1, <2>2, <2>4
    <3>2. Fits(after[k - 1])
      BY <3>1
    <3>3. after[k] = TakeWindow(lines, limit, after[k - 1])
      BY <1>4, <2>4, <3>1
    <3> QED BY <1>5, <2>2, <3>2, <3>3
  <2> QED BY <2>3, <2>4
<1>7. Excerpt(lines, limit).size
        = IF after[n].lines = 1..Len(lines) THEN after[n].size ELSE after[n].size + Note
  BY DEF Excerpt
<1>8. after[n].size \in Nat /\ after[n].size <= limit
  <2>1. n \in 0..n
    BY <1>1
  <2> HIDE DEF after, n
  <2> QED BY <1>6, <2>1
<1>9. Note \in Nat
  BY ExcerptAssumption
<1> HIDE DEF after, n
<1> QED BY <1>7, <1>8, <1>9

LEMMA PlacesAreNat == ASSUME NEW f \in SourceFile PROVE Priority(f) \in Nat
<1>1. f.place \in Nat
  BY DEF SourceFile
<1> DEFINE place == IF f.acts THEN Max({0, f.place - 5}) ELSE f.place
<1>2. place \in Nat
  <2>1. 0 \in Int /\ f.place - 5 \in Int
    BY <1>1
  <2>2. ASSUME NEW z \in Int PROVE Max({0, z}) \in Nat
    <3>1. 0 \in Int /\ Max({0, z}) = IF 0 <= z THEN z ELSE 0
      BY LeastIs
    <3> QED BY <3>1
  <2>3. Max({0, f.place - 5}) \in Nat
    BY <2>1, <2>2
  <2> QED BY <1>1, <2>3
<1> HIDE DEF place
<1>3. Min({8, place}) \in Nat
  BY <1>2, LeastIs
<1> QED BY <1>2, <1>3 DEF Priority, place

LEMMA NextIsOne ==
    ASSUME NEW files \in SUBSET SourceFile, files # {}
    PROVE  NextFile(files) \in files
<1> DEFINE ranks == {Priority(f) : f \in files}
<1>1. PICK rank \in ranks : \A r \in ranks : rank <= r
  <2>1. ranks \subseteq Nat
    BY PlacesAreNat
  <2>2. ranks # {}
    OBVIOUS
  <2> HIDE DEF ranks
  <2> QED BY <2>1, <2>2, LeastOf
<1> DEFINE first == {f \in files : Priority(f) = rank}
<1>2. PICK path \in {f.path : f \in first} : \A p \in {f.path : f \in first} : path <= p
  <2>1. {f.path : f \in first} \subseteq Nat
    BY DEF SourceFile
  <2>2. {f.path : f \in first} # {}
    BY <1>1
  <2> QED BY <2>1, <2>2, LeastOf
<1>3. PICK f \in first : f.path = path
  BY <1>2
<1>4. \A g \in files : ~FileBefore(g, f)
  <2> TAKE g \in files
  <2>1. Priority(g) \in Nat /\ Priority(f) \in Nat /\ g.path \in Nat /\ f.path \in Nat
    BY PlacesAreNat DEF SourceFile
  <2>2. Priority(f) = rank /\ rank <= Priority(g)
    BY <1>1
  <2>3. Priority(g) = rank => f.path <= g.path
    BY <1>2, <1>3
  <2> QED BY <2>1, <2>2, <2>3 DEF FileBefore
<1> QED BY <1>3, <1>4 DEF NextFile

\* The excerpts of all files exceed their share by the remarks of one.
LEMMA ShownFits ==
    ASSUME NEW project \in Projects
    PROVE  Shown(project) \in Seq(Nat) /\ Sum(Shown(project)) <= FilesLimit + Note
<1> DEFINE n == Cardinality(project)
           none == [left |-> project, used |-> 0, files |-> <<>>]
           Is(f) == f = [k \in 0..n |-> IF k = 0 THEN none ELSE TakeFile(f[k - 1])]
           after == CHOOSE f : Is(f)
<1>1. /\ IsFiniteSet(project) /\ project \subseteq SourceFile /\ n \in Nat
      /\ {FilesLimit, FileLimit, Note} \subseteq Nat
  <2>1. IsFiniteSet(project) /\ project \subseteq SourceFile
    BY ExcerptAssumption
  <2> QED BY <2>1, FS_CardinalityType, ExcerptAssumption
<1>2. ASSUME NEW f PROVE Stepwise("files", "none", none, n, f) <=> Is(f)
  BY DEF Stepwise, Advance
<1>3. \E f : Is(f)
  <2> HIDE DEF none, n, Is
  <2> QED BY <1>1, <1>2, StepsExist
<1>4. Is(after)
  BY <1>3
<1> DEFINE Fits(acc, k) ==
              /\ {"left", "used", "files"} \subseteq DOMAIN acc
              /\ acc.left \subseteq project /\ IsFiniteSet(acc.left)
              /\ Cardinality(acc.left) = n - k
              /\ acc.used \in Nat /\ acc.used <= FilesLimit + Note
              /\ acc.files \in Seq(Nat) /\ Sum(acc.files) = acc.used
<1>5. ASSUME NEW k \in 1..n, NEW acc, Fits(acc, k - 1) PROVE Fits(TakeFile(acc), k)
  <2> DEFINE f == NextFile(acc.left)
             e == Excerpt(f.lines, Min({FileLimit, FilesLimit - acc.used}))
             spent == acc.used >= FilesLimit \/ f.lines = <<>>
             over == [acc EXCEPT !.left = @ \ {f}]
             taken == [left |-> acc.left \ {f}, used |-> acc.used + e.size,
                       files |-> Append(acc.files, e.size)]
  <2>1. TakeFile(acc) = IF spent THEN over ELSE taken
    BY DEF TakeFile
  <2>2. f \in acc.left /\ f \in SourceFile
    <3>1. acc.left # {}
      <4>1. Cardinality(acc.left) # 0
        BY <1>1, <1>5
      <4> QED BY <4>1, FS_EmptySet
    <3>2. acc.left \in SUBSET SourceFile
      BY <1>1, <1>5
    <3> QED BY <3>1, <3>2, NextIsOne
  <2>3. /\ IsFiniteSet(acc.left \ {f}) /\ Cardinality(acc.left \ {f}) = n - k
        /\ acc.left \ {f} \subseteq project
    <3>1. IsFiniteSet(acc.left \ {f}) /\ Cardinality(acc.left \ {f}) = Cardinality(acc.left) - 1
      BY <1>5, <2>2, FS_RemoveElement
    <3>2. (n - (k - 1)) - 1 = n - k
      BY <1>1
    <3> QED BY <1>5, <3>1, <3>2
  <2>4. CASE spent
    <3>1. Fits(over, k)
      <4> HIDE DEF f
      <4> QED BY <1>5, <2>3
    <3> HIDE DEF Fits, over
    <3> QED BY <2>1, <2>4, <3>1
  <2>5. CASE ~spent
    <3>1. acc.used \in Nat /\ acc.used < FilesLimit
      BY <1>1, <1>5, <2>5
    <3> DEFINE limit == Min({FileLimit, FilesLimit - acc.used})
    <3>2. limit \in Nat /\ limit <= FilesLimit - acc.used
      BY <1>1, <3>1, LeastIs
    <3>3. f.lines \in Seq([size : Nat, rank : Nat])
      BY <2>2 DEF SourceFile
    <3>4. e.size \in Nat /\ e.size <= limit + Note
      <4> HIDE DEF limit, f
      <4>1. e = Excerpt(f.lines, limit)
        BY DEF limit
      <4> HIDE DEF e
      <4> QED BY <3>2, <3>3, <4>1, ExcerptFits
    <3> HIDE DEF limit, e, f
    <3>5. acc.used + e.size \in Nat /\ acc.used + e.size <= FilesLimit + Note
      BY <1>1, <3>1, <3>2, <3>4
    <3>6. Append(acc.files, e.size) \in Seq(Nat)
          /\ Sum(Append(acc.files, e.size)) = acc.used + e.size
      BY <1>5, <3>4, Sums
    <3>7. Fits(taken, k)
      BY <2>3, <3>5, <3>6
    <3> HIDE DEF Fits, taken, spent
    <3> QED BY <2>1, <2>5, <3>7
  <2> QED BY <2>4, <2>5
<1>6. \A k \in 0..n : Fits(after[k], k)
  <2> DEFINE Wrong == {k \in 0..n : ~Fits(after[k], k)}
  <2> SUFFICES ASSUME Wrong # {} PROVE FALSE
    OBVIOUS
  <2>1. Wrong \subseteq Nat
    BY <1>1
  <2>2. PICK k \in Wrong : \A j \in Wrong : k <= j
    <3> HIDE DEF Wrong
    <3> QED BY <2>1, LeastOf
  <2>3. CASE k = 0
    <3>1. after[k] = none
      <4> HIDE DEF after, n, none
      <4> QED BY <1>1, <1>4, <2>3
    <3>2. Fits(none, 0)
      <4>1. n - 0 = Cardinality(project) /\ 0 <= FilesLimit + Note
        BY <1>1
      <4>2. <<>> \in Seq(Nat) /\ Sum(<<>>) = 0
        BY Sums
      <4> HIDE DEF n
      <4> QED BY <1>1, <4>1, <4>2
    <3> HIDE DEF after, n, none, Fits
    <3> QED BY <2>2, <2>3, <3>1, <3>2
  <2>4. CASE k # 0
    <3> HIDE DEF after, n, none, Fits
    <3>1. k \in 1..n /\ k - 1 \in 0..n /\ k - 1 \notin Wrong
      BY <1>1, <2>2, <2>4
    <3>2. Fits(after[k - 1], k - 1)
      BY <3>1
    <3>3. after[k] = TakeFile(after[k - 1])
      BY <1>4, <2>4, <3>1
    <3> QED BY <1>5, <2>2, <3>1, <3>2, <3>3
  <2> QED BY <2>3, <2>4
<1>7. Shown(project) = after[n].files
  BY DEF Shown
<1>8. after[n].files \in Seq(Nat) /\ Sum(after[n].files) <= FilesLimit + Note
  <2>1. n \in 0..n
    BY <1>1
  <2> HIDE DEF after, n
  <2> QED BY <1>6, <2>1
<1> HIDE DEF after, n
<1> QED BY <1>7, <1>8

\* Whatever the project and the rest of the prompt.
LEMMA PromptsFit ==
    ASSUME NEW prompt \in Prompts \cup {NothingShown}
    PROVE  /\ prompt.files # <<>> => prompt.size <= PromptLimit
           /\ Sum(prompt.files) <= FilesLimit + Note
<1>1. {PromptLimit, FilesLimit, ShortLimit, TinyLimit, Note} \subseteq Nat
  BY ExcerptAssumption
<1>2. Sum(<<>>) <= FilesLimit + Note
  BY <1>1, Sums
<1>3. CASE prompt = NothingShown
  BY <1>2, <1>3 DEF NothingShown
<1>4. CASE prompt \in Prompts
  <2>1. PICK context \in Contexts, project \in Projects : prompt = Prompt(context, Shown(project))
    BY <1>4 DEF Prompts
  <2> DEFINE files == Shown(project)
             sizes == Rounds(context, files)
             fits == {r \in 1..4 : sizes[r] <= PromptLimit}
             round == IF fits = {} THEN 5 ELSE Min(fits)
  <2>2. /\ prompt.size = sizes[round]
        /\ prompt.files = CASE round = 1 -> files
                            [] round = 2 -> Shrunk(files, ShortLimit)
                            [] round \in {3, 4} -> Shrunk(files, TinyLimit)
                            [] round = 5 -> <<>>
    BY <2>1 DEF Prompt
  <2>3. files \in Seq(Nat) /\ Sum(files) <= FilesLimit + Note /\ Sum(files) \in Nat
    BY ShownFits, Sums
  <2>4. \A limit \in {ShortLimit, TinyLimit} :
           Sum(Shrunk(files, limit)) <= FilesLimit + Note
    <3> TAKE limit \in {ShortLimit, TinyLimit}
    <3> HIDE DEF files
    <3>1. /\ Shrunk(files, limit) \in Seq(Nat) /\ Sum(Shrunk(files, limit)) \in Nat
          /\ Sum(Shrunk(files, limit)) <= Sum(files)
      BY <1>1, <2>3, ShrunkFits, Sums
    <3> QED BY <1>1, <2>3, <3>1
  <2>5. CASE fits = {}
    <3>1. prompt.files = <<>>
      BY <2>2, <2>5
    <3> QED BY <1>2, <3>1
  <2>6. CASE fits # {}
    <3>1. PICK r \in fits : \A s \in fits : r <= s
      <4>1. fits \subseteq Nat
        OBVIOUS
      <4> HIDE DEF fits
      <4> QED BY <2>6, <4>1, LeastOf
    <3>2. round \in fits
      BY <2>6, <3>1 DEF Min
    <3> HIDE DEF round, sizes, files
    <3> QED BY <2>2, <2>3, <2>4, <3>2
  <2> QED BY <2>5, <2>6
<1> QED BY <1>3, <1>4

\* For any projects, contexts, answers and limits: what is handed on is judged as it is, by
\* a reviewer who was shown what fits a prompt, and an approval pays for one call
\* (_project_files_for_review, persist_codegen_output_node).
THEOREM OnlyFairHandovers == Spec => HandsOnFairly
<1>1. IInv => EvidenceFits
  BY PromptsFit DEF IInv, TypeOK, Seen, EvidenceFits
<1>2. Spec => []IInv
  BY InitOK, StepOK, PTL DEF Spec
<1>3. Spec => []EvidenceFits
  BY <1>1, <1>2, PTL
<1> QED BY <1>3, OnlyJudgedPasses, ApprovalsAreSpent DEF HandsOnFairly

-------------------------------------------------------------------------------
(* The placement repairs, one component after the other.                           *)

Begun(kind, parts, n, f) ==
    /\ f = [k \in 0..n |-> f[k]]
    /\ \A k \in 0..n : f[k] = IF k = 0 THEN parts ELSE Repair(kind, f[k - 1], k)

LEMMA PassesExist ==
    ASSUME NEW kind \in {"frames", "siblings", "mothers", "contain"}, NEW parts, NEW n \in Nat
    PROVE  \E f : Begun(kind, parts, n, f)
<1>1. PICK f : Stepwise(kind, parts, parts, n, f)
  BY StepsExist
<1>2. ASSUME NEW k \in 0..n
      PROVE  f[k] = IF k = 0 THEN parts ELSE Repair(kind, f[k - 1], k)
  BY <1>1 DEF Stepwise, Advance
<1> QED BY <1>1, <1>2 DEF Stepwise, Begun

LEMMA FramesUnfold ==
    ASSUME NEW parts, Len(parts) \in Nat
    PROVE  \E f : Begun("frames", parts, Len(parts), f) /\ NormalizeFrames(parts) = f[Len(parts)]
<1> DEFINE n == Len(parts)
           Is(f) == f = [k \in 0..n |-> IF k = 0 THEN parts ELSE ToMotherFrame(f[k - 1], k)]
           after == CHOOSE f : Is(f)
<1>1. NormalizeFrames(parts) = after[n]
  BY DEF NormalizeFrames
<1>2. ASSUME NEW f PROVE Begun("frames", parts, n, f) <=> Is(f)
  BY DEF Begun, Repair
<1>3. \E f : Is(f)
  BY <1>2, PassesExist
<1>4. Is(after)
  BY <1>3
<1> QED BY <1>1, <1>2, <1>4

LEMMA SiblingsUnfold ==
    ASSUME NEW parts, Len(parts) \in Nat
    PROVE  \E f : Begun("siblings", parts, Len(parts), f) /\ ResolveSiblings(parts) = f[Len(parts)]
<1> DEFINE n == Len(parts)
           Is(f) == f = [k \in 0..n |-> IF k = 0 THEN parts ELSE MoveBehindSiblings(f[k - 1], k)]
           after == CHOOSE f : Is(f)
<1>1. ResolveSiblings(parts) = after[n]
  BY DEF ResolveSiblings
<1>2. ASSUME NEW f PROVE Begun("siblings", parts, n, f) <=> Is(f)
  BY DEF Begun, Repair
<1>3. \E f : Is(f)
  BY <1>2, PassesExist
<1>4. Is(after)
  BY <1>3
<1> QED BY <1>1, <1>2, <1>4

LEMMA MothersUnfold ==
    ASSUME NEW parts, Len(parts) \in Nat
    PROVE  \E f : Begun("mothers", parts, Len(parts), f) /\ ExpandMothers(parts) = f[Len(parts)]
<1> DEFINE n == Len(parts)
           Is(f) == f = [k \in 0..n |-> IF k = 0 THEN parts ELSE ExpandMotherOf(f[k - 1], k)]
           after == CHOOSE f : Is(f)
<1>1. ExpandMothers(parts) = after[n]
  BY DEF ExpandMothers
<1>2. ASSUME NEW f PROVE Begun("mothers", parts, n, f) <=> Is(f)
  BY DEF Begun, Repair
<1>3. \E f : Is(f)
  BY <1>2, PassesExist
<1>4. Is(after)
  BY <1>3
<1> QED BY <1>1, <1>2, <1>4

LEMMA ContainUnfold ==
    ASSUME NEW parts, Len(parts) \in Nat
    PROVE  \E f : Begun("contain", parts, Len(parts), f) /\ EnsureContained(parts) = f[Len(parts)]
<1> DEFINE n == Len(parts)
           Is(f) == f = [k \in 0..n |-> IF k = 0 THEN parts ELSE ExpandMothers(f[k - 1])]
           after == CHOOSE f : Is(f)
<1>1. EnsureContained(parts) = after[n]
  BY DEF EnsureContained
<1>2. ASSUME NEW f PROVE Begun("contain", parts, n, f) <=> Is(f)
  BY DEF Begun, Repair
<1>3. \E f : Is(f)
  BY <1>2, PassesExist
<1>4. Is(after)
  BY <1>3
<1> QED BY <1>1, <1>2, <1>4

-------------------------------------------------------------------------------
(* What the repairs leave alone.                                                   *)

LEMMA ListsAre ==
    ASSUME NEW parts, ListShape(parts)
    PROVE  /\ Len(parts) \in Nat /\ DOMAIN parts = 1..Len(parts)
           /\ parts = [i \in 1..Len(parts) |-> parts[i]]
           /\ IsFiniteSet(DOMAIN parts) /\ Cardinality(DOMAIN parts) = Len(parts)
           /\ \A i \in 1..Len(parts) : PartShape(parts[i])
<1>1. Len(parts) \in Nat /\ DOMAIN parts = 1..Len(parts)
      /\ parts = [i \in 1..Len(parts) |-> parts[i]]
  BY DEF ListShape
<1>2. IsFiniteSet(1..Len(parts)) /\ Cardinality(1..Len(parts)) = Len(parts)
  <2>1. 1 \in Int /\ Len(parts) \in Int
    BY <1>1
  <2>2. IsFiniteSet(1..Len(parts))
        /\ Cardinality(1..Len(parts)) = IF 1 > Len(parts) THEN 0 ELSE Len(parts) - 1 + 1
    BY <2>1, FS_Interval
  <2> QED BY <1>1, <2>2
<1> QED BY <1>1, <1>2 DEF ListShape

LEMMA ListsMade ==
    ASSUME NEW n \in Nat, NEW f, f = [i \in 1..n |-> f[i]], \A i \in 1..n : PartShape(f[i])
    PROVE  ListShape(f) /\ Len(f) = n /\ DOMAIN f = 1..n
<1>1. DOMAIN f = 1..n
  OBVIOUS
<1> DEFINE S == {f[i] : i \in 1..n}
<1>2. f \in [1..n -> S]
  OBVIOUS
<1>3. f \in Seq(S)
  <2> HIDE DEF S
  <2> QED BY <1>2
<1>4. Len(f) = n
  BY <1>1, <1>3
<1> QED BY <1>1, <1>4 DEF ListShape

\* Only sizes and positions differ.
Same(p, q) ==
    /\ ListShape(q) /\ Len(q) = Len(p) /\ DOMAIN q = DOMAIN p
    /\ \A i \in DOMAIN p :
         /\ q[i].id = p[i].id /\ q[i].mother = p[i].mother /\ q[i].world = p[i].world
         /\ q[i].box = p[i].box

LEMMA Moved ==
    ASSUME NEW p, ListShape(p), NEW i \in DOMAIN p, NEW z \in Int
    PROVE  Same(p, [p EXCEPT ![i].pos = z])
<1> DEFINE q == [p EXCEPT ![i].pos = z]
<1>1. \A j \in DOMAIN p : q[j] = IF j = i THEN [p[i] EXCEPT !.pos = z] ELSE p[j]
  OBVIOUS
<1>2. \A j \in 1..Len(p) : PartShape(q[j])
  BY <1>1, ListsAre DEF PartShape
<1>3. /\ q = [j \in 1..Len(p) |-> q[j]]
      /\ Len(p) \in Nat /\ DOMAIN p = 1..Len(p)
  BY ListsAre
<1>4. ListShape(q) /\ Len(q) = Len(p) /\ DOMAIN q = DOMAIN p
  <2> HIDE DEF q
  <2>1. ListShape(q) /\ Len(q) = Len(p) /\ DOMAIN q = 1..Len(p)
    BY <1>2, <1>3, ListsMade
  <2> QED BY <1>3, <2>1
<1>5. PartShape(p[i])
  BY DEF ListShape
<1> QED BY <1>1, <1>4, <1>5 DEF Same, PartShape

LEMMA Grown ==
    ASSUME NEW p, ListShape(p), NEW i \in DOMAIN p, NEW h \in Nat
    PROVE  Same(p, [p EXCEPT ![i].half = h])
<1> DEFINE q == [p EXCEPT ![i].half = h]
<1>1. \A j \in DOMAIN p : q[j] = IF j = i THEN [p[i] EXCEPT !.half = h] ELSE p[j]
  OBVIOUS
<1>2. \A j \in 1..Len(p) : PartShape(q[j])
  BY <1>1, ListsAre DEF PartShape
<1>3. /\ q = [j \in 1..Len(p) |-> q[j]]
      /\ Len(p) \in Nat /\ DOMAIN p = 1..Len(p)
  BY ListsAre
<1>4. ListShape(q) /\ Len(q) = Len(p) /\ DOMAIN q = DOMAIN p
  <2> HIDE DEF q
  <2>1. ListShape(q) /\ Len(q) = Len(p) /\ DOMAIN q = 1..Len(p)
    BY <1>2, <1>3, ListsMade
  <2> QED BY <1>3, <2>1
<1>5. PartShape(p[i])
  BY DEF ListShape
<1> QED BY <1>1, <1>4, <1>5 DEF Same, PartShape

LEMMA SameStill ==
    ASSUME NEW p, ListShape(p)
    PROVE  /\ Same(p, p)
           /\ \A q, r : Same(p, q) /\ Same(q, r) => Same(p, r)
  BY DEF Same

\* Mothers, worlds and trees are those of the draft.
LEMMA TreesStay ==
    ASSUME NEW p, NEW q, Same(p, q)
    PROVE  /\ \A i \in DOMAIN p : Mothers(q, i) = Mothers(p, i)
           /\ Worlds(q) = Worlds(p)
           /\ \A i \in DOMAIN p : Ancestors(q, i) = Ancestors(p, i)
           /\ Acyclic(q) <=> Acyclic(p)
<1>1. \A i \in DOMAIN p : Mothers(q, i) = Mothers(p, i)
  BY DEF Same, Mothers
<1>2. DOMAIN q = DOMAIN p
  BY DEF Same
<1>3. Worlds(q) = Worlds(p)
  BY DEF Same, Worlds
<1>4. \A i \in DOMAIN p : Ancestors(q, i) = Ancestors(p, i)
  BY <1>1, <1>2 DEF Ancestors
<1> QED BY <1>1, <1>2, <1>3, <1>4 DEF Acyclic


\* The largest of finitely many numbers is one of them, and none is larger.
LEMMA LargestIsOne ==
    ASSUME NEW I, IsFiniteSet(I), I # {}, NEW v \in [I -> Int]
    PROVE  /\ \E i \in I : Max({v[j] : j \in I}) = v[i]
           /\ \A i \in I : v[i] <= Max({v[j] : j \in I})
<1> DEFINE Above(i) == {j \in I : v[j] > v[i]}
           All == {Above(i) : i \in I}
<1>1. All \subseteq FiniteSubsetsOf(I) /\ All # {}
  <2>1. \A i \in I : Above(i) \in SUBSET I
    OBVIOUS
  <2>2. \A S \in SUBSET I : S \in FiniteSubsetsOf(I)
    BY FS_Subset DEF FiniteSubsetsOf
  <2>3. \A i \in I : Above(i) \in FiniteSubsetsOf(I)
    BY <2>1, <2>2
  <2> HIDE DEF Above
  <2> QED BY <2>3
<1>2. PICK S \in All : \A T \in All : ~(<<T, S>> \in StrictSubsetOrdering(I))
  BY <1>1, WFMin, FS_StrictSubsetOrderingWellFounded
<1>3. PICK i \in I : S = Above(i)
  BY <1>2
<1>4. Above(i) = {}
  <2> SUFFICES ASSUME NEW j \in Above(i) PROVE FALSE
    OBVIOUS
  <2>1. v[i] \in Int /\ v[j] \in Int /\ v[j] > v[i] /\ j \in I
    OBVIOUS
  <2>2. Above(j) \subseteq Above(i)
    <3> SUFFICES ASSUME NEW k \in Above(j) PROVE k \in Above(i)
      OBVIOUS
    <3>1. v[k] \in Int /\ v[k] > v[j] /\ k \in I
      BY <2>1
    <3>2. v[k] > v[i]
      BY <2>1, <3>1
    <3> QED BY <3>1, <3>2
  <2>3. j \notin Above(j)
    BY <2>1
  <2>4. Above(j) \in SUBSET I /\ Above(i) \in SUBSET I /\ Above(j) # Above(i)
    BY <2>1, <2>3
  <2>5. <<Above(j), Above(i)>> \in StrictSubsetOrdering(I)
    BY <2>2, <2>4 DEF StrictSubsetOrdering
  <2> QED BY <1>2, <1>3, <2>1, <2>5
<1>5. \A j \in I : v[i] >= v[j]
  BY <1>4
<1> DEFINE V == {v[j] : j \in I}
<1>6. v[i] \in V /\ \A y \in V : v[i] >= y
  BY <1>5
<1>7. Max(V) \in V /\ \A y \in V : Max(V) >= y
  BY <1>6 DEF Max
<1>8. PICK k \in I : Max(V) = v[k]
  BY <1>7
<1>9. \A j \in I : v[j] <= Max(V)
  BY <1>7, <1>8
<1> QED BY <1>8, <1>9


LEMMA FrameStep ==
    ASSUME NEW p, ListShape(p), NEW i \in DOMAIN p
    PROVE  Same(p, ToMotherFrame(p, i))
<1> DEFINE fits(m) == /\ p[i].box /\ p[m].box
                      /\ ~Inside(p[i].pos, p[i].half, p[m].half)
                      /\ Inside(p[i].pos - p[m].pos, p[i].half, p[m].half)
           m == CHOOSE m \in Mothers(p, i) : fits(m)
<1>1. CASE \E k \in Mothers(p, i) : fits(k)
  <2>1. m \in Mothers(p, i)
    BY <1>1
  <2>2. m \in DOMAIN p
    BY <2>1 DEF Mothers
  <2> HIDE DEF m
  <2>3. p[i].pos - p[m].pos \in Int
    BY <2>2 DEF ListShape, PartShape
  <2>4. Same(p, [p EXCEPT ![i].pos = p[i].pos - p[m].pos])
    BY <2>3, Moved
  <2> QED BY <1>1, <2>4 DEF ToMotherFrame, m
<1>2. CASE ~\E k \in Mothers(p, i) : fits(k)
  BY <1>2, SameStill DEF ToMotherFrame
<1> QED BY <1>1, <1>2

LEMMA SiblingStep ==
    ASSUME NEW p, ListShape(p), NEW i \in DOMAIN p
    PROVE  Same(p, MoveBehindSiblings(p, i))
<1> DEFINE inTheWay == {j \in DOMAIN p \ {i} :
                          p[j].mother = p[i].mother /\ p[j].box /\ Overlap(p[i], p[j])}
           place == [j \in inTheWay |-> p[j].pos + p[j].half + p[i].half + Gap]
           behind == {p[j].pos + p[j].half + p[i].half + Gap : j \in inTheWay}
           moves == LooksDownstream(p[i]) /\ p[i].box /\ p[i].half > 0
                    /\ \E z \in behind : z > p[i].pos
<1>1. CASE moves
  <2>1. IsFiniteSet(inTheWay) /\ inTheWay # {}
    BY <1>1, ListsAre, FS_Subset
  <2>2. \A j \in inTheWay : p[j].pos + p[j].half + p[i].half + Gap \in Int
    BY GeometryAssumption DEF ListShape, PartShape
  <2>3. place \in [inTheWay -> Int] /\ behind = {place[j] : j \in inTheWay}
    BY <2>2
  <2> HIDE DEF inTheWay, place, behind
  <2>4. Max(behind) \in Int
    BY <2>1, <2>3, LargestIsOne
  <2>5. Same(p, [p EXCEPT ![i].pos = Max(behind)])
    BY <2>4, Moved
  <2> QED BY <1>1, <2>5 DEF MoveBehindSiblings, behind, inTheWay
<1>2. CASE ~moves
  BY <1>2, SameStill DEF MoveBehindSiblings
<1> QED BY <1>1, <1>2


-------------------------------------------------------------------------------
(* Growing the mothers.                                                            *)

Daughters(p, m) == {k \in DOMAIN p : m \in Mothers(p, k)}
BoxDaughters(p, m) == {k \in Daughters(p, m) : p[k].box}
Reach(c) == Abs(c.pos) + c.half
First(p, i) == \A j \in 1..(i - 1) : p[j].mother # p[i].mother

\* The box daughters of m lie inside m.
Holds(p, m) == p[m].box => \A k \in BoxDaughters(p, m) : Reach(p[k]) <= p[m].half

LEMMA MotherIsOne ==
    ASSUME NEW p, ListShape(p), NEW i \in DOMAIN p, NEW m \in Mothers(p, i)
    PROVE  /\ m \in DOMAIN p /\ Mothers(p, i) = {m}
           /\ p[m].id = p[i].mother /\ p[i].mother # NoMother
           /\ Children(p, m) = Daughters(p, m)
<1>1. m \in DOMAIN p /\ p[m].id = p[i].mother
      /\ \A k \in DOMAIN p : k > m => p[k].id # p[i].mother
  BY DEF Mothers
<1>2. ASSUME NEW k \in Mothers(p, i) PROVE k = m
  <2>1. k \in DOMAIN p /\ p[k].id = p[i].mother
        /\ \A j \in DOMAIN p : j > k => p[j].id # p[i].mother
    BY DEF Mothers
  <2>2. k \in Int /\ m \in Int
    BY <1>1, <2>1, ListsAre
  <2>3. ~(k > m) /\ ~(m > k)
    BY <1>1, <2>1
  <2> QED BY <2>2, <2>3
<1>3. p[i].mother # NoMother
  BY <1>1 DEF ListShape, PartShape
<1>4. ASSUME NEW k \in DOMAIN p PROVE k \in Children(p, m) <=> m \in Mothers(p, k)
  BY <1>1, <1>3 DEF Children, Mothers
<1>5. Children(p, m) = Daughters(p, m)
  BY <1>4 DEF Children, Daughters
<1> QED BY <1>1, <1>2, <1>3, <1>5

LEMMA ReachIs ==
    ASSUME NEW c, PartShape(c) PROVE Reach(c) \in Nat
  BY DEF Reach, Abs, PartShape

LEMMA RequiredIs ==
    ASSUME NEW p, ListShape(p), NEW S \in SUBSET DOMAIN p, S # {}
    PROVE  LET R == Max({Abs(p[j].pos) + p[j].half : j \in S})
           IN  R \in Nat /\ (\E j \in S : R = Reach(p[j])) /\ \A j \in S : Reach(p[j]) <= R
<1> DEFINE v == [j \in S |-> Reach(p[j])]
<1>1. \A j \in S : Reach(p[j]) \in Nat
  BY ReachIs DEF ListShape
<1>2. v \in [S -> Int]
  BY <1>1
<1>3. IsFiniteSet(S)
  BY ListsAre, FS_Subset
<1>4. {v[j] : j \in S} = {Abs(p[j].pos) + p[j].half : j \in S}
  BY DEF Reach
<1>5. \A j \in S : v[j] = Reach(p[j])
  OBVIOUS
<1> HIDE DEF v
<1>6. /\ \E j \in S : Max({v[k] : k \in S}) = v[j]
      /\ \A j \in S : v[j] <= Max({v[k] : k \in S})
  BY <1>2, <1>3, LargestIsOne
<1> QED BY <1>1, <1>4, <1>5, <1>6

\* One visit: the mother of the component, at her first child, grows if she is too small.
LEMMA MotherStep ==
    ASSUME NEW p, ListShape(p), NEW i \in DOMAIN p
    PROVE  LET q == ExpandMotherOf(p, i)
           IN  /\ Same(p, q) /\ \A j \in DOMAIN p : q[j].pos = p[j].pos
               /\ \A m \in DOMAIN p : q[m].half # p[m].half =>
                      m \in Mothers(p, i) /\ First(p, i) /\ ~Holds(p, m)
               /\ \A m \in Mothers(p, i) : First(p, i) /\ p[m].box =>
                      \A k \in BoxDaughters(p, m) : Reach(p[k]) <= q[m].half
<1> DEFINE boxes(m) == {k \in Children(p, m) : p[k].box}
           required(m) == Max({Abs(p[j].pos) + p[j].half : j \in boxes(m)})
           short(m) == p[m].box /\ (\E k \in Children(p, m) : p[k].box) /\ required(m) > p[m].half
           grows == p[i].mother # NoMother /\ First(p, i) /\ \E m \in Mothers(p, i) : short(m)
           q == ExpandMotherOf(p, i)
<1>1. ASSUME NEW m \in Mothers(p, i)
      PROVE  /\ boxes(m) = BoxDaughters(p, m) /\ m \in DOMAIN p
             /\ boxes(m) # {} => /\ required(m) \in Nat
                                 /\ \E k \in boxes(m) : required(m) = Reach(p[k])
                                 /\ \A k \in boxes(m) : Reach(p[k]) <= required(m)
             /\ p[m].half \in Nat
  <2>1. boxes(m) = BoxDaughters(p, m) /\ m \in DOMAIN p
    BY MotherIsOne DEF BoxDaughters
  <2>2. boxes(m) \in SUBSET DOMAIN p
    BY DEF Children
  <2>3. p[m].half \in Nat
    BY <2>1 DEF ListShape, PartShape
  <2>4. ASSUME boxes(m) # {}
        PROVE  /\ required(m) \in Nat
               /\ \E k \in boxes(m) : required(m) = Reach(p[k])
               /\ \A k \in boxes(m) : Reach(p[k]) <= required(m)
    <3> HIDE DEF boxes
    <3> QED BY <2>2, <2>4, RequiredIs
  <2> QED BY <2>1, <2>3, <2>4
<1>2. CASE grows
  <2> DEFINE m == CHOOSE m \in Mothers(p, i) : short(m)
  <2>1. m \in Mothers(p, i) /\ short(m)
    BY <1>2
  <2>2. q = [p EXCEPT ![m].half = required(m) + Clearance]
    BY <1>2 DEF ExpandMotherOf, First
  <2> HIDE DEF m
  <2>3. m \in DOMAIN p /\ Mothers(p, i) = {m} /\ boxes(m) # {}
    BY <2>1, MotherIsOne
  <2>4. required(m) + Clearance \in Nat /\ required(m) \in Nat /\ p[m].half \in Nat
    BY <1>1, <2>1, <2>3, GeometryAssumption
  <2>5. Same(p, q)
    <3> DEFINE h == required(m) + Clearance
    <3>1. h \in Nat /\ m \in DOMAIN p /\ q = [p EXCEPT ![m].half = h]
      BY <2>2, <2>3, <2>4
    <3> HIDE DEF h, q
    <3> QED BY <3>1, Grown
  <2>6. \A j \in DOMAIN p : q[j].pos = p[j].pos /\ (j # m => q[j].half = p[j].half)
    BY <2>2
  <2>7. q[m].half = required(m) + Clearance
    BY <2>2, <2>3 DEF ListShape, PartShape
  <2>8. ~Holds(p, m)
    <3>1. PICK k \in boxes(m) : required(m) = Reach(p[k])
      BY <1>1, <2>1, <2>3
    <3>2. k \in BoxDaughters(p, m) /\ p[m].box /\ ~(Reach(p[k]) <= p[m].half)
      BY <1>1, <2>1, <2>4, <3>1
    <3> QED BY <3>2 DEF Holds
  <2>9. \A k \in BoxDaughters(p, m) : Reach(p[k]) <= q[m].half
    <3> SUFFICES ASSUME NEW k \in BoxDaughters(p, m) PROVE Reach(p[k]) <= q[m].half
      OBVIOUS
    <3>1. k \in DOMAIN p /\ Reach(p[k]) <= required(m)
      BY <1>1, <2>1, <2>3 DEF BoxDaughters, Daughters
    <3>2. Reach(p[k]) \in Nat
      BY <3>1, ReachIs DEF ListShape
    <3> QED BY <2>4, <2>7, <3>1, <3>2, GeometryAssumption
  <2> QED BY <1>2, <2>3, <2>5, <2>6, <2>8, <2>9
<1>3. CASE ~grows
  <2>1. q = p
    BY <1>3 DEF ExpandMotherOf, First
  <2>2. ASSUME NEW m \in Mothers(p, i), First(p, i), p[m].box, NEW k \in BoxDaughters(p, m)
        PROVE  Reach(p[k]) <= p[m].half
    <3>1. p[i].mother # NoMother /\ ~short(m)
      BY <1>3, <2>2, MotherIsOne
    <3>2. k \in boxes(m) /\ required(m) \in Nat /\ Reach(p[k]) <= required(m)
          /\ p[m].half \in Nat
      BY <1>1, <2>2
    <3>3. ~(required(m) > p[m].half)
      BY <2>2, <3>1, <3>2
    <3>4. Reach(p[k]) \in Nat
      <4>1. k \in DOMAIN p
        BY DEF BoxDaughters, Daughters
      <4> QED BY <4>1, ReachIs DEF ListShape
    <3> QED BY <3>2, <3>3, <3>4
  <2> QED BY <2>1, <2>2, SameStill
<1> QED BY <1>2, <1>3


\* Induction over the visits of a pass.
LEMMA Reached ==
    ASSUME NEW a \in Nat, NEW n \in Nat, NEW T, a \in T,
           \A k \in (a + 1)..n : k - 1 \in T => k \in T
    PROVE  a..n \subseteq T
<1> DEFINE Missing == {k \in a..n : k \notin T}
<1> SUFFICES ASSUME Missing # {} PROVE FALSE
  OBVIOUS
<1>1. Missing \subseteq Nat
  OBVIOUS
<1>2. PICK k \in Missing : \A j \in Missing : k <= j
  BY <1>1, LeastOf
<1>3. k \in a..n /\ k \notin T /\ k # a
  OBVIOUS
<1>4. k \in (a + 1)..n /\ k - 1 \in a..n
  BY <1>3
<1>5. k - 1 \notin Missing
  BY <1>2, <1>4
<1> QED BY <1>3, <1>4, <1>5

LEMMA PassKeeps ==
    ASSUME NEW kind \in {"frames", "siblings", "mothers"}, NEW p, ListShape(p), NEW f,
           Begun(kind, p, Len(p), f)
    PROVE  \A k \in 0..Len(p) : Same(p, f[k])
<1> DEFINE n == Len(p)
           T == {k \in 0..n : Same(p, f[k])}
<1>0. n \in Nat /\ DOMAIN p = 1..n
  BY ListsAre
<1>1. 0 \in T
  BY <1>0, SameStill DEF Begun
<1>2. ASSUME NEW k \in (0 + 1)..n, k - 1 \in T PROVE k \in T
  <2>1. k \in 0..n /\ k # 0 /\ k \in DOMAIN p
    BY <1>0
  <2>2. f[k] = Repair(kind, f[k - 1], k)
    BY <2>1 DEF Begun
  <2>3. Same(p, f[k - 1]) /\ ListShape(f[k - 1]) /\ k \in DOMAIN f[k - 1]
    BY <1>2, <2>1 DEF Same
  <2>4. Same(f[k - 1], f[k])
    BY <2>2, <2>3, FrameStep, SiblingStep, MotherStep DEF Repair
  <2> QED BY <2>1, <2>3, <2>4, SameStill
<1>3. 0..n \subseteq T
  BY <1>0, <1>1, <1>2, Reached
<1> QED BY <1>3

\* A pass over the mothers moves nothing; the parts of a set that is closed under the
\* daughters and holds them keep their sizes, and afterwards every mother whose daughters
\* are all in it holds them.
LEMMA PassGrows ==
    ASSUME NEW p, ListShape(p), NEW S \in SUBSET DOMAIN p,
           \A m \in S : Holds(p, m) /\ Daughters(p, m) \subseteq S
    PROVE  LET q == ExpandMothers(p)
           IN  /\ Same(p, q)
               /\ \A m \in DOMAIN p : Daughters(p, m) \subseteq S => Holds(q, m)
<1> DEFINE n == Len(p)
           q == ExpandMothers(p)
<1>0. n \in Nat /\ DOMAIN p = 1..n
  BY ListsAre
<1>1. PICK f : Begun("mothers", p, n, f) /\ q = f[n]
  BY <1>0, MothersUnfold
<1>2. \A k \in 0..n : Same(p, f[k])
  BY <1>1, PassKeeps
<1>3. f[0] = p /\ \A k \in 1..n : f[k] = ExpandMotherOf(f[k - 1], k)
  <2>1. 0 \in 0..n /\ \A k \in 1..n : k \in 0..n /\ k # 0
    BY <1>0
  <2> QED BY <1>1, <2>1 DEF Begun, Repair
<1>4. \A k \in 0..n : /\ ListShape(f[k]) /\ DOMAIN f[k] = 1..n /\ Len(f[k]) = n
                       /\ \A j \in 1..n : f[k][j].mother = p[j].mother /\ f[k][j].box = p[j].box
  BY <1>0, <1>2 DEF Same
<1>5. \A k \in 0..n : \A j \in 1..n : Mothers(f[k], j) = Mothers(p, j)
  BY <1>0, <1>2, TreesStay
<1>6. \A k \in 0..n : \A m \in 1..n : Daughters(f[k], m) = Daughters(p, m)
                                      /\ BoxDaughters(f[k], m) = BoxDaughters(p, m)
  <2> SUFFICES ASSUME NEW k \in 0..n, NEW m \in 1..n
               PROVE  /\ Daughters(f[k], m) = Daughters(p, m)
                      /\ BoxDaughters(f[k], m) = BoxDaughters(p, m)
    OBVIOUS
  <2>1. Daughters(f[k], m) = Daughters(p, m)
    BY <1>0, <1>4, <1>5 DEF Daughters
  <2> QED BY <1>0, <1>4, <2>1 DEF BoxDaughters, Daughters
<1>7. ASSUME NEW k \in 1..n
      PROVE  /\ \A j \in 1..n : f[k][j].pos = f[k - 1][j].pos
             /\ \A m \in 1..n : f[k][m].half # f[k - 1][m].half =>
                    m \in Mothers(p, k) /\ First(p, k) /\ ~Holds(f[k - 1], m)
             /\ \A m \in Mothers(p, k) : First(p, k) /\ p[m].box =>
                    \A j \in BoxDaughters(p, m) : Reach(f[k - 1][j]) <= f[k][m].half
  <2>1. k - 1 \in 0..n /\ k \in DOMAIN f[k - 1] /\ ListShape(f[k - 1]) /\ DOMAIN f[k - 1] = 1..n
    BY <1>0, <1>4
  <2>2. Mothers(f[k - 1], k) = Mothers(p, k)
    BY <1>5, <2>1
  <2>3. First(f[k - 1], k) <=> First(p, k)
    <3>1. \A j \in 1..(k - 1) : j \in 1..n
      BY <1>0
    <3> QED BY <1>4, <2>1, <3>1 DEF First
  <2>4. \A m \in Mothers(p, k) : m \in 1..n /\ f[k - 1][m].box = p[m].box
                               /\ BoxDaughters(f[k - 1], m) = BoxDaughters(p, m)
    BY <1>0, <1>4, <1>6, <2>1 DEF Mothers
  <2>5. f[k] = ExpandMotherOf(f[k - 1], k)
    BY <1>3
  <2> QED BY <2>1, <2>2, <2>3, <2>4, <2>5, MotherStep
<1>8. \A k \in 0..n : \A j \in 1..n : f[k][j].pos = p[j].pos
  <2> DEFINE T == {k \in 0..n : \A j \in 1..n : f[k][j].pos = p[j].pos}
  <2>1. 0 \in T
    BY <1>0, <1>3
  <2>2. \A k \in (0 + 1)..n : k - 1 \in T => k \in T
    BY <1>0, <1>7
  <2>3. 0..n \subseteq T
    BY <1>0, <2>1, <2>2, Reached
  <2> QED BY <2>3
<1>9. \A k \in 0..n : \A m \in S : f[k][m].half = p[m].half
  <2> DEFINE T == {k \in 0..n : \A m \in S : f[k][m].half = p[m].half}
  <2>1. 0 \in T
    BY <1>0, <1>3
  <2>2. ASSUME NEW k \in (0 + 1)..n, k - 1 \in T PROVE k \in T
    <3>1. k \in 1..n /\ k - 1 \in 0..n /\ k \in 0..n
      BY <1>0
    <3>2. ASSUME NEW m \in S PROVE Holds(f[k - 1], m)
      <4>1. m \in 1..n /\ BoxDaughters(f[k - 1], m) = BoxDaughters(p, m)
            /\ f[k - 1][m].box = p[m].box /\ f[k - 1][m].half = p[m].half
        BY <1>0, <1>4, <1>6, <2>2, <3>1
      <4>2. \A j \in BoxDaughters(p, m) : j \in S /\ j \in 1..n
        BY <1>0 DEF BoxDaughters
      <4>3. \A j \in BoxDaughters(p, m) : Reach(f[k - 1][j]) = Reach(p[j])
        BY <1>8, <2>2, <3>1, <4>2 DEF Reach
      <4> QED BY <4>1, <4>3 DEF Holds
    <3>3. \A m \in S : m \in 1..n /\ f[k][m].half = f[k - 1][m].half
      BY <1>0, <1>7, <3>1, <3>2
    <3> QED BY <2>2, <3>1, <3>3
  <2>3. 0..n \subseteq T
    BY <1>0, <2>1, <2>2, Reached
  <2> QED BY <2>3
<1>10. ASSUME NEW m \in DOMAIN p, Daughters(p, m) \subseteq S PROVE Holds(q, m)
  <2>0. m \in 1..n /\ n \in 0..n
    BY <1>0
  <2>1. CASE Daughters(p, m) = {}
    <3>1. BoxDaughters(q, m) = {}
      BY <1>1, <1>6, <2>0, <2>1 DEF BoxDaughters
    <3> QED BY <3>1 DEF Holds
  <2>2. CASE Daughters(p, m) # {} /\ p[m].box
    <3>1. Daughters(p, m) \subseteq 1..n
      BY <1>0 DEF Daughters
    <3>2. PICK i \in Daughters(p, m) : \A j \in Daughters(p, m) : i <= j
      BY <2>2, <3>1, LeastOf
    <3>3. i \in 1..n /\ i \in DOMAIN p /\ m \in Mothers(p, i)
      BY <1>0, <3>1 DEF Daughters
    <3>4. ASSUME NEW j \in 1..n PROVE p[j].mother = p[i].mother <=> j \in Daughters(p, m)
      BY <1>0, <3>3, MotherIsOne DEF Daughters, Mothers
    <3>5. First(p, i)
      <4> SUFFICES ASSUME NEW j \in 1..(i - 1) PROVE p[j].mother # p[i].mother
        BY DEF First
      <4>1. j \in 1..n /\ ~(i <= j)
        BY <1>0, <3>3
      <4> QED BY <3>2, <3>4, <4>1
    <3>6. \A j \in BoxDaughters(p, m) : Reach(f[i - 1][j]) <= f[i][m].half
      BY <1>7, <2>2, <3>3, <3>5
    <3>7. f[n][m].half = f[i][m].half
      <4> DEFINE T == {k \in i..n : f[k][m].half = f[i][m].half}
      <4>1. i \in T
        BY <1>0, <3>3
      <4>2. ASSUME NEW k \in (i + 1)..n, k - 1 \in T PROVE k \in T
        <5>1. k \in 1..n /\ i \in 1..(k - 1) /\ k \in i..n
          BY <1>0, <3>3
        <5>2. ~(m \in Mothers(p, k) /\ First(p, k))
          <6> SUFFICES ASSUME m \in Mothers(p, k) PROVE ~First(p, k)
            OBVIOUS
          <6>1. p[k].mother = p[i].mother
            BY <3>3 DEF Mothers
          <6> QED BY <5>1, <6>1 DEF First
        <5>3. f[k][m].half = f[k - 1][m].half
          BY <1>7, <2>0, <5>1, <5>2
        <5> QED BY <4>2, <5>1, <5>3
      <4>3. i \in Nat
        BY <1>0, <3>3
      <4>4. \A k \in T : f[k][m].half = f[i][m].half
        OBVIOUS
      <4> HIDE DEF T
      <4>5. i..n \subseteq T
        BY <1>0, <4>1, <4>2, <4>3, Reached
      <4>6. n \in i..n
        BY <1>0, <3>3
      <4> QED BY <4>4, <4>5, <4>6
    <3>8. \A j \in BoxDaughters(p, m) : Reach(f[n][j]) = Reach(f[i - 1][j])
      <4>1. \A j \in BoxDaughters(p, m) : j \in S /\ j \in 1..n
        BY <1>0, <1>10 DEF BoxDaughters
      <4>2. i - 1 \in 0..n
        BY <1>0, <3>3
      <4> QED BY <1>8, <1>9, <2>0, <4>1, <4>2 DEF Reach
    <3> QED BY <1>1, <1>6, <2>0, <3>6, <3>7, <3>8 DEF Holds
  <2>3. CASE ~p[m].box
    BY <1>1, <1>4, <2>0, <2>3 DEF Holds
  <2> QED BY <2>1, <2>2, <2>3
<1> QED BY <1>1, <1>2, <1>0, <1>10


-------------------------------------------------------------------------------
(* Trees.                                                                          *)

LEMMA AncestorsAre ==
    ASSUME NEW p, NEW i
    PROVE  /\ Mothers(p, i) \subseteq Ancestors(p, i) /\ Ancestors(p, i) \subseteq DOMAIN p
           /\ \A j \in Ancestors(p, i) : Mothers(p, j) \subseteq Ancestors(p, i)
           /\ \A S \in SUBSET DOMAIN p :
                (Mothers(p, i) \subseteq S /\ \A j \in S : Mothers(p, j) \subseteq S)
                    => Ancestors(p, i) \subseteq S
  BY DEF Ancestors, Mothers

LEMMA AncestorsOfAncestors ==
    ASSUME NEW p, NEW i, NEW j \in Ancestors(p, i)
    PROVE  Ancestors(p, j) \subseteq Ancestors(p, i)
  BY AncestorsAre

Below(p, m) == {d \in DOMAIN p : m \in Ancestors(p, d)}

\* Mothers that are too small, or above one that is.
Unsettled(p) == {m \in DOMAIN p : \E d \in {m} \cup Below(p, m) : ~Holds(p, d)}

LEMMA SettledAreClosed ==
    ASSUME NEW p, NEW m \in DOMAIN p \ Unsettled(p)
    PROVE  Holds(p, m) /\ Below(p, m) \cap Unsettled(p) = {} /\ Daughters(p, m) \subseteq Below(p, m)
<1>1. \A d \in {m} \cup Below(p, m) : Holds(p, d)
  BY DEF Unsettled
<1>2. ASSUME NEW d \in Below(p, m) PROVE d \notin Unsettled(p)
  <2>1. ASSUME NEW x \in Below(p, d) PROVE x \in Below(p, m)
    BY <1>2, <2>1, AncestorsOfAncestors DEF Below
  <2> QED BY <1>1, <2>1 DEF Unsettled
<1>3. Daughters(p, m) \subseteq Below(p, m)
  BY AncestorsAre DEF Daughters, Below
<1> QED BY <1>1, <1>2, <1>3

\* Among unsettled mothers there is one above none of the others.
LEMMA OneIsLowest ==
    ASSUME NEW p, ListShape(p), Acyclic(p), Unsettled(p) # {}
    PROVE  \E m \in Unsettled(p) : Below(p, m) \cap Unsettled(p) = {}
<1> DEFINE D == DOMAIN p
           All == {Below(p, m) : m \in Unsettled(p)}
<1>1. All \subseteq FiniteSubsetsOf(D) /\ All # {}
  <2>1. \A m : Below(p, m) \in SUBSET D
    BY DEF Below
  <2>2. \A S \in SUBSET D : S \in FiniteSubsetsOf(D)
    BY ListsAre, FS_Subset DEF FiniteSubsetsOf
  <2>3. \A m : Below(p, m) \in FiniteSubsetsOf(D)
    BY <2>1, <2>2
  <2> QED BY <2>3
<1>2. PICK S \in All : \A T \in All : ~(<<T, S>> \in StrictSubsetOrdering(D))
  BY <1>1, WFMin, FS_StrictSubsetOrderingWellFounded
<1>3. PICK m \in Unsettled(p) : S = Below(p, m)
  BY <1>2
<1>4. ASSUME NEW d \in Below(p, m), d \in Unsettled(p) PROVE FALSE
  <2>1. Below(p, d) \subseteq Below(p, m)
    BY <1>4, AncestorsOfAncestors DEF Below
  <2>2. d \notin Below(p, d)
    BY DEF Acyclic, Below
  <2>3. Below(p, d) \in SUBSET D /\ Below(p, m) \in SUBSET D
    BY DEF Below
  <2>4. <<Below(p, d), S>> \in StrictSubsetOrdering(D)
    BY <1>3, <1>4, <2>1, <2>2, <2>3 DEF StrictSubsetOrdering
  <2> QED BY <1>2, <1>4, <2>4
<1> QED BY <1>4

\* Every pass settles a mother, and unsettles none.
LEMMA PassSettles ==
    ASSUME NEW p, ListShape(p), Acyclic(p)
    PROVE  LET q == ExpandMothers(p)
           IN  /\ Same(p, q) /\ Unsettled(q) \subseteq Unsettled(p)
               /\ Unsettled(p) # {} => Unsettled(q) # Unsettled(p)
<1> DEFINE q == ExpandMothers(p)
           S == DOMAIN p \ Unsettled(p)
<1>1. \A m \in S : Holds(p, m) /\ Daughters(p, m) \subseteq S /\ Below(p, m) \subseteq S
  BY SettledAreClosed DEF Below
<1>2. Same(p, q) /\ \A m \in DOMAIN p : Daughters(p, m) \subseteq S => Holds(q, m)
  <2> HIDE DEF S
  <2>1. S \in SUBSET DOMAIN p
    BY DEF S
  <2> QED BY <1>1, <2>1, PassGrows
<1>3. DOMAIN q = DOMAIN p /\ \A m \in DOMAIN p : Below(q, m) = Below(p, m)
  BY <1>2, TreesStay DEF Same, Below
<1>4. \A m \in S : Holds(q, m)
  BY <1>1, <1>2
<1>5. Unsettled(q) \subseteq Unsettled(p)
  BY <1>1, <1>3, <1>4 DEF Unsettled
<1>6. ASSUME Unsettled(p) # {} PROVE Unsettled(q) # Unsettled(p)
  <2>1. PICK m \in Unsettled(p) : Below(p, m) \cap Unsettled(p) = {}
    BY <1>6, OneIsLowest
  <2>2. m \in DOMAIN p /\ Below(p, m) \subseteq S
    BY <2>1 DEF Below, Unsettled
  <2>3. Daughters(p, m) \subseteq Below(p, m)
    BY <2>2, AncestorsAre DEF Daughters, Below
  <2>4. Holds(q, m) /\ \A d \in Below(p, m) : Holds(q, d)
    BY <1>2, <1>4, <2>2, <2>3
  <2>5. m \notin Unsettled(q)
    BY <1>3, <2>2, <2>4 DEF Unsettled
  <2> QED BY <2>1, <2>5
<1> QED BY <1>2, <1>5, <1>6

\* After as many passes as there are parts nothing is unsettled.
LEMMA PassesContain ==
    ASSUME NEW p, ListShape(p), Acyclic(p)
    PROVE  Same(p, EnsureContained(p)) /\ Unsettled(EnsureContained(p)) = {}
<1> DEFINE n == Len(p)
<1>0. n \in Nat /\ IsFiniteSet(DOMAIN p) /\ Cardinality(DOMAIN p) = n
  BY ListsAre
<1>1. PICK f : Begun("contain", p, n, f) /\ EnsureContained(p) = f[n]
  BY <1>0, ContainUnfold
<1>2. f[0] = p /\ \A k \in 1..n : f[k] = ExpandMothers(f[k - 1])
  <2>1. 0 \in 0..n /\ \A k \in 1..n : k \in 0..n /\ k # 0
    BY <1>0
  <2> QED BY <1>1, <2>1 DEF Begun, Repair
<1> DEFINE T == {k \in 0..n : Same(p, f[k]) /\ Cardinality(Unsettled(f[k])) <= n - k}
<1>3. 0 \in T
  <2>1. Unsettled(p) \in SUBSET DOMAIN p
    BY DEF Unsettled
  <2>2. Cardinality(Unsettled(p)) <= n
    BY <1>0, <2>1, FS_Subset
  <2> QED BY <1>0, <1>2, <2>2, SameStill
<1>4. ASSUME NEW k \in (0 + 1)..n, k - 1 \in T PROVE k \in T
  <2> DEFINE a == f[k - 1]
             b == f[k]
  <2>1. k \in 1..n /\ k \in 0..n /\ k - 1 \in 0..n
    BY <1>0
  <2>2. Same(p, a) /\ Cardinality(Unsettled(a)) <= n - (k - 1)
    BY <1>4
  <2>3. ListShape(a) /\ Acyclic(a) /\ DOMAIN a = DOMAIN p
    BY <2>2, TreesStay DEF Same
  <2>4. b = ExpandMothers(a)
    BY <1>2, <2>1
  <2>5. /\ Same(a, b) /\ Unsettled(b) \subseteq Unsettled(a)
        /\ Unsettled(a) # {} => Unsettled(b) # Unsettled(a)
    BY <2>3, <2>4, PassSettles
  <2>6. IsFiniteSet(Unsettled(a))
    <3>1. Unsettled(a) \in SUBSET DOMAIN p
      BY <2>3 DEF Unsettled
    <3> QED BY <1>0, <3>1, FS_Subset
  <2> HIDE DEF a, b
  <2>7. Cardinality(Unsettled(b)) <= n - k
    <3>1. /\ Cardinality(Unsettled(a)) \in Nat /\ Cardinality(Unsettled(b)) \in Nat
          /\ Cardinality(Unsettled(b)) <= Cardinality(Unsettled(a))
          /\ Cardinality(Unsettled(b)) = Cardinality(Unsettled(a)) => Unsettled(b) = Unsettled(a)
      BY <2>5, <2>6, FS_Subset, FS_CardinalityType
    <3>2. CASE Unsettled(a) = {}
      <4>1. Unsettled(b) = {}
        BY <2>5, <3>2
      <4>2. Cardinality(Unsettled(b)) = 0
        BY <4>1, FS_EmptySet
      <4> QED BY <1>0, <2>1, <4>2
    <3>3. CASE Unsettled(a) # {}
      <4>1. Cardinality(Unsettled(b)) < Cardinality(Unsettled(a))
        BY <2>5, <3>1, <3>3
      <4> QED BY <1>0, <2>1, <2>2, <3>1, <4>1
    <3> QED BY <3>2, <3>3
  <2>8. Same(p, b)
    BY <2>2, <2>5, SameStill
  <2> QED BY <2>1, <2>7, <2>8 DEF b
<1>5. n \in T
  <2>1. 0..n \subseteq T
    <3> HIDE DEF T
    <3> QED BY <1>0, <1>3, <1>4, Reached
  <2> QED BY <1>0, <2>1
<1>6. Same(p, f[n]) /\ Cardinality(Unsettled(f[n])) <= 0
  BY <1>0, <1>5
<1>7. Unsettled(f[n]) = {}
  <2>1. Unsettled(f[n]) \in SUBSET DOMAIN p
    BY <1>6 DEF Unsettled, Same
  <2>2. IsFiniteSet(Unsettled(f[n])) /\ Cardinality(Unsettled(f[n])) \in Nat
    BY <1>0, <2>1, FS_Subset, FS_CardinalityType
  <2>3. Cardinality(Unsettled(f[n])) = 0
    BY <1>6, <2>2
  <2> QED BY <2>2, <2>3, FS_EmptySet
<1> QED BY <1>1, <1>6, <1>7

\* Settled mothers hold their daughters, on either side.
LEMMA SettledContain ==
    ASSUME NEW p, ListShape(p), Unsettled(p) = {}
    PROVE  InsideMothers(p)
<1> SUFFICES ASSUME NEW i \in DOMAIN p, NEW m \in Mothers(p, i), p[i].box, p[m].box
             PROVE  /\ p[i].pos - p[i].half >= -p[m].half
                    /\ p[i].pos + p[i].half <= p[m].half
  BY DEF InsideMothers
<1>1. m \in DOMAIN p /\ i \in BoxDaughters(p, m)
  BY DEF Mothers, Daughters, BoxDaughters
<1>2. Reach(p[i]) <= p[m].half
  BY <1>1 DEF Unsettled, Holds
<1>3. p[i].pos \in Int /\ p[i].half \in Nat /\ p[m].half \in Nat
  BY <1>1 DEF ListShape, PartShape
<1> QED BY <1>2, <1>3 DEF Reach, Abs


LEMMA ContainKeeps ==
    ASSUME NEW p, ListShape(p) PROVE Same(p, EnsureContained(p))
<1> DEFINE n == Len(p)
<1>0. n \in Nat
  BY ListsAre
<1>1. PICK f : Begun("contain", p, n, f) /\ EnsureContained(p) = f[n]
  BY <1>0, ContainUnfold
<1> DEFINE T == {k \in 0..n : Same(p, f[k])}
<1>2. 0 \in T
  BY <1>0, <1>1, SameStill DEF Begun
<1>3. ASSUME NEW k \in (0 + 1)..n, k - 1 \in T PROVE k \in T
  <2>1. k \in 0..n /\ k # 0
    BY <1>0
  <2>2. f[k] = ExpandMothers(f[k - 1])
    BY <1>1, <2>1 DEF Begun, Repair
  <2>3. Same(p, f[k - 1]) /\ ListShape(f[k - 1])
    BY <1>3 DEF Same
  <2>4. Same(f[k - 1], ExpandMothers(f[k - 1]))
    <3>1. {} \in SUBSET DOMAIN f[k - 1]
      OBVIOUS
    <3> QED BY <2>3, <3>1, PassGrows
  <2> QED BY <2>1, <2>2, <2>3, <2>4, SameStill
<1>4. 0..n \subseteq T
  <2> HIDE DEF T
  <2> QED BY <1>0, <1>2, <1>3, Reached
<1> QED BY <1>0, <1>1, <1>4

\* The whole sequence of repairs keeps the tree, and leaves every box inside its mother.
LEMMA ArrangedIsContained ==
    ASSUME NEW p, ListShape(p)
    PROVE  /\ Same(p, Arrange(p))
           /\ Acyclic(Arrange(p)) => InsideMothers(Arrange(p))
<1> DEFINE normal == NormalizeFrames(p)
           first == EnsureContained(ResolveSiblings(normal))
           second == ResolveSiblings(first)
<1>1. ASSUME NEW q, ListShape(q) PROVE Same(q, NormalizeFrames(q)) /\ Same(q, ResolveSiblings(q))
  <2>1. Len(q) \in Nat /\ Len(q) \in 0..Len(q)
    BY <1>1, ListsAre
  <2> QED BY <1>1, <2>1, FramesUnfold, SiblingsUnfold, PassKeeps
<1>2. Same(p, normal) /\ ListShape(normal)
  BY <1>1 DEF Same
<1>3. Same(normal, ResolveSiblings(normal)) /\ ListShape(ResolveSiblings(normal))
  BY <1>1, <1>2 DEF Same
<1>4. Same(ResolveSiblings(normal), first) /\ ListShape(first)
  BY <1>3, ContainKeeps DEF Same
<1>5. Same(first, second) /\ ListShape(second)
  BY <1>1, <1>4 DEF Same
<1>6. Same(second, EnsureContained(second)) /\ Arrange(p) = EnsureContained(second)
  BY <1>5, ContainKeeps DEF Arrange
<1>7. Same(p, Arrange(p))
  <2> HIDE DEF normal, first, second
  <2> QED BY <1>2, <1>3, <1>4, <1>5, <1>6, SameStill
<1>8. ASSUME Acyclic(Arrange(p)) PROVE InsideMothers(Arrange(p))
  <2> HIDE DEF normal, first, second
  <2>1. Acyclic(second)
    BY <1>6, <1>8, TreesStay
  <2>2. ListShape(Arrange(p)) /\ Unsettled(Arrange(p)) = {}
    BY <1>5, <1>6, <2>1, PassesContain DEF Same
  <2> QED BY <2>2, SettledContain
<1> QED BY <1>7, <1>8

\* In a well-formed tree every way up ends at a world.
LEMMA WaysEndAtTheWorld ==
    ASSUME NEW p, ListShape(p), WellFormedTree(p), NEW i \in DOMAIN p
    PROVE  ({i} \cup Ancestors(p, i)) \cap Worlds(p) # {}
<1> DEFINE A == {i} \cup Ancestors(p, i)
           All == {Ancestors(p, a) : a \in A}
           D == DOMAIN p
<1> SUFFICES ASSUME A \cap Worlds(p) = {} PROVE FALSE
  OBVIOUS
<1>1. A \subseteq D /\ A # {} /\ \A a \in A : Mothers(p, a) \subseteq A
  BY AncestorsAre
<1>2. ASSUME NEW a \in A PROVE Mothers(p, a) # {}
  <2>1. a \in D /\ ~p[a].world
    BY <1>1 DEF Worlds
  <2> QED BY <2>1 DEF WellFormedTree
<1>3. All \subseteq FiniteSubsetsOf(D) /\ All # {}
  <2>1. \A S \in SUBSET D : S \in FiniteSubsetsOf(D)
    BY ListsAre, FS_Subset DEF FiniteSubsetsOf
  <2>2. \A a \in A : Ancestors(p, a) \in FiniteSubsetsOf(D)
    BY <2>1, AncestorsAre
  <2> QED BY <2>2
<1>4. PICK S \in All : \A T \in All : ~(<<T, S>> \in StrictSubsetOrdering(D))
  BY <1>3, WFMin, FS_StrictSubsetOrderingWellFounded
<1>5. PICK a \in A : S = Ancestors(p, a)
  BY <1>4
<1>6. PICK m \in Mothers(p, a) : TRUE
  BY <1>2
<1>7. m \in A /\ m \in Ancestors(p, a) /\ Ancestors(p, m) \subseteq Ancestors(p, a)
  BY <1>1, <1>6, AncestorsAre, AncestorsOfAncestors
<1>8. m \notin Ancestors(p, m)
  BY <1>1, <1>7 DEF WellFormedTree, Acyclic
<1>9. <<Ancestors(p, m), S>> \in StrictSubsetOrdering(D)
  BY <1>5, <1>7, <1>8, AncestorsAre DEF StrictSubsetOrdering
<1> QED BY <1>4, <1>7, <1>9

-------------------------------------------------------------------------------
(* The source the user asked for.                                                  *)

\* A word is looked up in the supplement, the answers and the proposals, in this order.
LEMMA WordsAreLast ==
    ASSUME NEW r, NEW field
    PROVE  /\ field \in DOMAIN Parameters(r) =>
                  /\ Parameters(r)[field] = LastWord(r, field)
                  /\ \/ field \in DOMAIN r.supplement /\ LastWord(r, field) = r.supplement[field]
                     \/ field \in DOMAIN r.answered /\ LastWord(r, field) = r.answered[field]
                     \/ field \in DOMAIN r.proposed /\ LastWord(r, field) = r.proposed[field]
           /\ field \notin DOMAIN Parameters(r) =>
                  LastWord(r, field) = [names |-> {}, choice |-> Nothing]
  BY DEF Parameters, LastWord, Update

\* What the user's words name are kinds of beams, and a choice is one of them.
LEMMA WordsName ==
    ASSUME NEW r \in Requests, NEW field \in SourceFields
    PROVE  LET word == LastWord(r, field)
           IN  word.names \subseteq Beams /\ word.choice \in word.names \cup {Nothing}
<1>1. RequestShape(r)
  BY ModelingAssumption
<1>2. CASE field \in DOMAIN Parameters(r)
  BY <1>1, <1>2, WordsAreLast DEF RequestShape
<1>3. CASE field \notin DOMAIN Parameters(r)
  BY <1>3, WordsAreLast
<1> QED BY <1>2, <1>3

LEMMA BeamsAreFew == ASSUME NEW S \in SUBSET Beams PROVE IsFiniteSet(S)
<1>1. IsFiniteSet({}) BY FS_EmptySet
<1>2. IsFiniteSet({"neutron"}) BY <1>1, FS_AddElement
<1>3. IsFiniteSet({"neutron", "gamma"}) BY <1>2, FS_AddElement
<1>4. IsFiniteSet({"neutron", "gamma", "proton"}) BY <1>3, FS_AddElement
<1>5. IsFiniteSet(Particles) BY <1>4, FS_AddElement DEF Particles
<1>6. IsFiniteSet(Particles \cup {"alpha"}) BY <1>5, FS_AddElement
<1>7. IsFiniteSet(Particles \cup {"alpha"} \cup {"deuteron"}) BY <1>6, FS_AddElement
<1>8. IsFiniteSet(Particles \cup {"alpha"} \cup {"deuteron"} \cup {"triton"})
  BY <1>7, FS_AddElement
<1>9. IsFiniteSet(Particles \cup {"alpha"} \cup {"deuteron"} \cup {"triton"} \cup {"ion"})
  BY <1>8, FS_AddElement
<1>10. IsFiniteSet(Particles \cup {"alpha"} \cup {"deuteron"} \cup {"triton"} \cup {"ion"}
                   \cup {"muon"})
  BY <1>9, FS_AddElement
<1>11. IsFiniteSet(Beams)
  <2>1. Beams = Particles \cup {"alpha"} \cup {"deuteron"} \cup {"triton"} \cup {"ion"}
                \cup {"muon"}
    BY DEF Beams, Hadrons, Particles
  <2> QED BY <1>10, <2>1
<1> QED BY <1>11, FS_Subset

\* Clear words are followed, whichever of the fields they are in and whoever said them, and
\* words for a particle the projection does not know replace nothing.
LEMMA ClearWordsAreFollowed ==
    ASSUME NEW r \in Requests, r.approved, Clear(r)
    PROVE  SourcesOf(ApplyConfirmedPlan(r)) = Due(r)
<1> DEFINE said == SaidSources(r)
           p == Parameters(r)
           energy == LastWord(r, "energy").names
<1>1. {"mixture", "particle", "energy"} = SourceFields
  BY DEF SourceFields
<1>2. said \subseteq Beams /\ said # {} /\ energy \subseteq said
  BY <1>1, WordsName DEF SaidSources, Clear
<1>3. NamedSources(p) = said \cup energy
  <2>1. "energy" \notin DOMAIN p => energy = {}
    BY WordsAreLast
  <2>2. "energy" \in DOMAIN p => p["energy"].names = energy
    BY WordsAreLast
  <2>3. CASE "mixture" \in DOMAIN p
    <3>1. LastWord(r, "mixture").names # {} /\ p["mixture"].names = LastWord(r, "mixture").names
      BY <2>3, WordsAreLast DEF Clear
    <3>2. said = p["mixture"].names
      BY <3>1 DEF SaidSources
    <3> QED BY <2>1, <2>2, <2>3, <3>2 DEF NamedSources
  <2>4. CASE "mixture" \notin DOMAIN p
    <3>1. LastWord(r, "mixture").names = {}
      BY <2>4, WordsAreLast
    <3>2. said = PrimaryChoice(LastWord(r, "particle"))
      BY <3>1 DEF SaidSources, PrimaryChoice
    <3>3. "particle" \in DOMAIN p
      BY <1>2, <3>2, WordsAreLast DEF PrimaryChoice
    <3>4. said = PrimaryChoice(p["particle"])
      BY <3>2, <3>3, WordsAreLast
    <3> QED BY <2>1, <2>2, <2>4, <3>3, <3>4 DEF NamedSources
  <2> QED BY <2>3, <2>4
<1>4. NamedSources(p) = said
  BY <1>2, <1>3
<1>5. CASE said \subseteq {"neutron", "gamma"}
  <2>1. said \subseteq Particles
    BY <1>5 DEF Particles
  <2>2. SourcesFrom(p) = said
    BY <1>2, <1>4, <1>5, <2>1 DEF SourcesFrom
  <2>3. ApplyConfirmedPlan(r).sources = said
    BY <1>2, <2>2 DEF ApplyConfirmedPlan, Planned
  <2> QED BY <1>2, <2>1, <2>3 DEF SourcesOf, Due
<1>6. CASE ~(said \subseteq {"neutron", "gamma"})
  <2>1. Cardinality(said) = 1
    BY <1>6 DEF Clear
  <2>2. PICK x : said = {x}
    BY <1>2, <2>1, BeamsAreFew, FS_Singleton
  <2>3. x \notin {"neutron", "gamma"}
    BY <1>6, <2>2
  <2>4. CASE x \in Particles
    <3>1. SourcesFrom(p) = said
      BY <1>4, <2>2, <2>3, <2>4 DEF SourcesFrom
    <3>2. ApplyConfirmedPlan(r).sources = said
      BY <1>2, <3>1 DEF ApplyConfirmedPlan, Planned
    <3> QED BY <1>2, <2>2, <2>4, <3>2 DEF SourcesOf, Due
  <2>5. CASE x \notin Particles
    <3>1. NamedSources(p) \cap Particles = {}
      BY <1>4, <2>2, <2>5
    <3>2. SourcesFrom(p) = {}
      BY <3>1 DEF SourcesFrom
    <3>3. ApplyConfirmedPlan(r).sources = r.sources
      BY <3>2 DEF ApplyConfirmedPlan, Planned
    <3> QED BY <2>2, <2>5, <3>3 DEF SourcesOf, Due
  <2> QED BY <2>4, <2>5
<1> QED BY <1>5, <1>6

\* Without a drafted list, one that transports neutrons is chosen, or the user's own.
LEMMA NeutronsAreTransported ==
    ASSUME NEW r \in Requests, task = ApplyConfirmedPlan(r), "neutron" \in SourcesOf(task),
           NEW drafted \in Physics \cup {Nothing}, NEW physics \in PhysicsFor(drafted)
    PROVE  \/ physics = "QGSP_BIC_HP"
           \/ physics \in Physics
           \/ r.approved /\ physics = LastWord(r, "physics")
<1>1. CASE drafted # Nothing
  BY <1>1 DEF PhysicsFor
<1>2. CASE drafted = Nothing /\ task.physics = Nothing
  BY <1>2 DEF PhysicsFor, DefaultPhysics
<1>3. CASE drafted = Nothing /\ task.physics # Nothing
  <2>1. r.approved /\ "physics" \in DOMAIN Parameters(r)
        /\ task.physics = Parameters(r)["physics"]
    BY <1>3 DEF ApplyConfirmedPlan, Planned
  <2> QED BY <1>3, <2>1, WordsAreLast DEF PhysicsFor
<1> QED BY <1>1, <1>2, <1>3


-------------------------------------------------------------------------------
(* The lists of components the nodes make.                                         *)

LEMMA TasksAre ==
    ASSUME NEW r \in Requests, task = ApplyConfirmedPlan(r)
    PROVE  task.request = r /\ task.target \in Nat /\ WorldHalf \in Nat
<1>1. r.target \in Nat
  BY ModelingAssumption DEF RequestShape
<1>2. task.request = r /\ task.target = r.target
  BY DEF ApplyConfirmedPlan, Planned
<1> QED BY <1>1, <1>2 DEF WorldHalf

LEMMA PartsMade ==
    ASSUME task.target \in Nat, NEW half \in Nat
    PROVE  PartShape(World(half)) /\ PartShape(TargetPart)
  BY ModelingAssumption DEF PartShape, World, TargetPart

LEMMA ListsWithOneMore ==
    ASSUME NEW c, PartShape(c), NEW parts, ListShape(parts)
    PROVE  ListShape(<<c>> \o parts) /\ ListShape(<<c>>) /\ ListShape(<<>>)
<1> DEFINE S == {c} \cup {parts[i] : i \in DOMAIN parts}
           s == <<c>> \o parts
<1>1. parts \in Seq(S) /\ <<c>> \in Seq(S)
  BY DEF ListShape
<1>2. /\ s \in Seq(S) /\ Len(s) = 1 + Len(parts) /\ Len(parts) \in Nat
      /\ \A i \in 1..Len(s) : s[i] \in S
  BY <1>1
<1>3. \A x \in S : PartShape(x)
  BY DEF ListShape
<1>4. s = [i \in 1..Len(s) |-> s[i]]
  BY <1>2
<1>5. ListShape(s)
  <2> HIDE DEF s, S
  <2>1. Len(s) \in Nat /\ \A i \in 1..Len(s) : PartShape(s[i])
    BY <1>2, <1>3
  <2> QED BY <1>4, <2>1, ListsMade
<1>6. ListShape(<<c>>)
  <2>1. <<c>> = [i \in 1..1 |-> <<c>>[i]] /\ \A i \in 1..1 : PartShape(<<c>>[i])
    OBVIOUS
  <2> QED BY <2>1, ListsMade
<1>7. ListShape(<<>>)
  <2>1. <<>> = [i \in 1..0 |-> <<>>[i]] /\ \A i \in 1..0 : PartShape(<<>>[i])
    OBVIOUS
  <2> QED BY <2>1, ListsMade
<1> QED BY <1>5, <1>6, <1>7

LEMMA ListsRequired ==
    ASSUME task.target \in Nat, NEW draft, ListShape(draft) PROVE ListShape(Required(draft))
<1>1. ListShape(<<TargetPart>>) /\ ListShape(<<>>)
  BY PartsMade, ListsWithOneMore
<1> QED BY <1>1 DEF Required

LEMMA ListsWithWorld ==
    ASSUME WorldHalf \in Nat, task.target \in Nat, NEW parts, ListShape(parts)
    PROVE  ListShape(WithWorld(parts))
  BY PartsMade, ListsWithOneMore DEF WithWorld

LEMMA ListsEnriched ==
    ASSUME WorldHalf \in Nat, task.target \in Nat, NEW parts, ListShape(parts)
    PROVE  ListShape(Enrich(parts))
<1> DEFINE q == Enrich(parts)
<1>1. Len(parts) \in Nat /\ DOMAIN parts = 1..Len(parts)
      /\ \A i \in 1..Len(parts) : PartShape(parts[i])
  BY ListsAre
<1>2. CASE task.target = 0
  BY <1>2 DEF Enrich
<1>3. CASE task.target # 0
  <2>1. \A i \in 1..Len(parts) : \E h \in Nat : q[i] = [parts[i] EXCEPT !.half = h]
    BY <1>1, <1>3 DEF Enrich, PartShape
  <2>2. q = [i \in 1..Len(parts) |-> q[i]]
    BY <1>1, <1>3 DEF Enrich
  <2>3. \A i \in 1..Len(parts) : PartShape(q[i])
    <3> HIDE DEF q
    <3> QED BY <1>1, <2>1 DEF PartShape
  <2> HIDE DEF q
  <2> QED BY <1>1, <2>2, <2>3, ListsMade DEF q
<1> QED BY <1>2, <1>3

LEMMA PartsPlaced ==
    ASSUME NEW c, PartShape(c), NEW h \in Nat, NEW m
    PROVE  PartShape([c EXCEPT !.half = h, !.pos = 0, !.mother = m])
  BY DEF PartShape

LEMMA ListsFallback ==
    ASSUME WorldHalf \in Nat, task.target \in Nat, NEW required, ListShape(required)
    PROVE  ListShape(FallbackComponents(required))
<1> DEFINE worlds == {required[i].id : i \in {j \in DOMAIN required : required[j].world}}
           size(c) == IF c.world THEN WorldHalf ELSE IF c.mat = "si" THEN task.target ELSE 0
           mother(c) == IF c.world THEN NoMother
                        ELSE IF worlds = {} THEN "world" ELSE CHOOSE w \in worlds : TRUE
           placed == [i \in DOMAIN required |->
                         [required[i] EXCEPT !.half = size(required[i]), !.pos = 0,
                                             !.mother = mother(required[i])]]
<1>1. Len(required) \in Nat /\ DOMAIN required = 1..Len(required)
      /\ \A i \in 1..Len(required) : PartShape(required[i])
  BY ListsAre
<1>2. \A c : size(c) \in Nat
  OBVIOUS
<1>3. \A i \in 1..Len(required) : PartShape(placed[i])
  <2> SUFFICES ASSUME NEW i \in 1..Len(required) PROVE PartShape(placed[i])
    OBVIOUS
  <2> DEFINE c == required[i]
             h == size(c)
             m == mother(c)
  <2>1. PartShape(c) /\ h \in Nat
    BY <1>1, <1>2
  <2>2. placed[i] = [c EXCEPT !.half = h, !.pos = 0, !.mother = m]
    BY <1>1
  <2> HIDE DEF c, h, m, placed
  <2>3. PartShape([c EXCEPT !.half = h, !.pos = 0, !.mother = m])
    BY <2>1, PartsPlaced
  <2> QED BY <2>2, <2>3
<1>4. placed = [i \in 1..Len(required) |-> placed[i]]
  BY <1>1
<1>5. FallbackComponents(required) = IF worlds = {} THEN <<World(WorldHalf)>> \o placed ELSE placed
  BY DEF FallbackComponents
<1> HIDE DEF placed, worlds
<1>6. ListShape(placed)
  BY <1>1, <1>3, <1>4, ListsMade
<1> QED BY <1>5, <1>6, PartsMade, ListsWithOneMore


-------------------------------------------------------------------------------
(* The modelling phase.                                                            *)

OnTask == \E r \in Requests : task = ApplyConfirmedPlan(r)

PhysicsChosen(physics) == \E drafted \in Physics \cup {Nothing} : physics \in PhysicsFor(drafted)

\* What the task and the components say of the rest of the model.
Defined(model) ==
    /\ ListShape(model.parts)
    /\ model.sources = SourcesOf(task)
    /\ model.detectors = DetectorsOf(model.parts)
    /\ model.scoring = ScoringOf(model.parts, WantsMaps(task))

Passed(model) == Defined(model) /\ PhysicsChosen(model.physics) /\ Valid(model)

ModelShape ==
    /\ DOMAIN ir = {"parts", "interfaces", "evidence", "materials", "sources", "physics",
                    "detectors", "scoring"}
    /\ DOMAIN disk = {"required", "model", "status", "asks"}

\* How far the model is when a node is next.
Drawn ==
    /\ at \in {"evidence", "guard", "geometry"} => ListShape(ir.parts) /\ ListShape(disk.required)
    /\ at = "define" => \E p : ListShape(p) /\ ir.parts = Arrange(p)
    /\ at \in {"evidence", "guard", "geometry", "define", "validate", "persist"} =>
           PhysicsChosen(ir.physics)
    /\ at = "validate" => Defined(ir)
    /\ at = "persist" /\ ~errors => Passed(ir)

ModelInv ==
    /\ ModelShape
    /\ at # "idle" => verdict = "running"
    /\ verdict # "none" => OnTask
    /\ Drawn
    /\ verdict = "passed" => Passed(disk.model)

LEMMA ModelInitOK == ModelingInit => ModelInv
<1> SUFFICES ASSUME ModelingInit PROVE ModelInv
  OBVIOUS
<1>1. ModelShape
  BY ModelingAssumption DEF ModelingInit, ModelShape, NoModel
<1> QED BY <1>1 DEF ModelingInit, ModelInv, Drawn

LEMMA ModelStep == ModelInv /\ [ModelingNext]_modelingVars => ModelInv'
<1> SUFFICES ASSUME ModelInv, [ModelingNext]_modelingVars PROVE ModelInv'
  OBVIOUS
<1>1. ASSUME task' = task
      PROVE  /\ OnTask' <=> OnTask
             /\ \A x : PhysicsChosen(x)' <=> PhysicsChosen(x)
             /\ SourcesOf(task)' = SourcesOf(task) /\ WantsMaps(task)' = WantsMaps(task)
  BY <1>1 DEF OnTask, PhysicsChosen, PhysicsFor
<1>2. ASSUME NEW r \in Requests, LoadTaskSpec(r) PROVE ModelInv'
  <2>1. ModelShape'
    BY <1>2 DEF LoadTaskSpec, ModelInv, ModelShape, NoModel
  <2>2. OnTask'
    BY <1>2 DEF LoadTaskSpec, OnTask
  <2> QED BY <1>2, <2>1, <2>2 DEF LoadTaskSpec, ModelInv, Drawn
<1>3. ASSUME at = "capture", NEW draft \in Drafts(task.request),
             NEW drafted \in Physics \cup {Nothing}, CaptureRequirements(draft, drafted)
      PROVE  ModelInv'
  <2>1. PICK r \in Requests : task = ApplyConfirmedPlan(r)
    BY <1>3 DEF ModelInv, OnTask
  <2>2. ListShape(draft) /\ task.target \in Nat /\ WorldHalf \in Nat
    BY <1>3, <2>1, TasksAre, ModelingAssumption
  <2>3. ListShape(Required(draft)) /\ ListShape(FallbackComponents(Required(draft)))
        /\ ListShape(Enrich(draft))
    BY <2>2, ListsRequired, ListsFallback, ListsEnriched
  <2>4. /\ DOMAIN ir' = DOMAIN ir /\ DOMAIN disk' = DOMAIN disk
        /\ ir'.parts = (IF NonWorld(draft) # {} THEN Enrich(draft) ELSE FallbackComponents(Required(draft)))
        /\ ir'.physics \in PhysicsFor(drafted) /\ disk'.required = Required(draft)
    BY <1>3 DEF CaptureRequirements, ModelInv, ModelShape
  <2>5. task' = task /\ verdict' = verdict /\ at' = "evidence" /\ verdict = "running"
    BY <1>3 DEF CaptureRequirements, Goto, ModelInv
  <2>6. PhysicsChosen(ir.physics)'
    BY <2>4, <2>5, <1>1 DEF PhysicsChosen, PhysicsFor
  <2>7. Drawn'
    BY <2>3, <2>4, <2>5, <2>6 DEF Drawn
  <2> QED BY <1>1, <1>3, <2>4, <2>5, <2>7 DEF ModelInv, ModelShape
<1>4. ASSUME UNCHANGED <<task, ir, errors, disk>>, at # "idle", at' = "idle", verdict' = "raised"
      PROVE  ModelInv'
  BY <1>1, <1>4 DEF ModelInv, ModelShape, Drawn
<1>5. CASE RetrieveEvidence
  <2>1. CASE Raise
    BY <1>4, <1>5, <2>1 DEF Raise, RetrieveEvidence
  <2>2. CASE ~Raise
    <3>1. /\ task' = task /\ verdict' = verdict /\ at' = "guard" /\ at = "evidence"
          /\ disk' = disk /\ \E x : ir' = [ir EXCEPT !.evidence = x]
      BY <1>5, <2>2 DEF RetrieveEvidence, Goto
    <3>2. DOMAIN ir' = DOMAIN ir /\ ir'.parts = ir.parts /\ ir'.physics = ir.physics
      BY <3>1 DEF ModelInv, ModelShape
    <3> QED BY <1>1, <3>1, <3>2 DEF ModelInv, ModelShape, Drawn
  <2> QED BY <2>1, <2>2
<1>6. CASE GuardScope
  <2>1. /\ task' = task /\ verdict' = verdict /\ at = "guard" /\ ir' = ir /\ disk' = disk
        /\ \/ at' = "geometry"
           \/ at' = "persist" /\ errors'
    BY <1>6 DEF GuardScope, Goto
  <2>2. verdict' = "running" /\ ModelShape' /\ OnTask' /\ PhysicsChosen(ir.physics)'
    BY <1>1, <2>1 DEF ModelInv, ModelShape, Drawn
  <2>3. Drawn'
    BY <2>1, <2>2 DEF ModelInv, Drawn
  <2> QED BY <2>1, <2>2, <2>3 DEF ModelInv
<1>7. ASSUME at = "geometry", NEW answer \in Drafts(task.request), Decompose(answer)
      PROVE  ModelInv'
  <2> DEFINE found == IF NonWorld(ir.parts) # {} THEN ir.parts
                      ELSE IF answer # <<>> THEN answer
                      ELSE FallbackComponents(disk.required)
             p == WithWorld(Enrich(found))
  <2>1. PICK r \in Requests : task = ApplyConfirmedPlan(r)
    BY <1>7 DEF ModelInv, OnTask
  <2>2. ListShape(answer) /\ task.target \in Nat /\ WorldHalf \in Nat
    BY <1>7, <2>1, TasksAre, ModelingAssumption
  <2>3. ListShape(found)
    BY <1>7, <2>2, ListsFallback DEF ModelInv, Drawn
  <2>4. ListShape(p)
    <3> HIDE DEF found
    <3> QED BY <2>2, <2>3, ListsEnriched, ListsWithWorld
  <2>5. ir' = [ir EXCEPT !.parts = Arrange(p), !.interfaces = InterfacesOf(Arrange(p))]
    BY <1>7 DEF Decompose
  <2>6. /\ task' = task /\ verdict' = verdict /\ at' = "define" /\ disk' = disk
        /\ verdict = "running"
    BY <1>7 DEF Decompose, Goto, ModelInv
  <2> HIDE DEF p
  <2>7. DOMAIN ir' = DOMAIN ir /\ ir'.parts = Arrange(p) /\ ir'.physics = ir.physics
    BY <2>5 DEF ModelInv, ModelShape
  <2>8. Drawn'
    BY <1>1, <1>7, <2>4, <2>6, <2>7 DEF ModelInv, Drawn
  <2> QED BY <1>1, <2>6, <2>7, <2>8 DEF ModelInv, ModelShape
<1>8. CASE DefineRest
  <2>1. CASE Raise
    BY <1>4, <1>8, <2>1 DEF Raise, DefineRest
  <2>2. CASE ~Raise
    <3>1. /\ task' = task /\ verdict' = verdict /\ at' = "validate" /\ at = "define"
          /\ disk' = disk
          /\ ir' = [ir EXCEPT !.materials = MaterialsOf(ir.parts),
                              !.sources = SourcesOf(task),
                              !.detectors = DetectorsOf(ir.parts),
                              !.scoring = ScoringOf(ir.parts, WantsMaps(task))]
      BY <1>8, <2>2 DEF DefineRest, Goto
    <3>2. PICK p : ListShape(p) /\ ir.parts = Arrange(p)
      BY <3>1 DEF ModelInv, Drawn
    <3>3. ListShape(ir.parts)
      BY <3>2, ArrangedIsContained DEF Same
    <3>4. /\ DOMAIN ir' = DOMAIN ir /\ ir'.parts = ir.parts /\ ir'.physics = ir.physics
          /\ ir'.sources = SourcesOf(task) /\ ir'.detectors = DetectorsOf(ir.parts)
          /\ ir'.scoring = ScoringOf(ir.parts, WantsMaps(task))
      BY <3>1 DEF ModelInv, ModelShape
    <3>5. Defined(ir)'
      BY <3>1, <3>3, <3>4 DEF Defined
    <3> QED BY <1>1, <3>1, <3>4, <3>5 DEF ModelInv, ModelShape, Drawn
  <2> QED BY <2>1, <2>2
<1>9. CASE Validate
  <2>1. /\ task' = task /\ verdict' = verdict /\ at' = "persist" /\ at = "validate"
        /\ ir' = ir /\ disk' = disk /\ errors' = ~Valid(ir)
    BY <1>9 DEF Validate, Goto
  <2>2. ~errors' => Passed(ir)'
    BY <1>1, <2>1 DEF Passed, Defined, ModelInv, Drawn, Valid, NotSimplified
  <2> QED BY <1>1, <2>1, <2>2 DEF ModelInv, ModelShape, Drawn
<1>10. CASE PersistModelIR
  <2>1. /\ task' = task /\ at' = "idle" /\ ir' = ir /\ verdict \in {"running"}
        /\ verdict' = IF errors THEN "failed" ELSE "passed"
        /\ DOMAIN disk' = DOMAIN disk /\ disk'.model = ir
    BY <1>10 DEF PersistModelIR, ModelInv, ModelShape
  <2>2. verdict' = "passed" => Passed(ir)
    BY <1>10, <2>1 DEF PersistModelIR, ModelInv, Drawn
  <2>3. verdict' = "passed" => Passed(disk.model)'
    BY <1>1, <2>1, <2>2 DEF Passed, Defined, Valid, NotSimplified
  <2> QED BY <1>1, <2>1, <2>3 DEF ModelInv, ModelShape, Drawn
<1>11. CASE UNCHANGED modelingVars
  BY <1>1, <1>11 DEF modelingVars, ModelInv, ModelShape, Drawn, Defined, Passed, Valid, NotSimplified
<1> QED BY <1>2, <1>3, <1>5, <1>6, <1>7, <1>8, <1>9, <1>10, <1>11 DEF ModelingNext


-------------------------------------------------------------------------------
(* The planning of the code and the delivery.                                      *)

ToldInv ==
    /\ planned # Nothing => verdict = "passed" /\ planned.model = disk.model
    /\ told # Nothing => planned # Nothing /\ told.model = disk.model
    /\ outcome # Nothing => told # Nothing /\ OutcomeShape(outcome)
    /\ manifest # Nothing => outcome # Nothing
    /\ report # Nothing => manifest # Nothing /\ report.model.sources = disk.model.sources

Collected == shelf["g4_model_ir"] = "job"

ShelfInv ==
    /\ DOMAIN shelf = Files
    /\ Collected => outcome # Nothing /\ \A f \in Made(outcome) : shelf[f] = "job"
    /\ manifest # Nothing => /\ Collected /\ manifest.files = Listed(shelf)
                             /\ manifest.validation = outcome.validation

JobInv == ModelInv /\ ToldInv /\ ShelfInv

LEMMA JobInitOK == InitJob => JobInv
<1> SUFFICES ASSUME InitJob PROVE JobInv
  OBVIOUS
<1>1. ModelInv
  BY ModelInitOK DEF InitJob, InitAll
<1>2. ToldInv
  BY DEF InitJob, InitAll, ToldInv
<1>3. shelf \in [Files -> {"nobody", "another"}]
  BY DeliveryAssumption DEF InitJob, ShelfShape
<1>4. "g4_model_ir" \in Files
  BY DEF Files, FromModel
<1> QED BY <1>1, <1>2, <1>3, <1>4 DEF InitJob, JobInv, ShelfInv, Collected

\* Once a model has passed, the phase is over.
LEMMA PassedStays ==
    ASSUME ModelInv, verdict = "passed", [ModelingNext]_modelingVars
    PROVE  UNCHANGED modelingVars
<1>1. at = "idle"
  BY DEF ModelInv
<1> QED BY <1>1 DEF ModelingNext, LoadTaskSpec, RetrieveEvidence, GuardScope, DefineRest,
                    Validate, PersistModelIR

LEMMA JobStep == JobInv /\ [NextJob]_jobVars => JobInv'
<1> SUFFICES ASSUME JobInv, [NextJob]_jobVars PROVE JobInv'
  OBVIOUS
<1>1. ModelInv'
  <2>1. [ModelingNext]_modelingVars
    BY DEF NextJob, NextAll, PlanCodegen, TellAgent, Ends, CollectArtifacts,
           GenerateArtifactManifest, GenerateFinalReport, allVars, modelingVars, jobVars
  <2> QED BY <2>1, ModelStep DEF JobInv
<1>2. CASE ModelingNext /\ UNCHANGED codegenVars /\ UNCHANGED deliveryVars
  <2>1. UNCHANGED <<planned, told, outcome, shelf, manifest, report>>
    BY <1>2 DEF codegenVars, deliveryVars
  <2>2. planned # Nothing => verdict' = verdict /\ disk' = disk
    BY <1>2, PassedStays DEF JobInv, ToldInv, modelingVars
  <2>3. ToldInv'
    BY <2>1, <2>2 DEF JobInv, ToldInv, OutcomeShape
  <2>4. ShelfInv'
    BY <2>1 DEF JobInv, ShelfInv, Collected, Made, Listed
  <2> QED BY <1>1, <2>3, <2>4 DEF JobInv
<1>3. CASE PlanCodegen /\ UNCHANGED deliveryVars
  <2>1. /\ verdict = "passed" /\ planned = Nothing /\ planned'.model = disk.model
        /\ UNCHANGED <<verdict, disk, told, outcome, shelf, manifest, report>>
    BY <1>3 DEF PlanCodegen, LoadModelIR, modelingVars, deliveryVars
  <2>2. told = Nothing
    BY <2>1 DEF JobInv, ToldInv
  <2>3. ToldInv'
    BY <2>1, <2>2 DEF JobInv, ToldInv, OutcomeShape
  <2>4. ShelfInv'
    BY <2>1 DEF JobInv, ShelfInv, Collected, Made, Listed
  <2> QED BY <1>1, <2>3, <2>4 DEF JobInv
<1>4. CASE TellAgent /\ UNCHANGED deliveryVars
  <2>1. /\ planned # Nothing /\ told = Nothing
        /\ UNCHANGED <<verdict, disk, planned, outcome, shelf, manifest, report>>
        /\ \E x : told' = [planned EXCEPT !.contexts = x]
    BY <1>4 DEF TellAgent, modelingVars, deliveryVars
  <2>2. told'.model = planned.model
    BY <2>1 DEF JobInv, ToldInv
  <2>3. ToldInv'
    BY <2>1, <2>2 DEF JobInv, ToldInv, OutcomeShape
  <2>4. ShelfInv'
    BY <2>1 DEF JobInv, ShelfInv, Collected, Made, Listed
  <2> QED BY <1>1, <2>3, <2>4 DEF JobInv
<1>5. CASE Ends
  <2>1. /\ told # Nothing /\ outcome = Nothing /\ outcome' \in Outcomes
        /\ UNCHANGED <<verdict, disk, planned, told, shelf, manifest, report>>
    BY <1>5 DEF Ends, allVars
  <2>2. ToldInv'
    BY <2>1, DeliveryAssumption DEF JobInv, ToldInv, OutcomeShape
  <2>3. ShelfInv'
    BY <2>1 DEF JobInv, ShelfInv, ToldInv, Collected
  <2> QED BY <1>1, <2>2, <2>3 DEF JobInv
<1>6. CASE CollectArtifacts
  <2>1. /\ outcome # Nothing /\ manifest = Nothing
        /\ shelf' = [f \in Files |-> IF f \in Made(outcome) THEN "job" ELSE shelf[f]]
        /\ UNCHANGED <<verdict, disk, planned, told, outcome, manifest, report>>
    BY <1>6 DEF CollectArtifacts, allVars
  <2>2. Made(outcome) \subseteq Files
    BY DEF Made, Files, FromModel, FromConfirmation
  <2>3. ShelfInv'
    BY <2>1, <2>2 DEF ShelfInv, Collected, Made
  <2>4. ToldInv'
    BY <2>1 DEF JobInv, ToldInv, OutcomeShape
  <2> QED BY <1>1, <2>3, <2>4 DEF JobInv
<1>7. CASE GenerateArtifactManifest
  <2>1. /\ Collected /\ manifest = Nothing /\ manifest' = Manifest
        /\ UNCHANGED <<verdict, disk, planned, told, outcome, shelf, report>>
    BY <1>7 DEF GenerateArtifactManifest, Collected, allVars
  <2>2. manifest'.files = Listed(shelf) /\ manifest'.validation = outcome.validation
    BY <2>1 DEF Manifest
  <2>3. ShelfInv'
    BY <2>1, <2>2 DEF JobInv, ShelfInv, Collected, Made, Listed
  <2>4. ToldInv'
    BY <2>1 DEF JobInv, ToldInv, ShelfInv, OutcomeShape
  <2> QED BY <1>1, <2>3, <2>4 DEF JobInv
<1>8. CASE GenerateFinalReport
  <2>1. /\ manifest # Nothing /\ UNCHANGED <<verdict, disk, planned, told, outcome, shelf, manifest>>
        /\ report'.model = Described(disk.model)
    BY <1>8 DEF GenerateFinalReport, allVars
  <2>2. report'.model.sources = disk.model.sources
    BY <2>1 DEF Described
  <2>3. ToldInv'
    BY <2>1, <2>2 DEF JobInv, ToldInv, OutcomeShape
  <2>4. ShelfInv'
    BY <2>1 DEF JobInv, ShelfInv, Collected, Made, Listed
  <2> QED BY <1>1, <2>3, <2>4 DEF JobInv
<1>9. CASE UNCHANGED jobVars
  BY <1>1, <1>9 DEF jobVars, JobInv, ToldInv, ShelfInv, Collected, Made, Listed, OutcomeShape
<1> QED BY <1>2, <1>3, <1>4, <1>5, <1>6, <1>7, <1>8, <1>9 DEF NextJob, NextAll

LEMMA JobAlways == SpecJob => []JobInv
BY JobInitOK, JobStep, PTL DEF SpecJob

LEMMA InvImpliesContains == JobInv => RepairContains
<1> SUFFICES ASSUME JobInv, at = "define", WellFormedTree(ir.parts) PROVE InsideMothers(ir.parts)
  BY DEF RepairContains
<1>1. PICK p : ListShape(p) /\ ir.parts = Arrange(p)
  BY DEF JobInv, ModelInv, Drawn
<1> QED BY <1>1, ArrangedIsContained DEF WellFormedTree

LEMMA InvImpliesMeasured == JobInv => PassedCanMeasure
<1> SUFFICES ASSUME JobInv, verdict = "passed"
             PROVE  LET parts == disk.model.parts
                    IN  /\ disk.model.scoring # {}
                        /\ \A id \in disk.model.scoring \cup disk.model.detectors :
                              \E i \in DOMAIN parts : parts[i].id = id /\ Placed(parts, i)
  BY DEF PassedCanMeasure
<1> DEFINE model == disk.model
           parts == model.parts
<1>1. Defined(model) /\ Valid(model)
  BY DEF JobInv, ModelInv, Passed
<1>2. model.scoring # {} /\ ListShape(parts) /\ WellFormedTree(parts)
  BY <1>1 DEF Valid, Complete, Defined
<1>3. \A id \in model.scoring \cup model.detectors : \E i \in DOMAIN parts : parts[i].id = id
  BY <1>1 DEF Defined, DetectorsOf, ScoringOf, IdsOf
<1>4. \A i \in DOMAIN parts : Placed(parts, i)
  BY <1>2, WaysEndAtTheWorld DEF Placed
<1> QED BY <1>2, <1>3, <1>4

LEMMA InvImpliesBinds == JobInv => ConfirmedSourceBinds
<1> SUFFICES ASSUME JobInv PROVE ConfirmedSourceBinds
  OBVIOUS
<1> DEFINE said == task.request
           asked(sources) == (said.approved /\ Clear(said)) => sources = Due(said)
           follows(model) ==
               /\ asked(model.sources)
               /\ "neutron" \in model.sources =>
                      \/ model.physics = "QGSP_BIC_HP"
                      \/ model.physics \in Physics
                      \/ said.approved /\ model.physics = LastWord(said, "physics")
<1>1. verdict = "passed" => follows(disk.model)
  <2> SUFFICES ASSUME verdict = "passed" PROVE follows(disk.model)
    OBVIOUS
  <2>1. PICK r \in Requests : task = ApplyConfirmedPlan(r)
    BY DEF JobInv, ModelInv, OnTask
  <2>2. said = r
    BY <2>1, TasksAre
  <2>3. PICK drafted \in Physics \cup {Nothing} : disk.model.physics \in PhysicsFor(drafted)
    BY DEF JobInv, ModelInv, Passed, PhysicsChosen
  <2>4. disk.model.sources = SourcesOf(task)
    BY DEF JobInv, ModelInv, Passed, Defined
  <2>5. asked(disk.model.sources)
    BY <2>1, <2>2, <2>4, ClearWordsAreFollowed
  <2>6. "neutron" \in disk.model.sources =>
            \/ disk.model.physics = "QGSP_BIC_HP"
            \/ disk.model.physics \in Physics
            \/ said.approved /\ disk.model.physics = LastWord(said, "physics")
    BY <2>1, <2>2, <2>3, <2>4, NeutronsAreTransported
  <2> QED BY <2>5, <2>6
<1>2. told # Nothing => verdict = "passed" /\ told.model = disk.model
  BY DEF JobInv, ToldInv
<1>3. report # Nothing => /\ verdict = "passed"
                         /\ report.model.sources = disk.model.sources
                         /\ Payload.rays = disk.model.sources
  BY DEF JobInv, ToldInv, Payload, ShownRays
<1>4. ASSUME manifest # Nothing
      PROVE  {"g4_model_ir"} \cup (IF manifest.validation = "passed" THEN {"gate_results"} ELSE {})
                 \subseteq {f \in manifest.files : shelf[f] = "job"}
  <2>1. /\ Collected /\ manifest.files = Listed(shelf) /\ OutcomeShape(outcome)
        /\ manifest.validation = outcome.validation
        /\ \A f \in Made(outcome) : shelf[f] = "job"
    BY <1>4 DEF JobInv, ToldInv, ShelfInv
  <2>2. manifest.validation = "passed" => "gate_results" \in Made(outcome)
    BY <2>1 DEF OutcomeShape, Made
  <2>3. {"g4_model_ir", "gate_results"} \subseteq Files
    BY DEF Files, FromModel
  <2> QED BY <2>1, <2>2, <2>3 DEF Collected, Listed
<1> HIDE DEF said
<1>5. report # Nothing => asked(report.model.sources) /\ asked(Payload.rays)
  BY <1>1, <1>3
<1>6. told # Nothing => follows(told.model)
  BY <1>1, <1>2
<1> QED BY <1>1, <1>4, <1>5, <1>6 DEF ConfirmedSourceBinds, said

\* The placement repairs are complete for every draft, any number of components and any
\* nesting: once they have run, every box of a well-formed tree is inside its mother.
THEOREM RepairsAreComplete == SpecJob => []RepairContains
BY JobAlways, InvImpliesContains, PTL

\* Whatever was drafted, a model that passes can be measured, and all it measures is in
\* the world.
THEOREM PassedMeasures == SpecJob => []PassedCanMeasure
BY JobAlways, InvImpliesMeasured, PTL

\* The clear words of the review of the requirements for neutrons, gammas, a proton or an
\* electron are what is simulated, told to the agent, reported and shown, those for another
\* particle change nothing of what was planned, and the package has the job's own model and
\* gate results.
THEOREM SourceBinds == SpecJob => []ConfirmedSourceBinds
BY JobAlways, InvImpliesBinds, PTL

===============================================================================
