------------------------------ MODULE Preparation ------------------------------
(* The first two phases of a job. The context phase asks what the request covers, of  *)
(* its words and of a model, searches the knowledge base and, unless that sufficed,    *)
(* the web, and decides whether the job may go on. The planning phase turns the        *)
(* request into a task specification: a particle from its words, or else from a        *)
(* model's plan, or else questions for the requirements review.                        *)
EXTENDS Knowledge

CONSTANTS
    Hard, Soft,    \* HARD_REQUIRED_CATEGORIES and the other required categories
    Covers         \* document -> the categories its text has the keywords of

VARIABLES
    request,  \* the user's request, as far as it is looked at
    prep,     \* the state of the two subgraphs
    files     \* 00_context and 01_task_plan of the job

prepVars == <<request, prep, files>>
preparationVars == <<knowledgeVars, prepVars>>

Categories == Hard \cup Soft

\* particle: whether its words name one. device: it is about a transistor and irradiation.
UserRequests == [empty : BOOLEAN, particle : {"said", "none"}, device : BOOLEAN]
Sensible(r) == r.empty => r.particle = "none" /\ ~r.device

Fresh == [at |-> "new", covered |-> {}, confident |-> FALSE, high |-> FALSE,
          web |-> "none", decision |-> "none", spec |-> "none", status |-> "none"]
NoFiles == [report |-> "none", evidence |-> "none", spec |-> "none"]

PreparationInit ==
    /\ KnowledgeInit
    /\ request \in {r \in UserRequests : Sensible(r)}
    /\ prep = Fresh
    /\ files = NoFiles

Prepares(at) == prep.at = at /\ UNCHANGED <<knowledgeVars, request>>
Unfiled == UNCHANGED files

-------------------------------------------------------------------------------
\* The categories the request's words may be keywords of; and what is taken for covered
\* when a model adds its claims, or none, with some confidence or none.
Words == IF request.empty THEN {{}} ELSE SUBSET Categories
Understood(words, claimed, confident) ==
    [Fresh EXCEPT !.covered = words \cup claimed, !.confident = confident \/ words # {}]

\* extract_user_context_requirements; a model that fails leaves the words alone.
ExtractRequirements ==
    /\ Prepares("new") /\ JobsOnly
    /\ \E words \in Words, claimed \in SUBSET Categories, confident \in BOOLEAN :
          prep' = [Understood(words, claimed, confident) EXCEPT !.at = "retrieving"]
    /\ Unfiled

\* retrieve_rag_context: the shared client is asked; of an unreachable service or an
\* index that cannot be built nothing comes back.
AskKnowledge ==
    /\ prep.at = "retrieving" /\ Ask(Context)
    /\ prep' = [prep EXCEPT !.at = "searching"]
    /\ UNCHANGED <<request, files>>

FoundCategories(found) == UNION {Covers[d] : d \in found}
MissingHard(found) == Hard \ FoundCategories(found)
\* Whether the score reaches 0.7: a missing hard category keeps it below.
Scores(found) == IF MissingHard(found) = {} THEN BOOLEAN ELSE {FALSE}

Retrieved ==
    /\ prep.at = "searching" /\ Close(Context)
    /\ \E high \in Scores(search[Context].found) :
          prep' = [prep EXCEPT !.at = "scoring", !.high = high]
    /\ UNCHANGED <<request, files>>

\* score_rag_context: a high score with no hard category missing needs no web search.
ScoreRetrieved ==
    /\ Prepares("scoring")
    /\ prep' = [prep EXCEPT !.at = IF prep.high THEN "deciding" ELSE "web"]
    /\ Unfiled

WebQualities == {"good", "poor", "none"}
\* retrieve_web_context: results good enough for score_web_quality, poor ones, or none.
SearchWeb ==
    /\ Prepares("web")
    /\ \E web \in WebQualities :
          prep' = [prep EXCEPT !.at = "deciding", !.web = web]
    /\ Unfiled

\* Variant: only a confident model counts as a sign of what the user wants.
HasSignal_Confident == prep.confident
HasSignal == ~request.empty \/ prep.covered # {} \/ prep.confident

\* score_combined_context.
Decision ==
    CASE HasSignal /\ Hard \subseteq prep.covered -> "allow_rag"
      [] HasSignal /\ ~(Hard \subseteq prep.covered) -> "allow_with_web_supplement"
      [] ~HasSignal /\ prep.high -> "allow_rag"
      [] ~HasSignal /\ ~prep.high /\ prep.web = "good" -> "allow_with_web_supplement"
      [] OTHER -> "block_no_context"
Decide ==
    /\ Prepares("deciding")
    /\ prep' = [Fresh EXCEPT !.at = "evidence", !.decision = Decision]
    /\ files' = [files EXCEPT !.report = Decision]

\* save_evidence_map; a decision to block ends the job here.
SaveEvidence ==
    /\ Prepares("evidence")
    /\ prep' = [prep EXCEPT !.at = IF prep.decision = "block_no_context" THEN "blocked"
                                   ELSE "planning"]
    /\ files' = [files EXCEPT !.evidence = prep.decision]

-------------------------------------------------------------------------------
\* A transistor to be irradiated by no particle the words name: too little to go on.
UnderSpecified == request.device /\ request.particle = "none"
\* The specification's particle: of the words; of the plan a model is asked for when they
\* name none; or hints for the requirements review, when the model has none either.
Plans == IF request.particle = "said" THEN {"particle"} ELSE {"planned", "hints"}

\* parse_task.
ParseTask ==
    /\ Prepares("planning")
    /\ \/ /\ UnderSpecified
          /\ prep' = [prep EXCEPT !.at = "saving", !.spec = "clarification",
                                  !.status = "needs_user_input"]
       \/ /\ ~UnderSpecified
          /\ \E plan \in Plans : prep' = [prep EXCEPT !.at = "validating", !.spec = plan]
    /\ Unfiled

\* validate_task_spec: there is one scope, so there is nothing to reject, and the three
\* further attempts _route_after_validation allows are never made.
ValidateTask ==
    /\ Prepares("validating")
    /\ prep' = [prep EXCEPT !.at = "saving", !.status = "passed"]
    /\ Unfiled

SaveTask ==
    /\ Prepares("saving")
    /\ prep' = [Fresh EXCEPT !.at = "planned", !.decision = prep.decision,
                             !.spec = prep.spec, !.status = prep.status]
    /\ files' = [files EXCEPT !.spec = prep.spec]

-------------------------------------------------------------------------------
\* Tool calls belong to the phases after these two.
ToolAsk(s) ==
    /\ prep.at = "planned" /\ Ask(s) /\ UNCHANGED prepVars
Step(s) == SearchStep(s) /\ UNCHANGED prepVars
ToolClose(s) == Close(s) /\ UNCHANGED prepVars
Chat == ChatStep /\ prep = Fresh /\ UNCHANGED prepVars
Run == NextRun /\ UNCHANGED prepVars

\* The interrupted phase is begun again: the state of the job is saved after each phase,
\* its files as they are written.
Restart ==
    /\ KnowledgeRestart
    /\ prep' = IF prep.at \in {"planned", "blocked"} THEN prep
               ELSE IF prep.at \in {"planning", "validating", "saving"}
                    THEN [Fresh EXCEPT !.at = "planning", !.decision = prep.decision]
                    ELSE Fresh
    /\ UNCHANGED <<request, files>>

ContextPhase ==
    \/ ExtractRequirements \/ AskKnowledge \/ Retrieved \/ ScoreRetrieved \/ SearchWeb
    \/ Decide \/ SaveEvidence
PlanningPhase == ParseTask \/ ValidateTask \/ SaveTask

PreparationNext ==
    \/ ContextPhase \/ PlanningPhase
    \/ \E s \in Tools : ToolAsk(s) \/ ToolClose(s)
    \/ \E s \in Searchers : Step(s)
    \/ Chat \/ Run
    \/ Restart
===============================================================================
