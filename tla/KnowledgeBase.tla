----------------------------- MODULE KnowledgeBase -----------------------------
(* The knowledge base as it is built and as it is used. All that passes between the two  *)
(* is the file geant4_index.db, which Knowledge takes for present or absent, so each is    *)
(* explored on a machine where the other has not begun (bound).                          *)
EXTENDS Preparation, IndexBuild

allVars == <<preparationVars, buildVars>>

\* One of the initial states, from which an index is built.
Unused ==
    /\ release = [version |-> 1, prebuilt |-> FALSE]
    /\ index = <<>> /\ lock = NoLock /\ search = [s \in Searchers |-> Silent]
    /\ cache = NoCache /\ chat = ChatOff /\ saved = NothingSaved
    /\ request = [empty |-> TRUE, particle |-> "none", device |-> FALSE]
    /\ prep = Fresh /\ files = NoFiles

Use(step) == Unbuilt /\ step /\ UNCHANGED buildVars
Build == Unused /\ BuildStep /\ UNCHANGED preparationVars

BaseInit == PreparationInit /\ Unbuilt
BaseNext == Use(PreparationNext) \/ Build
BaseSpec == BaseInit /\ [][BaseNext]_allVars

FairBaseSpec ==
    /\ BaseSpec
    /\ \A s \in Searchers : WF_allVars(Use(Step(s)))
    /\ WF_allVars(Use(ContextPhase)) /\ WF_allVars(Use(PlanningPhase))

(* What the first phases and the knowledge base they share with the agents' tools and *)
(* the chat promise.                                                                  *)

\* Every entry either index holds pairs a document of this release, or a chunk of the
\* prebuilt manual, with the embedding of that document's own text or with none: a
\* cache that is stale, torn, or of fewer documents is never taken for another's
\* (index_documents_cached, _load_cached_embeddings).
Own(e) ==
    /\ e.of \in {<<e.doc, e.text>>, Nothing}
    /\ e.doc # Manual => e.text = release.version
EntriesAreOwn ==
    /\ \A i \in DOMAIN index : Own(index[i])
    /\ \A i \in DOMAIN chat.index : Own(chat.index[i])

\* However many calls of a turn find the index missing at once, it is built once: no
\* document is in it twice, where it would crowd others out of the top results
\* (_ensure_indexed).
NoDocumentTwice ==
    \A i, j \in DOMAIN index : index[i].doc = index[j].doc => i = j

\* What a search finds is what there is: every document at most once, as its own.
IndexIsSound == EntriesAreOwn /\ NoDocumentTwice

\* build_index.py answers "nothing has changed" only when every document that can be made
\* of the source files it looked at has a row, unless since they were last preprocessed an
\* embedding failed, a rebuild began or a build was killed; edits at any moment of an
\* incremental run do not mislead it, nor do files it lists and does not read, or an
\* example whose main program is another one now (run_preprocess).
UnchangedMeansIndexed ==
    build.at = "unchanged" /\ ~lapse => DocumentsOf(build.scanned) \subseteq KeysInDb

\* A run that prunes, or rebuilds, leaves no row of a document the JSONL files do not have
\* (prune_orphaned_docs, main).
PrunedIsCurrent ==
    build.at = "files" /\ build.left = {} /\ (build.mode.prune \/ build.mode.rebuild)
        => KeysInDb \subseteq Documents

\* What whoever builds the index goes by.
BuiltIsTrue == UnchangedMeansIndexed /\ PrunedIsCurrent

\* A job with words to go by is never ended for want of the knowledge base, the web or a
\* model; what a phase went on with is what its files say it decided, after however many
\* interrupted attempts (score_combined_context, save_evidence_map).
OutagesNeverBlock ==
    /\ prep.at = "blocked" => request.empty
    /\ prep.at \in {"planning", "validating", "saving", "planned"} =>
          /\ files.evidence = prep.decision /\ files.report = prep.decision
          /\ prep.decision # "block_no_context"

\* Every question put to the shared client is answered, and a context phase that has
\* begun goes on to its end, though builds fail and their callers wait for one lock
\* (_ensure_indexed, retrieve_rag_context).
PreparationEnds ==
    /\ \A s \in Searchers : search[s].at = "asked" ~> search[s].at \in {"answered", "idle"}
    /\ prep.at = "retrieving" ~> prep.at \in {"planning", "blocked", "new"}
===============================================================================
