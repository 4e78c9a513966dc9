------------------------------- MODULE Knowledge -------------------------------
(* The Geant4 knowledge base and the two clients that search it. The phases and the  *)
(* agents' tools share one client: its index is built on the first question, under a *)
(* lock, from a prebuilt SQLite file, from a cache keyed by a fingerprint of the      *)
(* documents, or by embedding the documents. The chat has a client of its own, with   *)
(* a cache of embeddings beside a file that holds a hash of the documents.            *)
(*                                                                                 *)
(* The embedding service (Ollama) is the environment: it may be down when it is        *)
(* asked for, and embed any of the documents it is sent. Its requests have timeouts    *)
(* of their own, so it always answers or fails.                                        *)
EXTENDS Naturals, Sequences, FiniteSets, SequencesExt

CONSTANTS
    Context,     \* the retrieval of the context phase
    Tools,       \* the search_geant4_docs calls an agent's turn may run side by side
    NumDocs,     \* the documents of Geant4DocStore
    MaxVersion,  \* bound: how often a release changes the documents' texts, from 1
    MaxRun,      \* bound: the event loops one process starts, one for each run of a job
    Nothing

ASSUME KnowledgeAssumption ==
    /\ Context \notin Tools
    /\ Nothing \notin Nat
    /\ {NumDocs, MaxVersion, MaxRun} \subseteq Nat \ {0}

VARIABLES
    release,  \* the version of the documents, and whether geant4_index.db was built
    index,    \* the shared client's index
    lock,     \* _index_lock: its holder, the tasks waiting for it, and its event loop
    search,   \* searcher -> how far its question is and the documents it found
    cache,    \* geant4_doc_index_<fingerprint>.json, of the latest fingerprint written
    chat,     \* the chat's own client
    saved     \* the chat's cache: embeddings and hash

knowledgeVars == <<release, index, lock, search, cache, chat, saved>>

Docs == 1 .. NumDocs
\* The documents of a batch that could be embedded, in the order of the batch.
Batches == {docs \in BoundedSeq(Docs, NumDocs) :
               \A i, j \in DOMAIN docs : i < j => docs[i] < docs[j]}
Manual == 0                    \* the chunks of the prebuilt index, under ids of their own
Searchers == {Context} \cup Tools

\* An entry of an index: a document, the version of its text, and the document and the
\* text its embedding was made of; Nothing is the zero vector of a lexical entry.
Entry(d, text, of) == [doc |-> d, text |-> text, of |-> of]
Embedded(v, docs) == [i \in DOMAIN docs |-> Entry(docs[i], v, <<docs[i], v>>)]
Lexical(v) == [d \in Docs |-> Entry(d, v, Nothing)]
Prebuilt == <<Entry(Manual, Manual, <<Manual, Manual>>)>>
DocsOf(entries) == {entries[i].doc : i \in DOMAIN entries}

NoLock == [queue |-> <<>>, loop |-> Nothing, run |-> 1]
Silent == [at |-> "idle", found |-> {}]
NoCache == [fingerprint |-> Nothing, entries |-> <<>>]
ChatOff == [at |-> "off", index |-> <<>>]
NothingSaved == [embeddings |-> Nothing, hash |-> Nothing]

KnowledgeInit ==
    /\ release \in [version : {1}, prebuilt : BOOLEAN]
    /\ index = <<>>
    /\ lock = NoLock
    /\ search = [s \in Searchers |-> Silent]
    /\ cache = NoCache
    /\ chat = ChatOff
    /\ saved = NothingSaved

ChatQuiet == UNCHANGED <<chat, saved>>
\* Bound: the two clients share nothing, so they are explored one at a time, each with
\* nothing of the other's on disk.
JobsOnly == chat = ChatOff /\ saved = NothingSaved
ChatOnly == cache = NoCache /\ index = <<>> /\ \A s \in Searchers : search[s].at = "idle"
Goes(s, at) == search' = [search EXCEPT ![s].at = at]

-------------------------------------------------------------------------------
\* A question: first of all the service must be reachable.
Ask(s) ==
    /\ search[s].at = "idle" /\ JobsOnly
    /\ search' = [search EXCEPT ![s] = [at |-> "asked", found |-> {}]]
    /\ UNCHANGED <<release, index, lock, cache>> /\ ChatQuiet

\* Variant: a service that is down ends the question, and whoever asked is not told.
Backend_Untold(s) ==
    /\ search[s].at = "asked"
    /\ \/ Goes(s, "idle")
       \/ Goes(s, "reached")
    /\ UNCHANGED <<release, index, lock, cache>> /\ ChatQuiet
Backend(s) ==
    /\ search[s].at = "asked"
    /\ \/ Goes(s, "answered")
       \/ Goes(s, "reached")
    /\ UNCHANGED <<release, index, lock, cache>> /\ ChatQuiet

\* The cache file of these very documents; one torn by a crash is no cache.
Cached == cache.fingerprint = release.version

\* What the holder of the lock does before it waits for anything: an index another
\* task has built meanwhile is taken as it is; the prebuilt index, with the documents
\* as lexical entries, or the cache of the documents is loaded at once.
Load(s, recheck) ==
    /\ Goes(s, "ready")
    /\ \/ recheck /\ index # <<>> /\ UNCHANGED index
       \/ /\ ~recheck \/ index = <<>>
          /\ \/ release.prebuilt /\ index' = Prebuilt \o Lexical(release.version)
             \/ ~release.prebuilt /\ Cached /\ index' = cache.entries

MustEmbed(recheck) ==
    /\ ~recheck \/ index = <<>>
    /\ ~release.prebuilt
    /\ ~Cached

\* _ensure_indexed, up to its first wait. The lock belongs to the event loop it was
\* first waited for in: a wait in a later loop raises, which a tool reports and which
\* ends the context phase's retrieval.
Enter(s) ==
    /\ search[s].at = "reached"
    /\ \/ /\ index # <<>>
          /\ Goes(s, "ready") /\ UNCHANGED <<index, lock>>
       \/ /\ index = <<>> /\ lock.queue = <<>>
          /\ Load(s, TRUE) /\ UNCHANGED lock
       \/ /\ index = <<>> /\ lock.queue = <<>> /\ MustEmbed(TRUE)
          /\ lock' = [lock EXCEPT !.queue = <<s>>]
          /\ Goes(s, "embedding") /\ UNCHANGED index
       \/ /\ index = <<>> /\ lock.queue # <<>> /\ lock.loop \in {Nothing, lock.run}
          /\ lock' = [lock EXCEPT !.queue = Append(@, s), !.loop = lock.run]
          /\ Goes(s, "waiting") /\ UNCHANGED index
       \/ /\ index = <<>> /\ lock.queue # <<>> /\ lock.loop \notin {Nothing, lock.run}
          /\ Goes(s, "answered") /\ UNCHANGED <<index, lock>>
    /\ UNCHANGED <<release, cache>> /\ ChatQuiet

Holds(s) == lock.queue # <<>> /\ lock.queue[1] = s
Released == [lock EXCEPT !.queue = Tail(@)]
\* Variant: the index is not looked at again when the lock is obtained.
Wake_NoRecheck(s) ==
    /\ search[s].at = "waiting" /\ Holds(s)
    /\ \/ Load(s, FALSE) /\ lock' = Released
       \/ MustEmbed(FALSE) /\ Goes(s, "embedding") /\ UNCHANGED <<index, lock>>
    /\ UNCHANGED <<release, cache>> /\ ChatQuiet
\* The lock is handed to the tasks in the order they asked for it.
Wake(s) ==
    /\ search[s].at = "waiting" /\ Holds(s)
    /\ \/ Load(s, TRUE) /\ lock' = Released
       \/ MustEmbed(TRUE) /\ Goes(s, "embedding") /\ UNCHANGED <<index, lock>>
    /\ UNCHANGED <<release, cache>> /\ ChatQuiet

\* embed_batch is back with an embedding for some of the documents: they are added, and
\* the whole index is written to the cache. An error of the write is reported as a
\* failure to index; a tool looks at the index once more and goes on all the same.
Kept(docs, written) ==
    cache' = IF docs # <<>> /\ written THEN [fingerprint |-> release.version, entries |-> index']
             ELSE cache
Embeds(s) ==
    /\ search[s].at = "embedding"
    /\ \E docs \in Batches, written \in BOOLEAN :
        /\ index' = index \o Embedded(release.version, docs)
        /\ Kept(docs, written)
        /\ Goes(s, IF docs = <<>> \/ (~written /\ s = Context) THEN "answered" ELSE "ready")
    /\ lock' = Released
    /\ UNCHANGED release /\ ChatQuiet

\* The search itself, by cosine and words, or by words alone if the question could not
\* be embedded.
Find(s) ==
    /\ search[s].at = "ready"
    /\ \E found \in SUBSET DocsOf(index) :
          search' = [search EXCEPT ![s] =
                        [at |-> "answered", found |-> IF s = Context THEN found ELSE {}]]
    /\ UNCHANGED <<release, index, lock, cache>> /\ ChatQuiet

\* An answered tool call is over; its agent may make another.
Close(s) ==
    /\ search[s].at = "answered"
    /\ search' = [search EXCEPT ![s] = Silent]
    /\ UNCHANGED <<release, index, lock, cache>> /\ ChatQuiet

\* A run of a job ends, and with it its event loop; the next has one of its own.
NextRun ==
    /\ \A s \in Searchers : search[s].at = "idle"
    /\ lock.run < MaxRun
    /\ lock' = [lock EXCEPT !.run = @ + 1]
    /\ UNCHANGED <<release, index, search, cache>> /\ ChatQuiet

-------------------------------------------------------------------------------
\* The chat's first question. It looks for the service once: one that is down then
\* leaves the chat without the knowledge base for as long as it lives.
ChatAsk ==
    /\ chat.at = "off" /\ ChatOnly
    /\ chat' = [chat EXCEPT !.at = "checking"]
    /\ UNCHANGED <<release, index, lock, search, cache, saved>>

\* _load_cached_embeddings: the embeddings are those of the documents if the hash and
\* their number say so; they are paired by position.
Usable ==
    /\ saved.embeddings # Nothing
    /\ saved.hash = release.version
    /\ Len(saved.embeddings) = NumDocs
Paired == [i \in DOMAIN saved.embeddings |->
              Entry(i, release.version, saved.embeddings[i].of)]
ChatChecked ==
    /\ chat.at = "checking"
    /\ \/ chat' = [chat EXCEPT !.at = "without"]
       \/ Usable /\ chat' = [at |-> "on", index |-> Paired]
       \/ ~Usable /\ chat' = [chat EXCEPT !.at = "embedding"]
    /\ UNCHANGED <<release, index, lock, search, cache, saved>>

\* The embeddings are written first, then the hash of all the documents.
ChatEmbeds ==
    /\ chat.at = "embedding"
    /\ \E docs \in Batches :
        /\ chat' = [at |-> "on", index |-> Embedded(release.version, docs)]
        /\ saved' = IF docs = <<>> THEN saved
                    ELSE [embeddings |-> Embedded(release.version, docs), hash |-> release.version]
    /\ UNCHANGED <<release, index, lock, search, cache>>

-------------------------------------------------------------------------------
\* The process ends, in the middle of a write or not, and is started again, perhaps as
\* a later release or with the prebuilt index in place.
KnowledgeRestart ==
    /\ release' \in [version : {release.version, release.version + 1} \cap (1 .. MaxVersion),
                     prebuilt : {release.prebuilt, TRUE}]
    /\ index' = <<>> /\ lock' = NoLock /\ chat' = ChatOff
    /\ search' = [s \in Searchers |-> Silent]
    /\ UNCHANGED cache
    /\ \/ UNCHANGED saved
       \/ /\ chat.at = "embedding"
          /\ \/ saved' = [saved EXCEPT !.embeddings = Nothing]
             \/ \E docs \in Batches \ {<<>>} :
                   saved' = [saved EXCEPT !.embeddings = Embedded(release.version, docs)]

SearchStep(s) == Backend(s) \/ Enter(s) \/ Wake(s) \/ Embeds(s) \/ Find(s)
ChatStep == ChatAsk \/ ChatChecked \/ ChatEmbeds
===============================================================================
