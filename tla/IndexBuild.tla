------------------------------- MODULE IndexBuild -------------------------------
(* How the prebuilt index of the Geant4 manuals and examples comes about: preprocess.py  *)
(* turns source files into two JSONL files, and build_index.py turns those into rows of   *)
(* geant4_index.db, incrementally, pruning, or from scratch. Sources change, embeddings   *)
(* fail and builds are killed at any time.                                                *)
(*                                                                                       *)
(* A row stands for a chunk; the database takes one row for each source, title and hash  *)
(* of the whole document, so of a document in several chunks it keeps the first that is  *)
(* embedded.                                                                             *)
EXTENDS Naturals

CONSTANTS
    Manuals, Examples,  \* the source files, by the JSONL file they go to
    Chunks,             \* source file -> how many chunks its text is split into
    Read,               \* <<source file, version>>: of a kind that is read, and long enough
    Before,             \* example -> those that are the main program instead, if there
    MaxEdit             \* bound: source file -> the versions it goes through, from 1

ASSUME IndexBuildAssumption ==
    /\ Manuals \cap Examples = {}
    /\ Chunks \in [Manuals \cup Examples -> Nat \ {0}]
    /\ Read \subseteq (Manuals \cup Examples) \X Nat
    /\ Before \in [Examples -> SUBSET Examples]
    /\ MaxEdit \in [Manuals \cup Examples -> Nat]

VARIABLES
    sources,  \* source file -> its version, 0 when there is none
    known,    \* .source_cache.json: the versions last preprocessed
    jsonl,    \* the JSONL files: the documents in each, and whether its last line is torn
    db,       \* the rows of geant4_index.db, one for each chunk it took
    build,    \* a run of build_index.py
    lapse     \* whether anything went wrong since the sources were last preprocessed

buildVars == <<sources, known, jsonl, db, build, lapse>>

Files == Manuals \cup Examples
Kinds == {"manuals", "examples"}
Of(kind) == IF kind = "manuals" THEN Manuals ELSE Examples
NoSources == [f \in Files |-> 0]

\* The options of build_index.py; pruning the database a rebuild starts with is idle.
Modes == {m \in [rebuild : BOOLEAN, skip : BOOLEAN, prune : BOOLEAN] : ~(m.rebuild /\ m.prune)}
NoBuild == [at |-> "idle", mode |-> [rebuild |-> FALSE, skip |-> FALSE, prune |-> FALSE],
            scanned |-> NoSources, left |-> {}, todo |-> {}, existing |-> {}]

Unbuilt ==
    /\ sources = [f \in Files |-> 1] /\ known = NoSources
    /\ jsonl = [k \in Kinds |-> [docs |-> {}, torn |-> FALSE]]
    /\ db = {} /\ build = NoBuild
    /\ lapse = TRUE

\* The documents preprocess.py makes of the sources. The scan lists far more than it reads:
\* it takes the .html manuals and, of an example, the headers under include/ and the first
\* main program by name; a text that is too short makes no document either.
DocumentsOf(versions) ==
    {<<f, versions[f]>> : f \in {g \in Files :
        /\ versions[g] # 0 /\ <<g, versions[g]>> \in Read
        /\ g \in Examples => \A h \in Before[g] : versions[h] = 0}}
Current(kind) == {d \in DocumentsOf(sources) : d[1] \in Of(kind)}
Documents == UNION {jsonl[k].docs : k \in Kinds}

KeyOf(chunk) == <<chunk[1], chunk[2]>>
KeysInDb == {KeyOf(row) : row \in db}
BuildAt(at) == [build EXCEPT !.at = at]

-------------------------------------------------------------------------------
\* Somebody edits or removes a source file; none is added and a removed one does not come
\* back (bound). An edit between a rebuild's preprocessing and its scan is noted although it was not read.
\* Nothing looks at the sources after that, so edits may as well come between builds.
Edit ==
    /\ build.at \in {"idle", "preprocessing", "scanning"}
    /\ \E f \in Files : \E v \in 0 .. MaxEdit[f] :
          /\ sources[f] # 0 /\ v \in {0, sources[f] + 1}
          /\ sources' = [sources EXCEPT ![f] = v]
    /\ lapse' = (lapse \/ build.at = "scanning")
    /\ UNCHANGED <<known, jsonl, db, build>>

\* main, up to the preprocessing: a rebuild deletes the database; an incremental run with
\* nothing new to read ends here, unless it prunes.
Begin ==
    /\ build.at = "idle"
    /\ \E mode \in Modes :
          LET unchanged == ~mode.rebuild /\ ~mode.skip /\ known = sources IN
          /\ build' = [NoBuild EXCEPT
                !.mode = [mode EXCEPT !.skip = FALSE],
                !.scanned = IF mode.rebuild THEN NoSources ELSE sources,
                !.at = IF mode.skip \/ (unchanged /\ mode.prune) THEN "open"
                       ELSE IF unchanged THEN "unchanged" ELSE "preprocessing"]
          /\ db' = IF mode.rebuild THEN {} ELSE db
          /\ lapse' = (lapse \/ mode.rebuild)
    /\ UNCHANGED <<sources, known, jsonl>>

\* preprocess.py writes the manuals, then the examples; each file is emptied first. It
\* fails in either, and what it had written of that one stays.
Written(kind, D, torn) == [jsonl EXCEPT ![kind] = [docs |-> D, torn |-> torn]]
Complete == [k \in Kinds |-> [docs |-> Current(k), torn |-> FALSE]]
Partial(torn) ==
    {Written("manuals", D, torn) : D \in SUBSET Current("manuals")}
    \cup {[Complete EXCEPT !["examples"] = [docs |-> D, torn |-> torn]] :
             D \in SUBSET Current("examples")}

\* run_preprocess, and main's own call for a rebuild, which does not look how it ended.
\* An incremental run notes the sources as it had found them before.
Preprocess ==
    /\ build.at = "preprocessing"
    /\ build' = [build EXCEPT !.at = IF build.mode.rebuild THEN "scanning" ELSE "open",
                              !.scanned = NoSources]
    /\ \/ /\ jsonl' = Complete
          /\ known' = IF build.mode.rebuild THEN known ELSE build.scanned
          /\ lapse' = FALSE
       \/ /\ jsonl' \in Partial(FALSE)
          /\ lapse' = TRUE
          /\ UNCHANGED known
    /\ UNCHANGED <<sources, db>>

\* A rebuild notes the sources it finds afterwards.
ScanAfterwards ==
    /\ build.at = "scanning"
    /\ known' = sources
    /\ build' = BuildAt("open")
    /\ UNCHANGED <<sources, jsonl, db, lapse>>

-------------------------------------------------------------------------------
\* Variant: a row is kept as long as its source file is there.
Pruned_ByFile == {row \in db : sources[row[1]] # 0}

\* prune_orphaned_docs: rows of documents no JSONL file has any more.
Pruned == {row \in db : KeyOf(row) \in Documents}

\* create_database and, if asked for, the pruning; a torn line ends the run.
Open ==
    /\ build.at = "open"
    /\ IF build.mode.prune /\ \E k \in Kinds : jsonl[k].torn
       THEN build' = NoBuild /\ UNCHANGED db
       ELSE /\ build' = [build EXCEPT !.at = "files", !.left = Kinds]
            /\ db' = IF build.mode.prune THEN Pruned ELSE db
    /\ UNCHANGED <<sources, known, jsonl, lapse>>

\* The chunks of a JSONL file: the documents one after the other, and a document's chunks
\* by their numbers.
ChunksOf(kind) ==
    UNION {{<<d[1], d[2], c>> : c \in 1 .. Chunks[d[1]]} : d \in jsonl[kind].docs}
IsNext(chunk, todo) ==
    /\ KeyOf(chunk) = CHOOSE d \in {KeyOf(c) : c \in todo} : TRUE
    /\ \A c \in todo : KeyOf(c) = KeyOf(chunk) => chunk[3] <= c[3]

\* process_jsonl_files takes the next file; the documents the database has by now are the
\* ones an incremental run passes over.
FileDone == [build EXCEPT !.at = "files", !.todo = {}, !.existing = {}]
NextFile ==
    /\ build.at = "files" /\ build.left # {}
    /\ \E kind \in build.left :
          build' = IF jsonl[kind].torn THEN NoBuild
                   ELSE IF jsonl[kind].docs = {} THEN [build EXCEPT !.left = @ \ {kind}]
                   ELSE [build EXCEPT !.left = @ \ {kind}, !.at = "chunks",
                                      !.todo = ChunksOf(kind),
                                      !.existing = IF build.mode.rebuild THEN {} ELSE KeysInDb]
    /\ UNCHANGED <<sources, known, jsonl, db, lapse>>

\* INSERT OR IGNORE.
Inserted(chunk) == IF KeyOf(chunk) \in KeysInDb THEN db ELSE db \cup {chunk}

\* A chunk is passed over, embedded and inserted, or given up after three attempts. The
\* code writes in batches, which may end between any two chunks.
IndexChunk ==
    /\ build.at = "chunks"
    /\ \E chunk \in build.todo :
          /\ IsNext(chunk, build.todo)
          /\ build' = IF build.todo = {chunk} THEN FileDone
                      ELSE [build EXCEPT !.todo = @ \ {chunk}]
          /\ IF KeyOf(chunk) \in build.existing
             THEN UNCHANGED <<db, lapse>>
             ELSE \/ db' = Inserted(chunk) /\ UNCHANGED lapse
                  \/ lapse' = TRUE /\ UNCHANGED db
    /\ UNCHANGED <<sources, known, jsonl>>

BuildDone ==
    /\ build.at = "unchanged" \/ (build.at = "files" /\ build.left = {})
    /\ build' = NoBuild
    /\ UNCHANGED <<sources, known, jsonl, db, lapse>>

\* The build is killed, or preprocess.py runs into its time limit and is, in the middle of
\* a line or not.
Killed ==
    /\ build.at \notin {"idle", "unchanged"}
    /\ build' = NoBuild
    /\ lapse' = TRUE
    /\ IF build.at = "preprocessing"
       THEN \E torn \in BOOLEAN : jsonl' \in Partial(torn)
       ELSE UNCHANGED jsonl
    /\ UNCHANGED <<sources, known, db>>

BuildStep ==
    \/ Begin \/ Preprocess \/ ScanAfterwards \/ Open \/ NextFile \/ IndexChunk
    \/ BuildDone \/ Killed
    \/ Edit
===============================================================================
