---------------------------- MODULE OutputContract ----------------------------
(* What one smoke run leaves in an output directory and who judges it: the runner *)
(* configures, builds and runs a project and then fills gaps in the output        *)
(* contract; inspect_g4_output_quality judges the directory, not the run; the      *)
(* runtime audit looks behind the files.                                          *)
(*                                                                               *)
(* An output directory maps every file to None or to what is known of it: who      *)
(* wrote it, for which project, how many events it speaks of (0: it does not say)   *)
(* and whether its data are usable (JSON that parses; columns there, numbers        *)
(* finite, some above zero). The eight required files fall into six classes:        *)
(* "mesh" is edep_3d.csv and dose_3d.csv, "views" is geometry_view.json and         *)
(* particle_tracks.json. A program may leave two more, in the directory it is told   *)
(* or beside its executable, from which the runner fills the gaps.                   *)
EXTENDS Naturals

CONSTANTS
    Builds(_),      \* cmake and make succeed on a project
    Succeeds(_),    \* and its program ends without an error
    Writes(_, _),   \* what it writes when n events are asked for: per file None or the
                    \* number of events it speaks of and whether its data are usable
    None

Outputs == {"summary", "provenance", "events", "mesh", "deposits", "views"}
Extras == {"output.csv", "run_summary.json"}
InBuild == {"build/output.csv", "build/run_summary.json"}
Kept == Outputs \cup Extras \cup InBuild

\* A project is identified with the contents of its files. The runner marks records it
\* has invented (by = "runner"), not those it has only rewritten ("rewritten").
File(by, of, n, usable) == [by |-> by, of |-> of, n |-> n, usable |-> usable]
NoOutput == [o \in Kept |-> None]

Usable(out, o) == out[o] # None /\ out[o].usable

-------------------------------------------------------------------------------
\* simulate: the program runs with G4_OUTPUT_DIR at the directory and replaces the
\* files it writes. The others stay as they were.
Simulated(tree, out, n) ==
    LET w == Writes(tree, n)
    IN [o \in Kept |-> IF w[o] = None THEN out[o]
                       ELSE File("program", tree, w[o].n, w[o].usable)]

\* _materialize_output_contract, first what lies beside the executable, of this run or
\* of an earlier one: it replaces what lies in the directory.
Collected(out) ==
    [out EXCEPT !["output.csv"] = IF out["build/output.csv"] = None THEN @
                                  ELSE out["build/output.csv"],
                !["run_summary.json"] = IF out["build/run_summary.json"] = None THEN @
                                        ELSE out["build/run_summary.json"]]

\* Then the event table: a missing one is a copy of output.csv, ...
WithTable(out) ==
    IF out["events"] # None \/ out["output.csv"] = None THEN out
    ELSE [out EXCEPT !["events"] = out["output.csv"]]

\* ... and one that is missing, short or without energy is derived from the recorded
\* deposits.
WithEvents(out, n) ==
    IF (Usable(out, "events") /\ out["events"].n >= n) \/ ~Usable(out, "deposits")
    THEN out
    ELSE [out EXCEPT !["events"] = File("runner", out["deposits"].of,
             IF out["deposits"].n > n THEN out["deposits"].n ELSE n, TRUE)]

\* Then the mesh quantities, from the rows of the event table.
WithMesh(out) ==
    IF Usable(out, "mesh") \/ out["events"] = None THEN out
    ELSE [out EXCEPT !["mesh"] = File("runner", out["events"].of, out["events"].n,
                                      out["events"].usable)]

\* Then summary and provenance. A run_summary.json, whose ever it is, comes before what
\* the program has written as g4_summary.json; one of them that cannot be read is begun
\* anew, without the mark; an event count is added only where there is none.
Summary(tree, out, n) ==
    LET source == IF out["run_summary.json"] # None THEN out["run_summary.json"]
                  ELSE out["summary"]
    IN  IF source = None THEN File("runner", tree, n, TRUE)
        ELSE IF ~source.usable THEN File("rewritten", tree, n, TRUE)
        ELSE IF source.n = 0 THEN File(source.by, source.of, n, TRUE)
        ELSE source

WithRecords(tree, out, n) ==
    [out EXCEPT !["summary"] = Summary(tree, out, n),
                !["provenance"] = IF @ = None THEN File("runner", tree, n, TRUE) ELSE @]

Materialized(tree, out, n) ==
    WithRecords(tree, WithMesh(WithEvents(WithTable(Collected(out)), n)), n)

\* smoke_test: a project that does not build leaves the outputs alone; the contract is
\* completed for a program that fails as well.
SmokeTest(tree, out, n) ==
    [success |-> Builds(tree) /\ Succeeds(tree),
     out |-> IF Builds(tree) THEN Materialized(tree, Simulated(tree, out, n), n) ELSE out]

-------------------------------------------------------------------------------
\* inspect_g4_output_quality: it sees files, event counts and data.
Complete(out) == \A o \in Outputs : out[o] # None
Tabulated(out, n) == Usable(out, "mesh") /\ Usable(out, "events") /\ out["events"].n >= n
Renderable(out) == Usable(out, "views") /\ Usable(out, "deposits")
Quality(out, n) ==
    /\ Complete(out)
    /\ out["summary"].n = n
    /\ Tabulated(out, n)
    /\ Renderable(out)

\* collect_runtime_execution_facts: exactly the events asked for, and no record of
\* the run that is marked as the runner's.
Trustworthy(out, n) ==
    /\ Quality(out, n)
    /\ out["events"].n = n
    /\ out["summary"].by # "runner"
    /\ out["provenance"].by # "runner"

===============================================================================
