------------------------------- MODULE MCFiles --------------------------------
EXTENDS ProjectFiles, Program, TLC

Output == "src/OutputManager.cc"
Macro == "macros/run.mac"
Helper == "src/Hits.cc"         \* a file of the agent's own
Data == "data/spectrum.csv"     \* outside the policy

MCPaths == {Output, Macro, Helper, Data}
MCSources == {Output, Helper}
MCAutoApply == MCPaths \ {Data}
MCIncludes == "G4RunManager" :> "G4RunManager.hh" @@ "G4Event" :> "G4Event.hh"
              @@ "G4ThreadLocal" :> "tls.hh"
MCTemplate ==
    [p \in MCPaths |-> IF p \in {Helper, Data} THEN Absent
                       ELSE IF p = Macro THEN SetToBag({"beamOn"}) ELSE SetToBag({"template"})]

Whole(path, spellings) == [path |-> path, old |-> None, new |-> SetToBag(spellings)]
Piece(path, old, spellings) == [path |-> path, old |-> old, new |-> SetToBag(spellings)]
Rows == {"fDeposits", "fEventRows", "fVoxelBins", "table loop", "voxel loop"}
MCEdits ==
    {Whole(Output, {"partial", "total_events line"} \cup Rows),
     Piece(Output, "template", {"torn"} \cup Rows),
     Whole(Output, {"leaning", "fEnergyDeposits", "fEventRecords", "summary totals"}),
     Piece(Macro, "beamOn", {"beamOn", "beamOn again", "/run/setCutFor"}),
     Whole(Helper, {"G4THREADLOCAL", "run_summary.json"}), Whole(Data, {"table"})}

\* What is defined twice does not compile; leaning reads the data file when it runs.
MCBuilds(tree) ==
    /\ tree[Output] # Absent
    /\ Copies("summary fallback", tree[Output]) <= 1
MCSucceeds(tree) == Has(tree[Output], "leaning") => tree[Data] # Absent

\* partial leaves the records to the runner, torn an unfinished summary, and the helper a
\* run_summary.json beside the executable; rows never filled are not usable unless the
\* program derives them from its deposits.
MCDeposits(id) == <<1>>
MCWrites(tree, n) ==
    LET c == tree[Output]
        macro == IF tree[Macro] # Absent /\ Has(tree[Macro], "beamOn again")
                 THEN <<1, 1>> ELSE <<1>>
        helped == tree[Helper] # Absent /\ Has(tree[Helper], "run_summary.json")
        written == IF Has(c, "template") THEN WriteAll(Execute(SelfCheck(macro, n)))
                   ELSE [o \in Kept |->
                CASE ~MCSucceeds(tree) \/ o \notin Outputs -> None
                  [] Has(c, "partial") /\ o \in {"summary", "provenance"} -> None
                  [] Has(c, "torn") /\ o = "summary" -> Speaks(n, FALSE)
                  [] Has(c, "fEventRows") /\ o \in {"events", "mesh"} ->
                         Speaks(n, Has(c, "rows from deposits"))
                  [] Has(c, "fEventRecords") /\ o = "events" -> Speaks(n, FALSE)
                  [] OTHER -> Speaks(n, TRUE)]
    IN IF helped THEN [written EXCEPT !["build/run_summary.json"] = Speaks(n, TRUE)]
       ELSE written

\* What may be wrong when the gates run: one thing, or two made by different phases
\* or by one phase and the environment.
Wrong ==
    {<<"spec", FALSE>>, <<"geant4", FALSE>>, <<"flawed", {12}>>, <<"proposed", "red">>,
     <<"assessor", "invalid">>}
WrongAlone ==
    Wrong \cup {<<f, FALSE>> : f \in {"sources", "structured", "bounded", "tests", "smoke",
                                      "named"}}
          \cup {<<"context", c>> : c \in {"allow_with_web_supplement", "block_no_context"}}
          \cup {<<"ir", i>> : i \in {"none", "invalid"}}
          \cup {<<"records", r>> : r \in {"unreadable", "conflicting"}}
          \cup {<<"assessor", v>> : v \in {"uncertain", "conflicting"}}
MCCases ==
    {Sound} \cup {[Sound EXCEPT ![d[1]] = d[2]] : d \in WrongAlone}
            \cup {[Sound EXCEPT ![d[1]] = d[2], ![e[1]] = e[2]] : d \in Wrong, e \in Wrong}
===============================================================================
