------------------------------ MODULE Hardening -------------------------------
(* The deterministic post-processing of generated files: what is done to every    *)
(* file the coding agent writes, at once, and again whenever a patch is read back   *)
(* from a workspace. Each rule looks for spellings the agent is known to produce    *)
(* and replaces them, or inserts code that is missing.                              *)
(*                                                                               *)
(* A file is a bag of the spellings the rules can tell apart; the rest of its text  *)
(* is not there.                                                                   *)
EXTENDS Naturals, Bags

CONSTANTS
    Includes,   \* spelling |-> the include line it needs
    Sources,    \* the paths of sources and headers
    Macros      \* the paths of macros

Has(c, f) == BagIn(f, c)
Copies(f, c) == IF BagIn(f, c) THEN c[f] ELSE 0
All(c, fs) == \A f \in fs : Has(c, f)
Put(c, fs) == c (+) SetToBag(fs)
Ensure(c, f) == IF Has(c, f) THEN c ELSE Put(c, {f})

\* re.sub without a count: every occurrence of old becomes new.
Rewritten(c, old, new) ==
    IF ~Has(c, old) THEN c
    ELSE [f \in DOMAIN c \ {old} |-> c[f]] (+) [f \in new |-> Copies(old, c)]
Dropped(c, old) == Rewritten(c, old, {})

\* re.sub with count=1: the first occurrence only.
RewrittenOnce(c, old, new) ==
    IF ~Has(c, old) THEN c ELSE Put(c (-) SetToBag({old}), new)

-------------------------------------------------------------------------------
\* src/SensitiveDetector.cc: the base class hides Hit, and a placeholder stands
\* where the event id belongs.
QualifiedHits(c) == Rewritten(c, "Hit", {"::Hit"})
EventIdTaken(c) ==
    RewrittenOnce(c, "SetEventID(0)", {"SetEventID(currentEvent)", "G4RunManager", "G4Event"})
PlaceholderNotesDropped(c) == Dropped(c, "// placeholder")
SensitiveDetector(c) == PlaceholderNotesDropped(EventIdTaken(QualifiedHits(c)))

\* src/DetectorConstruction.cc: the scoring manager is a singleton that registers
\* regions by mass; the placement registry takes logical volumes only.
ScoringSingleton(c) ==
    Rewritten(Rewritten(Dropped(c, "delete fScoringManager"),
              "new ScoringManager", {"ScoringManager"}),
              "RegisterRegionScoring", {"RegisterRegion", "kg"})
LegacyPlacementsDropped(c) == Dropped(c, "PlaceVolume(name, physical)")
DetectorConstruction(c) == LegacyPlacementsDropped(ScoringSingleton(c))

\* include/ScoringManager.hh and src/ScoringManager.cc: the singleton and the
\* registration by mass are added to a class that lacks them.
ScoringHeader(c) ==
    IF ~Has(c, "class ScoringManager") THEN c
    ELSE LET s == Ensure(c, "Instance();")
         IN IF Has(s, "RegisterRegion(quantities)") THEN Ensure(s, "RegisterRegion(mass);")
            ELSE s
ScoringSource(c) ==
    IF ~Has(c, "ScoringManager") THEN c
    ELSE LET s == Ensure(c, "Instance() {}")
         IN IF Has(s, "RegisterRegion(quantities)") THEN Ensure(s, "RegisterRegion(mass) {}")
            ELSE s

-------------------------------------------------------------------------------
(* src/OutputManager.cc *)
EventsRequested(c) ==
    IF Has(c, "total_events line") THEN Ensure(c, "events_requested line") ELSE c
NoopSummaryDropped(c) ==
    IF Has(c, "WriteSummaryJson(n)") THEN RewrittenOnce(c, "WriteSummaryJson() {}", {}) ELSE c
FilesystemPaths(c) == Rewritten(c, "path(fOutputDir)", {"path(c_str)"})

\* Event records that were never filled are totalled from the deposits. The guard is
\* the table's fallback alone: where the table's header is spelled another way, every
\* pass adds the summary's fallback once more.
RecordsFromDeposits(c) ==
    IF Has(c, "table fallback") \/ ~All(c, {"fEnergyDeposits", "fEventRecords"}) THEN c
    ELSE LET s == Ensure(c, "<utility>")
             t == IF Has(s, "table header") THEN Put(s, {"table fallback"}) ELSE s
         IN IF Has(t, "summary totals") THEN Put(t, {"summary fallback"}) ELSE t

\* Event rows from deposit points: the helper once, then its use in the event table
\* and in the summary.
RowsFromPoints(c) ==
    IF ~All(c, {"fEnergyDepositPoints", "fEventRows"}) THEN c
    ELSE LET s == Ensure(Ensure(c, "rows from points"), "dose backfill")
         IN Rewritten(Rewritten(s, "table loop", {"table loop over rows"}),
                      "summary loop", {"summary loop over rows"})

\* The same from deposits, for the voxel bins too.
RowsFromDeposits(c) ==
    IF ~All(c, {"fDeposits", "fEventRows", "fVoxelBins"}) THEN c
    ELSE Rewritten(Rewritten(Put(c, {"rows from deposits"}),
                   "table loop", {"table loop over rows"}),
                   "voxel loop", {"voxel loop over bins"})

\* Variant: a file that derives its rows from deposits already is gone through again.
DepositFallbacks_Unguarded(c) == RowsFromDeposits(RowsFromPoints(RecordsFromDeposits(c)))
DepositFallbacks(c) ==
    IF Has(c, "rows from deposits") THEN c
    ELSE RowsFromDeposits(RowsFromPoints(RecordsFromDeposits(c)))

OutputManager(c) ==
    DepositFallbacks(FilesystemPaths(NoopSummaryDropped(EventsRequested(c))))

-------------------------------------------------------------------------------
\* main.cc: a directory is made without a shell.
MkdirWithoutShell(c) ==
    IF ~Has(c, "mkdir -p") THEN c
    ELSE RewrittenOnce(Ensure(c, "<filesystem>"), "mkdir -p", {"create_directories"})

\* Every source and header: spellings of Geant4 that do not compile.
Spelling(c) ==
    LET s == Rewritten(Rewritten(c, "G4THREADLOCAL", {"G4ThreadLocal"}),
                       "const G4RotationMatrix*", {"G4RotationMatrix*"})
    IN IF Has(s, "G4VisAttributes") THEN Rewritten(s, "vis->", {"vis."}) ELSE s

\* _ensure_required_geant4_includes, always last: what the other rules have brought in
\* is included as well.
Needed(c) == {Includes[f] : f \in BagToSet(c) \cap DOMAIN Includes}
RequiredIncludes(c) ==
    LET s == IF Has(c, "class G4RotationMatrix;")
             THEN Ensure(Dropped(c, "class G4RotationMatrix;"), "G4RotationMatrix.hh") ELSE c
    IN Put(s, {i \in Needed(s) : ~Has(s, i)})

\* What the rules rewrite a spelling to, or put in again in every pass.
Rewrites ==
    {"::Hit", "SetEventID(currentEvent)", "G4RunManager", "G4Event", "ScoringManager",
     "RegisterRegion", "kg", "path(c_str)", "summary fallback", "table loop over rows",
     "summary loop over rows", "voxel loop over bins", "create_directories",
     "G4ThreadLocal", "G4RotationMatrix*", "vis."}

\* Macros: one cut for all particles instead of three.
CutCommands(c) ==
    IF ~Has(c, "/run/setCutFor") THEN c
    ELSE Ensure(Dropped(c, "/run/setCutFor"), "/run/setCut")

-------------------------------------------------------------------------------
\* _postprocess_generated_module_content: which rules a path calls for.
Postprocessed(path, c) ==
    LET s == CASE path = "src/SensitiveDetector.cc" -> SensitiveDetector(c)
               [] path = "src/OutputManager.cc" -> OutputManager(c)
               [] path = "src/DetectorConstruction.cc" -> DetectorConstruction(c)
               [] path = "include/ScoringManager.hh" -> ScoringHeader(c)
               [] path = "src/ScoringManager.cc" -> ScoringSource(c)
               [] path = "main.cc" -> MkdirWithoutShell(c)
               [] path \in Macros -> CutCommands(c)
               [] OTHER -> c
    IN IF path \in Sources THEN RequiredIncludes(Spelling(s)) ELSE s

===============================================================================
