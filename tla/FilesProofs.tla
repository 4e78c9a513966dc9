----------------------------- MODULE FilesProofs -----------------------------
(* PassedIsReproducible, AppliedIsGated, ValidationIsSound and                      *)
(* HardeningIsRepeatable for any program, template and edits, however often code    *)
(* generation is interrupted, continued or run again, and whatever the gates find.  *)
EXTENDS ProjectFiles, WellFoundedInduction, TLAPS

\* Rewriting the text of a file leaves a file.
WritesFiles == \A p \in Paths : \A c : c # Absent => Postprocessed(p, c) # Absent

\* What the runtime gate finds out about a patch, and what must be true of it for the
\* audit to pass.
Tried(patch) == SmokeTest(patch, NoOutput, Expected)
Good(patch) == Tried(patch).success /\ Trustworthy(Tried(patch).out, Expected)

Shape ==
    /\ DOMAIN memory = {"patch", "edits", "passed", "audited", "reviewed"}
    /\ DOMAIN saved = {"patch", "status"}
    /\ DOMAIN workspace = {"tree", "out"}

Judging == at \in {"gated", "audited", "reviewed"}
Later == at \in {"applied", "loaded", "based", "modeled", "weighed", "validated"}

\* The patch in memory is that of the workspace, and the one that was built and run.
ReadBack == Judging \/ at = "gate" => memory.patch = Reconstructed(workspace.tree)

Built ==
    Judging =>
        /\ attempt.tree = memory.patch /\ saved.patch = memory.patch
        /\ attempt.out = Tried(memory.patch).out
        /\ memory.passed => Tried(memory.patch).success
        /\ at # "gated" /\ memory.audited => Good(memory.patch)

\* What is handed on: a good patch, of the very files that are in the project's directory.
HandedOn ==
    /\ (at = "saved" \/ Later) /\ saved.status = "passed" => Good(saved.patch)
    /\ at = "saved" => saved.patch = Hardened(project) /\ attempt.tree = saved.patch
    /\ Later => saved.status = "passed" /\ project = attempt.tree /\ attempt.tree = saved.patch

IInv == Shape /\ ReadBack /\ Built /\ HandedOn

-------------------------------------------------------------------------------
\* Applying to a tree what hardening makes of it leaves nothing of it that is not hardened.
LEMMA AppliedToItself ==
    ASSUME WritesFiles, NEW tree PROVE Overlaid(tree, Hardened(tree)) = Hardened(tree)
<1>1. \A p \in Paths : Hardened(tree)[p] = Absent <=> tree[p] = Absent
  BY DEF Hardened, WritesFiles
<1>2. \A p \in Paths : Overlaid(tree, Hardened(tree))[p] = Hardened(tree)[p]
  BY <1>1 DEF Overlaid
<1> QED BY <1>2 DEF Overlaid, Hardened

LEMMA InitOK == FilesInit => IInv
BY DEF FilesInit, NoMemory, IInv, Shape, Judging, Later, ReadBack, Built, HandedOn

LEMMA StepOK == WritesFiles /\ IInv /\ [FilesNext]_vars => IInv'
<1> SUFFICES ASSUME WritesFiles, IInv, [FilesNext]_vars PROVE IInv'
  OBVIOUS
<1> USE DEF IInv, generation
<1>1. CASE Generate \/ Continue \/ Repair
  <2>1. PICK seed : Start(seed)
    BY <1>1 DEF Generate, Continue, Repair
  <2>2. at' = "agent" /\ Shape'
    BY <2>1 DEF Start, NoMemory, Shape
  <2> QED BY <2>2 DEF Judging, Later, ReadBack, Built, HandedOn
<1>2. CASE Edit
  <2>1. /\ at = "agent" /\ at' = at /\ saved' = saved
        /\ memory' = [memory EXCEPT !.edits = @ + 1]
    BY <1>2 DEF Edit
  <2>2. DOMAIN workspace' = DOMAIN workspace
    BY <1>2 DEF Edit
  <2> QED BY <2>1, <2>2 DEF Shape, Judging, Later, ReadBack, Built, HandedOn
<1>3. CASE RunSmoke
  <2>1. /\ at = "agent" /\ at' = at /\ saved' = saved /\ memory' = memory
        /\ DOMAIN workspace' = DOMAIN workspace
    BY <1>3 DEF RunSmoke
  <2> QED BY <2>1 DEF Shape, Judging, Later, ReadBack, Built, HandedOn
<1>4. CASE Finish
  <2>1. /\ at' = "gate" /\ saved' = saved /\ workspace' = workspace
        /\ memory' = [memory EXCEPT !.patch = Reconstructed(workspace.tree)]
    BY <1>4 DEF Finish
  <2>2. memory'.patch = Reconstructed(workspace'.tree) /\ Shape'
    BY <2>1 DEF Shape
  <2> QED BY <2>1, <2>2 DEF Judging, Later, ReadBack, Built, HandedOn
<1>5. CASE RuntimeGate
  <2>1. /\ at = "gate" /\ at' = "gated" /\ workspace' = workspace
        /\ attempt' = [tree |-> memory.patch, out |-> Tried(memory.patch).out]
        /\ memory' = [memory EXCEPT !.passed = GatePassed(Tried(memory.patch))]
        /\ saved' = [saved EXCEPT !.patch = memory.patch]
    BY <1>5 DEF RuntimeGate, GateDirectory, Tried
  <2>2. /\ memory'.patch = memory.patch /\ saved'.patch = memory.patch /\ Shape'
        /\ memory'.passed => GatePassed(Tried(memory.patch))
    BY <2>1 DEF Shape
  <2>3. ReadBack'
    BY <2>1, <2>2 DEF ReadBack
  <2>4. Built'
    BY <2>1, <2>2 DEF Built, GatePassed
  <2> QED BY <2>1, <2>2, <2>3, <2>4 DEF HandedOn, Later
<1>6. CASE Audit
  <2>1. /\ at = "gated" /\ at' = "audited"
        /\ workspace' = workspace /\ attempt' = attempt /\ saved' = saved
    BY <1>6 DEF Audit
  <2>2. PICK verdict \in BOOLEAN :
            memory' = [memory EXCEPT !.audited = Deterministic(memory, attempt.out) /\ verdict]
    BY <1>6 DEF Audit
  <2>3. /\ memory'.patch = memory.patch /\ memory'.passed = memory.passed /\ Shape'
        /\ memory'.audited => Deterministic(memory, attempt.out)
    BY <2>1, <2>2 DEF Shape
  <2>4. memory'.audited => Good(memory.patch)
    BY <2>1, <2>3 DEF Deterministic, Good, Built, Judging
  <2>5. Built'
    BY <2>1, <2>3, <2>4 DEF Built, Judging
  <2>6. ReadBack'
    BY <2>1, <2>3 DEF ReadBack, Judging
  <2> QED BY <2>1, <2>3, <2>5, <2>6 DEF HandedOn, Later
<1>7. CASE Review
  <2>1. /\ at = "audited" /\ at' = "reviewed"
        /\ workspace' = workspace /\ attempt' = attempt /\ saved' = saved
    BY <1>7 DEF Review
  <2>2. PICK verdict \in BOOLEAN : memory' = [memory EXCEPT !.reviewed = verdict]
    BY <1>7 DEF Review
  <2>3. /\ memory'.patch = memory.patch /\ memory'.passed = memory.passed /\ Shape'
        /\ memory'.audited = memory.audited
    BY <2>1, <2>2 DEF Shape
  <2>4. Built' /\ ReadBack'
    BY <2>1, <2>3 DEF Built, ReadBack, Judging
  <2> QED BY <2>1, <2>3, <2>4 DEF HandedOn, Later
<1>8. CASE Persist
  <2>1. /\ Judging /\ at # "gated" /\ at' = "saved" /\ project' = Allowed(workspace.tree)
        /\ workspace' = workspace /\ attempt' = attempt /\ memory' = NoMemory
    BY <1>8 DEF Persist, Persisted, Judging
  <2>2. PICK status \in IF memory.audited /\ memory.reviewed THEN {"passed"}
                        ELSE {"failed", "needs_user_input"} :
            saved' = [patch |-> memory.patch, status |-> status]
    BY <1>8 DEF Persist
  <2>3. saved'.status = "passed" => Good(saved'.patch)
    BY <2>1, <2>2 DEF Built
  <2>4. saved'.patch = Hardened(project') /\ attempt'.tree = saved'.patch
    BY <2>1, <2>2 DEF Built, ReadBack, Reconstructed
  <2>5. Shape'
    BY <2>1, <2>2 DEF Shape, NoMemory
  <2> QED BY <2>1, <2>3, <2>4, <2>5 DEF HandedOn, Later, Judging, ReadBack, Built
<1>9. CASE ApplyPatch
  <2>1. /\ at = "saved" /\ at' = "applied" /\ project' = Overlaid(project, saved.patch)
        /\ workspace' = workspace /\ attempt' = attempt /\ memory' = memory /\ saved' = saved
    BY <1>9 DEF ApplyPatch
  <2>2. project' = attempt.tree /\ attempt.tree = saved.patch /\ saved.status = "passed"
    BY <1>9, <2>1, AppliedToItself DEF HandedOn, ApplyPatch
  <2>3. HandedOn'
    BY <2>1, <2>2 DEF HandedOn, Later
  <2> QED BY <2>1, <2>3 DEF Later, Judging, ReadBack, Built, Shape
<1>10. CASE LoadGateInputs \/ RunBaseGates \/ RunModelingGates \/ RunCredibilityGate
            \/ FinalizeGateResults
  <2>1. /\ Later /\ Later' /\ at' # "saved" /\ project' = project /\ workspace' = workspace
        /\ attempt' = attempt /\ memory' = memory /\ saved' = saved
    BY <1>10 DEF LoadGateInputs, RunBaseGates, RunModelingGates, RunCredibilityGate,
                 FinalizeGateResults, Later
  <2> QED BY <2>1 DEF HandedOn, Later, Judging, ReadBack, Built, Shape
<1>11. CASE BuildByHand \/ SimulateByHand
  <2>1. /\ at' = at /\ project' = project /\ workspace' = workspace
        /\ attempt' = attempt /\ memory' = memory /\ saved' = saved
    BY <1>11 DEF BuildByHand, SimulateByHand
  <2> QED BY <2>1 DEF HandedOn, Later, Judging, ReadBack, Built, Shape
<1>12. CASE Crash
  <2>1. CASE at' = "idle" /\ memory' = NoMemory /\ UNCHANGED <<saved, workspace>>
    BY <2>1 DEF HandedOn, Later, Judging, ReadBack, Built, Shape, NoMemory
  <2>2. CASE Later /\ at' = "applied" /\ UNCHANGED <<memory, saved, workspace, attempt, project>>
    BY <2>2 DEF HandedOn, Later, Judging, ReadBack, Built, Shape
  <2> QED BY <1>12, <2>1, <2>2 DEF Crash, Later
<1>13. CASE UNCHANGED vars
  BY <1>13 DEF vars, HandedOn, Later, Judging, ReadBack, Built, Shape
<1> QED BY <1>1, <1>2, <1>3, <1>4, <1>5, <1>6, <1>7, <1>8, <1>9, <1>10, <1>11, <1>12, <1>13
        DEF FilesNext

-------------------------------------------------------------------------------
(* The gates, on whatever facts and outputs.                                      *)

\* The results after each of the three nodes.
Base(f, tree, out, recorded) == BaseGates(f, tree, out, recorded, Expected)
Modeled(f, tree, out, recorded) == With(Base(f, tree, out, recorded), ModelingGates(f))
Weighing(f, out, results) == [g \in {20} |-> CredibilityGate(f, out, results)]
Final(f, tree, out, recorded) ==
    With(Modeled(f, tree, out, recorded), Weighing(f, out, Modeled(f, tree, out, recorded)))

\* What the smoke run has recorded, if there was one in this validation.
Fresh(f, tree, recorded) ==
    /\ recorded \in [tests : BOOLEAN, smoke : BOOLEAN]
    /\ Ran(f, tree) => recorded = [tests |-> f.tests, smoke |-> f.smoke /\ Succeeds(tree)]

\* What there is to find, by the phase that made it: Defects of a state.
Runs(f, tree) == f.geant4 /\ Builds(tree) /\ Succeeds(tree) /\ f.tests /\ f.smoke
Sane(f, tree, out) ==
    [p \in {"context", "task_planning", "g4_modeling", "patch", "g4_codegen"} |->
        CASE p = "context" -> f.context # "block_no_context"
          [] p = "task_planning" -> f.spec /\ f.sources
          [] p = "g4_modeling" -> f.ir = "valid" /\ f.flawed = {}
          [] p = "patch" -> f.proposed = "green"
          [] p = "g4_codegen" -> /\ f.structured /\ f.bounded /\ Runs(f, tree)
                                 /\ Quality(out, Expected)]

Bad(status) == status \in {"fail", "block"}

LEMMA Least ==
    ASSUME NEW ids, ids \subseteq Nat, ids # {}
    PROVE  Lowest(ids) \in ids /\ \A h \in ids : Lowest(ids) <= h
<1>1. PICK g \in ids : \A h \in ids : ~(<<h, g>> \in OpToRel(<, Nat))
  BY WFMin, NatLessThanWellFounded
<1>2. \A h \in ids : ~(h < g)
  BY <1>1 DEF OpToRel
<1>3. \A h \in ids : g <= h
  BY <1>2
<1> QED BY <1>3 DEF Lowest

\* The gates of the code and its run. Only gate 10 is skipped.
LEMMA BaseResults ==
    ASSUME NEW f \in Facts, NEW tree, NEW out, NEW recorded, Fresh(f, tree, recorded)
    PROVE  LET b == Base(f, tree, out, recorded)
               sane == Sane(f, tree, out)
           IN  /\ DOMAIN b = 0 .. 11
               /\ Bad(b[0]) <=> ~sane["context"]
               /\ Bad(b[1]) <=> ~sane["task_planning"]
               /\ Bad(b[2]) <=> f.ir # "valid"
               /\ ~Bad(b[3]) /\ ~Bad(b[10])
               /\ Bad(b[4]) <=> ~sane["patch"]
               /\ Bad(b[5]) <=> ~f.structured
               /\ Bad(b[6]) <=> ~Runs(f, tree)
               /\ Bad(b[8]) <=> ~Quality(out, Expected)
               /\ \A g \in {7, 9, 11} : Bad(b[g]) => ~Runs(f, tree) \/ ~Quality(out, Expected)
               /\ \A g \in 0 .. 11 : b[g] = "skipped" => g = 10
<1> DEFINE b == Base(f, tree, out, recorded)
<1>1. DOMAIN b = 0 .. 11
  BY DEF Base, BaseGates
<1>2. /\ b[0] = ContextGate(f) /\ b[1] = TaskSpecGate(f) /\ b[2] = ModelIRGate(f)
      /\ b[3] = "pass" /\ b[4] = PermissionGate(f) /\ b[5] = StructureGate(f)
  BY DEF Base, BaseGates
<1>3. /\ b[6] = PassIf(Ran(f, tree) /\ f.tests /\ f.smoke /\ Succeeds(tree))
      /\ b[7] = PassIf(recorded.tests) /\ b[8] = PassIf(Quality(out, Expected))
      /\ b[9] = PassIf(recorded.smoke) /\ b[10] = "skipped"
      /\ b[11] = PhysicsGate(out, recorded, Expected)
  BY DEF Base, BaseGates
<1> HIDE DEF b
<1>4. /\ Bad(b[0]) <=> f.context = "block_no_context"
      /\ b[0] # "skipped"
  BY <1>2 DEF ContextGate, Bad, Facts
<1>5. /\ Bad(b[1]) <=> ~(f.spec /\ f.sources)
      /\ Bad(b[2]) <=> f.ir # "valid"
      /\ ~Bad(b[3]) /\ ~Bad(b[10])
      /\ Bad(b[4]) <=> f.proposed # "green"
      /\ Bad(b[5]) <=> ~f.structured
      /\ \A g \in 1 .. 5 : b[g] # "skipped"
  BY <1>2, <1>3 DEF TaskSpecGate, ModelIRGate, PermissionGate, StructureGate, PassIf, Bad
<1>6. /\ Bad(b[6]) <=> ~Runs(f, tree)
      /\ Bad(b[8]) <=> ~Quality(out, Expected)
      /\ Bad(b[7]) <=> ~recorded.tests
      /\ Bad(b[9]) <=> ~recorded.smoke
      /\ Bad(b[11]) <=> ~(Tabulated(out, Expected) /\ recorded.smoke)
      /\ \A g \in {6, 7, 8, 9, 11} : b[g] # "skipped"
  BY <1>3 DEF PhysicsGate, PassIf, Bad, Runs, Ran
<1>7. Runs(f, tree) => recorded.tests /\ recorded.smoke
  BY DEF Runs, Fresh, Ran
<1>8. Quality(out, Expected) => Tabulated(out, Expected)
  BY DEF Quality
<1>9. \A g \in {7, 9, 11} : Bad(b[g]) => ~Runs(f, tree) \/ ~Quality(out, Expected)
  BY <1>6, <1>7, <1>8
<1>10. \A g \in 0 .. 11 : b[g] = "skipped" => g = 10
  BY <1>4, <1>5, <1>6
<1>11. LET sane == Sane(f, tree, out) IN
         /\ sane["context"] = (f.context # "block_no_context")
         /\ sane["task_planning"] = (f.spec /\ f.sources)
         /\ sane["patch"] = (f.proposed = "green")
  BY DEF Sane
<1> QED BY <1>1, <1>4, <1>5, <1>6, <1>9, <1>10, <1>11 DEF b

LEMMA ModelingResults ==
    ASSUME NEW f \in Facts
    PROVE  LET m == ModelingGates(f)
           IN  /\ DOMAIN m \in {{}, 12 .. 19}
               /\ \A g \in DOMAIN m : m[g] # "skipped"
               /\ f.ir = "valid" =>
                      /\ DOMAIN m = 12 .. 19
                      /\ \A g \in 12 .. 16 : Bad(m[g]) <=> g \in f.flawed
                      /\ Bad(m[17]) <=> ~f.bounded
                      /\ ~Bad(m[18]) /\ ~Bad(m[19])
<1>1. CASE f.ir = "none"
  BY <1>1 DEF ModelingGates, NoResults
<1>2. CASE f.ir = "invalid"
  BY <1>2 DEF ModelingGates
<1>3. CASE f.ir = "valid"
  <2> DEFINE m == ModelingGates(f)
  <2>1. /\ DOMAIN m = 12 .. 19
        /\ \A g \in 12 .. 16 : m[g] = PassIf(g \notin f.flawed)
        /\ m[17] = BoundaryGate(f) /\ m[18] = MagicNumberGate(f) /\ m[19] = ConfirmationGate
    BY <1>3 DEF ModelingGates
  <2> HIDE DEF m
  <2>2. \A g \in 12 .. 16 : (Bad(m[g]) <=> g \in f.flawed) /\ m[g] # "skipped"
    BY <2>1 DEF PassIf, Bad
  <2>3. /\ Bad(m[17]) <=> ~f.bounded
        /\ ~Bad(m[18]) /\ ~Bad(m[19])
        /\ \A g \in 17 .. 19 : m[g] # "skipped"
    BY <2>1 DEF BoundaryGate, MagicNumberGate, ConfirmationGate, PassIf, Bad
  <2> QED BY <1>3, <2>1, <2>2, <2>3 DEF m
<1> QED BY <1>1, <1>2, <1>3 DEF Facts

\* A defect makes a critical gate fail before gate 20 is asked, and the first gate that
\* fails belongs to a phase that made one.
LEMMA Verdict ==
    ASSUME NEW f \in Facts, NEW tree, NEW out, NEW recorded, Fresh(f, tree, recorded)
    PROVE  LET r == Final(f, tree, out, recorded)
               sane == Sane(f, tree, out)
               bad == {p \in DOMAIN sane : ~sane[p]}
           IN  /\ Passed(r) => bad = {}
               /\ ~Passed(r) => RetryTarget(Failed(r)) \in IF bad = {} THEN {"report"} ELSE bad
<1> DEFINE b == Base(f, tree, out, recorded)
           m == ModelingGates(f)
           prior == Modeled(f, tree, out, recorded)
           r == Final(f, tree, out, recorded)
           sane == Sane(f, tree, out)
           bad == {p \in DOMAIN sane : ~sane[p]}
<1>1. /\ DOMAIN prior = DOMAIN b \cup DOMAIN m
      /\ \A g \in DOMAIN prior : prior[g] = IF g \in DOMAIN m THEN m[g] ELSE b[g]
      /\ DOMAIN r = DOMAIN prior \cup {20}
      /\ \A g \in DOMAIN r : r[g] = IF g = 20 THEN CredibilityGate(f, out, prior) ELSE prior[g]
  BY DEF Modeled, Final, With, Weighing
<1>2. /\ DOMAIN b = 0 .. 11
      /\ Bad(b[0]) <=> ~sane["context"]
      /\ Bad(b[1]) <=> ~sane["task_planning"]
      /\ Bad(b[2]) <=> f.ir # "valid"
      /\ ~Bad(b[3]) /\ ~Bad(b[10])
      /\ Bad(b[4]) <=> ~sane["patch"]
      /\ Bad(b[5]) <=> ~f.structured
      /\ Bad(b[6]) <=> ~Runs(f, tree)
      /\ Bad(b[8]) <=> ~Quality(out, Expected)
      /\ \A g \in {7, 9, 11} : Bad(b[g]) => ~Runs(f, tree) \/ ~Quality(out, Expected)
      /\ \A g \in 0 .. 11 : b[g] = "skipped" => g = 10
  BY BaseResults
<1>3. /\ DOMAIN m \in {{}, 12 .. 19}
      /\ \A g \in DOMAIN m : m[g] # "skipped"
      /\ f.ir = "valid" =>
             /\ DOMAIN m = 12 .. 19
             /\ \A g \in 12 .. 16 : Bad(m[g]) <=> g \in f.flawed
             /\ Bad(m[17]) <=> ~f.bounded
             /\ ~Bad(m[18]) /\ ~Bad(m[19])
  BY ModelingResults
<1>4. /\ bad \subseteq {"context", "task_planning", "g4_modeling", "patch", "g4_codegen"}
      /\ \A p \in {"context", "task_planning", "g4_modeling", "patch", "g4_codegen"} :
             p \in bad <=> ~sane[p]
      /\ sane["g4_modeling"] <=> f.ir = "valid" /\ f.flawed = {}
      /\ sane["g4_codegen"] <=> /\ f.structured /\ f.bounded /\ Runs(f, tree)
                                /\ Quality(out, Expected)
  BY DEF Sane
<1>5. f.flawed \subseteq 12 .. 16
  BY DEF Facts
<1> HIDE DEF b, m, prior, r, sane, bad
<1>6. DOMAIN prior \subseteq 0 .. 19 /\ 0 .. 11 \subseteq DOMAIN prior
  BY <1>1, <1>2, <1>3
<1>7. \A g \in 0 .. 11 : prior[g] = b[g]
  <2>1. \A g \in 0 .. 11 : g \notin DOMAIN m
    BY <1>3
  <2> QED BY <1>1, <1>6, <2>1
<1>8. f.ir = "valid" => \A g \in 12 .. 19 : g \in DOMAIN prior /\ prior[g] = m[g]
  BY <1>1, <1>3
<1>9. ASSUME NEW p \in bad PROVE PriorFailure(prior)
  <2>1. ASSUME NEW g \in DOMAIN prior, Bad(prior[g]), g \notin {10, 18} PROVE PriorFailure(prior)
    BY <2>1 DEF PriorFailure, Failed, Critical, Bad
  <2>2. CASE p = "context"
    BY <1>2, <1>4, <1>6, <1>7, <2>1, <2>2
  <2>3. CASE p = "task_planning"
    BY <1>2, <1>4, <1>6, <1>7, <2>1, <2>3
  <2>4. CASE p = "patch"
    BY <1>2, <1>4, <1>6, <1>7, <2>1, <2>4
  <2>5. CASE f.ir # "valid"
    BY <1>2, <1>6, <1>7, <2>1, <2>5
  <2>6. CASE f.ir = "valid" /\ p = "g4_modeling"
    <3>1. PICK g \in f.flawed : g \in 12 .. 16
      BY <1>4, <1>5, <2>6
    <3>2. g \in DOMAIN prior /\ Bad(prior[g])
      BY <1>3, <1>8, <2>6, <3>1
    <3> QED BY <2>1, <3>1, <3>2
  <2>7. CASE f.ir = "valid" /\ p = "g4_codegen"
    <3>1. ~f.structured \/ ~f.bounded \/ ~Runs(f, tree) \/ ~Quality(out, Expected)
      BY <1>4, <2>7
    <3>2. ~f.bounded => 17 \in DOMAIN prior /\ Bad(prior[17])
      BY <1>3, <1>8, <2>7
    <3> QED BY <1>2, <1>6, <1>7, <2>1, <3>1, <3>2
  <2> QED BY <1>4, <2>2, <2>3, <2>4, <2>5, <2>6, <2>7
<1>10. Failed(prior) \subseteq Failed(r)
  BY <1>1, <1>6 DEF Failed
<1>11. Failed(r) \subseteq Nat
  BY <1>1, <1>6 DEF Failed
<1>12. Passed(r) <=> Failed(r) = {}
  <2>1. \A g \in DOMAIN r : r[g] = "skipped" => g = 10
    <3>1. \A g \in DOMAIN prior : prior[g] = "skipped" => g = 10
      BY <1>1, <1>2, <1>3
    <3>2. CredibilityGate(f, out, prior) # "skipped"
      BY DEF CredibilityGate, StatusOf
    <3> QED BY <1>1, <1>6, <3>1, <3>2
  <2> QED BY <2>1 DEF Passed, Critical
<1>13. Passed(r) => bad = {}
  BY <1>9, <1>10, <1>12 DEF PriorFailure
<1>14. ASSUME ~Passed(r) PROVE RetryTarget(Failed(r)) \in IF bad = {} THEN {"report"} ELSE bad
  <2> DEFINE g == Lowest(Failed(r))
  <2>1. Failed(r) # {} /\ g \in Failed(r) /\ \A h \in Failed(r) : g <= h
    BY <1>11, <1>12, <1>14, Least
  <2>2. g \in DOMAIN r /\ Bad(r[g])
    BY <2>1 DEF Failed, Bad
  <2> HIDE DEF g
  <2>3. CASE g = 20
    <3>1. Bad(CredibilityGate(f, out, prior))
      BY <1>1, <2>2, <2>3
    <3>2. ~PriorFailure(prior)
      BY <3>1 DEF CredibilityGate, Bad
    <3>3. bad = {}
      BY <1>9, <3>2
    <3>4. RetryTarget(Failed(r)) = "report"
      BY <2>1, <2>3 DEF RetryTarget, g
    <3> QED BY <3>3, <3>4
  <2>4. CASE g # 20
    <3>1. g \in DOMAIN prior /\ Bad(prior[g]) /\ g \in 0 .. 19
      BY <1>1, <1>6, <2>2, <2>4
    <3>2. CASE g \in 0 .. 11
      <4>1. Bad(b[g])
        BY <1>7, <3>1, <3>2
      <4>2. \/ g = 0 /\ "context" \in bad
            \/ g = 1 /\ "task_planning" \in bad
            \/ g = 2 /\ "g4_modeling" \in bad
            \/ g = 4 /\ "patch" \in bad
            \/ g \in {5, 6, 7, 8, 9, 11} /\ "g4_codegen" \in bad
        BY <1>2, <1>4, <3>2, <4>1
      <4> QED BY <2>1, <4>2 DEF RetryTarget, g
    <3>3. CASE g \in 12 .. 19
      <4>1. f.ir = "valid"
        <5>1. ASSUME f.ir # "valid" PROVE FALSE
          <6>1. 2 \in Failed(prior)
            BY <1>2, <1>6, <1>7, <5>1 DEF Failed, Bad
          <6> QED BY <1>10, <2>1, <3>3, <6>1
        <5> QED BY <5>1
      <4>2. Bad(m[g])
        BY <1>8, <3>1, <3>3, <4>1
      <4>3. \/ g \in 12 .. 16 /\ "g4_modeling" \in bad
            \/ g = 17 /\ "g4_codegen" \in bad
        BY <1>3, <1>4, <3>3, <4>1, <4>2
      <4> QED BY <2>1, <4>3 DEF RetryTarget, g
    <3> QED BY <3>1, <3>2, <3>3
  <2> QED BY <2>3, <2>4
<1> QED BY <1>13, <1>14 DEF r, sane, bad

-------------------------------------------------------------------------------
\* Between the smoke run of gate validation and its verdict.
Past == at \in {"based", "modeled", "weighed"}

GateShape ==
    /\ DOMAIN validation = {"out", "recorded", "facts", "results", "passed"}
    /\ DOMAIN validation.out = Kept
    /\ validation.facts \in Facts
    /\ validation.recorded \in [tests : BOOLEAN, smoke : BOOLEAN]

\* The results are those of the gates run so far, on the files as they still are.
ResultsSoFar(f, tree, out, recorded) ==
    /\ at = "based" => validation.results = Base(f, tree, out, recorded)
    /\ at = "modeled" => validation.results = Modeled(f, tree, out, recorded)
    /\ at = "weighed" => validation.results = Final(f, tree, out, recorded)
Consistent ==
    Past =>
        /\ Fresh(validation.facts, project, validation.recorded)
        /\ ResultsSoFar(validation.facts, project, validation.out, validation.recorded)

\* What only the program writes is there because the applied project wrote it.
Own ==
    Past /\ Ran(validation.facts, project) =>
        \A o \in Outputs \ Derivable :
            validation.out[o].of = project \/ FromRunSummary(validation.out, o)

GInv == GateShape /\ Consistent /\ Own

\* The runner fills gaps in these with what it has, and never takes them from one another.
Untouched == {"summary", "provenance", "deposits", "views"}

\* What a run of tree in the directory old leaves in them.
Beside(sim) == IF sim["build/run_summary.json"] = None THEN sim["run_summary.json"]
               ELSE sim["build/run_summary.json"]
Source(sim) == IF Beside(sim) = None THEN sim["summary"] ELSE Beside(sim)
Leaves(tree, sim, out) ==
    /\ out["deposits"] = sim["deposits"] /\ out["views"] = sim["views"]
    /\ out["provenance"] = IF sim["provenance"] = None THEN File("runner", tree, Expected, TRUE)
                           ELSE sim["provenance"]
    /\ out["run_summary.json"] = Beside(sim)
    /\ Source(sim) = None => out["summary"] = File("runner", tree, Expected, TRUE)
    /\ Source(sim) # None => out["summary"].of \in {tree, Source(sim).of}

LEMMA RunnerLeaves ==
    ASSUME NEW tree, NEW old, DOMAIN old = Kept
    PROVE  LET sim == Simulated(tree, old, Expected)
           IN  Leaves(tree, sim, Materialized(tree, sim, Expected))
<1> DEFINE sim == Simulated(tree, old, Expected)
           c == Collected(sim)
           t == WithTable(c)
           e == WithEvents(t, Expected)
           full == WithMesh(e)
           passed == Untouched \cup {"run_summary.json"}
<1>1. DOMAIN sim = Kept
  BY DEF Simulated
<1> HIDE DEF sim
<1>2. /\ DOMAIN c = Kept /\ c["run_summary.json"] = Beside(sim)
      /\ \A o \in Untouched : c[o] = sim[o]
  BY <1>1 DEF Collected, Beside, Kept, Outputs, Extras, Untouched
<1> HIDE DEF c
<1>3. ASSUME NEW d, DOMAIN d = Kept, NEW x, NEW k \in Derivable
      PROVE  /\ DOMAIN [d EXCEPT ![k] = x] = Kept
             /\ \A o \in passed : [d EXCEPT ![k] = x][o] = d[o]
  BY <1>3 DEF Kept, Outputs, Extras, Untouched, Derivable
<1>4. DOMAIN t = Kept /\ \A o \in passed : t[o] = c[o]
  BY <1>2, <1>3 DEF WithTable, Derivable
<1> HIDE DEF t
<1>5. DOMAIN e = Kept /\ \A o \in passed : e[o] = t[o]
  <2>1. e = t \/ \E x : e = [t EXCEPT !["events"] = x]
    BY DEF WithEvents
  <2>2. "events" \in Derivable
    BY DEF Derivable
  <2>3. \A x : /\ DOMAIN [t EXCEPT !["events"] = x] = Kept
               /\ \A o \in passed : [t EXCEPT !["events"] = x][o] = t[o]
    BY <1>3, <1>4, <2>2
  <2> HIDE DEF e, passed
  <2>4. CASE e = t
    BY <1>4, <2>4
  <2>5. ASSUME NEW x, e = [t EXCEPT !["events"] = x]
        PROVE  DOMAIN e = Kept /\ \A o \in passed : e[o] = t[o]
    BY ONLY <2>3, <2>5, Zenon
  <2> QED BY <2>1, <2>4, <2>5
<1> HIDE DEF e
<1>6. DOMAIN full = Kept /\ \A o \in passed : full[o] = e[o]
  BY <1>3, <1>5 DEF WithMesh, Derivable
<1> HIDE DEF full
<1>7. full["run_summary.json"] = Beside(sim) /\ \A o \in Untouched : full[o] = sim[o]
  BY <1>2, <1>4, <1>5, <1>6
<1> DEFINE out == WithRecords(tree, full, Expected)
<1>8. /\ out["deposits"] = full["deposits"] /\ out["views"] = full["views"]
      /\ out["provenance"] = IF full["provenance"] = None
                             THEN File("runner", tree, Expected, TRUE)
                             ELSE full["provenance"]
      /\ out["run_summary.json"] = full["run_summary.json"]
      /\ out["summary"] = Summary(tree, full, Expected)
  BY <1>6 DEF WithRecords, Kept, Outputs, Extras
<1>9. /\ Source(sim) = None => Summary(tree, full, Expected) = File("runner", tree, Expected, TRUE)
      /\ Source(sim) # None => Summary(tree, full, Expected).of \in {tree, Source(sim).of}
  BY <1>7 DEF Summary, Source, File, Untouched
<1> QED BY <1>7, <1>8, <1>9 DEF Leaves, Materialized, full, e, t, c, sim, Untouched

\* A program whose package is trustworthy in an empty directory writes by itself what the
\* runner does not derive, in whatever directory it runs; but a run_summary.json found
\* there is put over its summary.
LEMMA WritesItself ==
    ASSUME NEW tree, NEW old, Good(tree), DOMAIN old = Kept
    PROVE  LET out == SmokeTest(tree, old, Expected).out IN
           \A o \in Outputs \ Derivable : out[o].of = tree \/ FromRunSummary(out, o)
<1> DEFINE sim(d) == Simulated(tree, d, Expected)
           out(d) == Materialized(tree, sim(d), Expected)
<1>1. Builds(tree) /\ SmokeTest(tree, old, Expected).out = out(old)
  BY DEF Good, Tried, SmokeTest
<1>2. Trustworthy(out(NoOutput), Expected)
  BY DEF Good, Tried, SmokeTest
<1>3. \A o \in Kept : sim(NoOutput)[o] # None => sim(old)[o] # None /\ sim(old)[o].of = tree
  BY DEF Simulated, NoOutput, File
<1>4. /\ Leaves(tree, sim(NoOutput), out(NoOutput)) /\ Leaves(tree, sim(old), out(old))
  <2>1. DOMAIN NoOutput = Kept
    BY DEF NoOutput
  <2> QED BY <2>1, RunnerLeaves
<1>5. /\ \A o \in Untouched : out(NoOutput)[o] # None
      /\ out(NoOutput)["summary"].by # "runner" /\ out(NoOutput)["provenance"].by # "runner"
  BY <1>2 DEF Trustworthy, Quality, Complete, Outputs, Untouched
<1>k. Untouched \cup {"run_summary.json", "build/run_summary.json"} \subseteq Kept
  BY DEF Untouched, Kept, Outputs, Extras, InBuild
<1> HIDE DEF sim, out
<1>6. /\ out(old)["deposits"].of = tree /\ out(old)["views"].of = tree
      /\ out(old)["provenance"].of = tree
  <2>1. /\ sim(NoOutput)["deposits"] # None /\ sim(NoOutput)["views"] # None
        /\ sim(NoOutput)["provenance"] # None
    BY <1>4, <1>5 DEF Leaves, File, Untouched
  <2>2. \A o \in {"provenance", "deposits", "views"} :
            sim(old)[o] # None /\ sim(old)[o].of = tree
    BY <1>3, <1>k, <2>1 DEF Untouched
  <2> QED BY <1>4, <2>2 DEF Leaves
<1>7. out(old)["summary"].of = tree \/ FromRunSummary(out(old), "summary")
  <2>1. CASE Beside(sim(old)) # None
    BY <1>4, <2>1 DEF Leaves, Source, FromRunSummary
  <2>2. CASE Beside(sim(old)) = None
    <3>1. Source(sim(NoOutput)) # None
      BY <1>4, <1>5 DEF Leaves, File
    <3>2. Beside(sim(NoOutput)) = None
      BY <1>3, <1>k, <2>2 DEF Beside
    <3>3. sim(old)["summary"] # None /\ sim(old)["summary"].of = tree
      BY <1>3, <1>k, <3>1, <3>2 DEF Source, Untouched
    <3> QED BY <1>4, <2>2, <3>3 DEF Leaves, Source
  <2> QED BY <2>1, <2>2
<1> QED BY <1>1, <1>6, <1>7 DEF Outputs, Derivable

LEMMA SoundIsFacts == Sound \in Facts
BY DEF Sound, Facts, Verdicts

LEMMA GateInit == FilesInit => GInv
BY SoundIsFacts DEF FilesInit, GInv, GateShape, Consistent, Own, Past, NoOutput, NoRecord

\* Every run of a program leaves an entry for every output.
LEMMA RunsAreFull ==
    ASSUME NEW tree, NEW old, DOMAIN old = Kept, NEW n
    PROVE  /\ DOMAIN SmokeTest(tree, old, n).out = Kept
           /\ DOMAIN Materialized(tree, Simulated(tree, old, n), n) = Kept
<1> DEFINE sim == Simulated(tree, old, n)
<1>1. DOMAIN Collected(sim) = Kept
  BY DEF Simulated, Collected
<1>2. DOMAIN WithTable(Collected(sim)) = Kept
  BY <1>1 DEF WithTable
<1>3. DOMAIN WithEvents(WithTable(Collected(sim)), n) = Kept
  BY <1>2 DEF WithEvents
<1>4. DOMAIN WithMesh(WithEvents(WithTable(Collected(sim)), n)) = Kept
  BY <1>3 DEF WithMesh
<1>5. DOMAIN Materialized(tree, sim, n) = Kept
  BY <1>4 DEF Materialized, WithRecords
<1> QED BY <1>5 DEF SmokeTest

LEMMA GateStep == IInv /\ GInv /\ [FilesNext]_vars => GInv'
<1> SUFFICES ASSUME IInv, GInv, [FilesNext]_vars PROVE GInv'
  OBVIOUS
<1> USE DEF GInv
<1>0. \A v : DOMAIN NoVerdict(v) = DOMAIN v
  BY DEF NoVerdict
<1>v. NoVerdict(validation) = [validation EXCEPT !.facts = Sound, !.results = NoResults,
                                                 !.passed = FALSE]
  BY DEF NoVerdict
<1>1. CASE /\ ~Past'
           /\ \/ validation' = validation
              \/ validation' = NoVerdict(validation)
              \/ \E c \in BOOLEAN : validation' = [NoVerdict(validation) EXCEPT !.passed = c]
  <2>1. /\ DOMAIN validation' = DOMAIN validation /\ validation'.out = validation.out
        /\ validation'.recorded = validation.recorded
        /\ validation'.facts \in {validation.facts, Sound}
    BY <1>1 DEF NoVerdict, GateShape
  <2> QED BY <1>1, <2>1, SoundIsFacts DEF GateShape, Consistent, Own
<1>2. CASE LoadGateInputs
  <2>1. PICK f \in Cases : validation' = [NoVerdict(validation) EXCEPT !.facts = f]
    BY <1>2 DEF LoadGateInputs
  <2>2. /\ DOMAIN validation' = DOMAIN validation /\ validation'.out = validation.out
        /\ validation'.recorded = validation.recorded /\ validation'.facts = f
    BY <2>1 DEF NoVerdict, GateShape
  <2>3. f \in Facts /\ ~Past'
    BY <1>2, FilesAssumption DEF LoadGateInputs, Past
  <2> QED BY <2>2, <2>3 DEF GateShape, Consistent, Own
<1>3. CASE RunBaseGates
  <2> DEFINE f == validation.facts
             out == IF f.geant4 THEN SmokeTest(project, validation.out, Expected).out
                    ELSE validation.out
             recorded == Recorded(f, project, validation.recorded)
  <2>1. /\ validation' = [validation EXCEPT !.out = out, !.recorded = recorded,
                              !.results = BaseGates(f, project, out, recorded, Expected)]
        /\ at = "loaded" /\ at' = "based" /\ project' = project
    BY <1>3 DEF RunBaseGates, generation
  <2>2. /\ DOMAIN validation' = DOMAIN validation /\ validation'.facts = f
        /\ validation'.out = out /\ validation'.recorded = recorded
        /\ validation'.results = BaseGates(f, project, out, recorded, Expected)
    BY <2>1 DEF GateShape
  <2>3. DOMAIN out = Kept
    BY RunsAreFull DEF GateShape
  <2>4. Fresh(f, project, recorded)
    <3>1. f.tests \in BOOLEAN /\ (f.smoke /\ Succeeds(project)) \in BOOLEAN
      BY DEF GateShape, Facts
    <3> QED BY <3>1 DEF Fresh, Recorded, GateShape
  <2>5. Ran(f, project) => \A o \in Outputs \ Derivable :
            out[o].of = project \/ FromRunSummary(out, o)
    <3>1. Good(project)
      BY <2>1 DEF IInv, HandedOn, Later
    <3>2. Ran(f, project) => out = SmokeTest(project, validation.out, Expected).out
      BY DEF Ran
    <3> QED BY <3>1, <3>2, WritesItself DEF GateShape
  <2> HIDE DEF f, out, recorded
  <2>6. GateShape'
    BY <2>2, <2>3, <2>4 DEF GateShape, Fresh, f
  <2>7. Consistent'
    BY <2>1, <2>2, <2>4 DEF Consistent, ResultsSoFar, Base
  <2> QED BY <2>1, <2>2, <2>5, <2>6, <2>7 DEF Own
<1>4. CASE RunModelingGates \/ RunCredibilityGate
  <2> DEFINE f == validation.facts
             out == validation.out
             recorded == validation.recorded
  <2>1. PICK r : validation' = [validation EXCEPT !.results = r]
    BY <1>4 DEF RunModelingGates, RunCredibilityGate
  <2>2. /\ DOMAIN validation' = DOMAIN validation /\ validation'.facts = f
        /\ validation'.out = out /\ validation'.recorded = recorded
        /\ Past /\ Past' /\ project' = project
    BY <1>4, <2>1 DEF GateShape, RunModelingGates, RunCredibilityGate, Past, generation
  <2>3. /\ RunModelingGates => /\ at = "based" /\ at' = "modeled"
                               /\ validation'.results = With(validation.results, ModelingGates(f))
        /\ RunCredibilityGate =>
               /\ at = "modeled" /\ at' = "weighed"
               /\ validation'.results =
                      With(validation.results, Weighing(f, out, validation.results))
    BY DEF GateShape, RunModelingGates, RunCredibilityGate, Weighing
  <2>4. /\ at = "based" => validation.results = Base(f, project, out, recorded)
        /\ at = "modeled" => validation.results = Modeled(f, project, out, recorded)
    BY <2>2 DEF Consistent, ResultsSoFar
  <2>5. /\ at' = "modeled" => validation'.results = Modeled(f, project, out, recorded)
        /\ at' = "weighed" => validation'.results = Final(f, project, out, recorded)
        /\ at' # "based"
    BY <1>4, <2>3, <2>4 DEF Modeled, Final
  <2>6. Consistent'
    BY <2>2, <2>5 DEF Consistent, ResultsSoFar
  <2> QED BY <2>2, <2>6 DEF GateShape, Own
<1>5. CASE SimulateByHand
  <2>1. PICK n : validation' = [validation EXCEPT !.out =
            Materialized(executable, Simulated(executable, @, n), n)]
    BY <1>5 DEF SimulateByHand
  <2>2. /\ DOMAIN validation' = DOMAIN validation /\ validation'.facts = validation.facts
        /\ validation'.recorded = validation.recorded /\ DOMAIN validation'.out = Kept
    BY <2>1, RunsAreFull DEF GateShape
  <2>3. ~Past'
    BY <1>5 DEF SimulateByHand, Idle, Past
  <2> QED BY <2>2, <2>3 DEF GateShape, Consistent, Own
<1>6. CASE UNCHANGED <<at, project, validation>>
  BY <1>6 DEF GateShape, Consistent, Own, Past, Ran, Fresh, ResultsSoFar, Base, Modeled, Final
<1>7. CASE FinalizeGateResults
  <2>1. Passed(validation.results) \in BOOLEAN
    BY DEF Passed
  <2> QED BY <1>1, <1>7, <2>1 DEF FinalizeGateResults, Past
<1>8. CASE Generate \/ Continue \/ Repair
  BY <1>1, <1>8 DEF Generate, Continue, Repair, Start, Past
<1>9. CASE Finish \/ RuntimeGate \/ Audit \/ Review \/ ApplyPatch
  BY <1>1, <1>9 DEF Finish, RuntimeGate, Audit, Review, ApplyPatch, Past
<1>10. CASE Edit \/ RunSmoke
  BY <1>1, <1>10 DEF Edit, RunSmoke, Past
<1>11. CASE BuildByHand
  BY <1>1, <1>11 DEF BuildByHand, Idle, Past
<1>12. CASE Crash
  BY <1>1, <1>12 DEF Crash, Past
<1>13. CASE Persist
  <2>1. ~Past' /\ validation' = [validation EXCEPT !.out = WithoutBuild(@)]
    BY <1>13 DEF Persist, Past
  <2>2. /\ DOMAIN validation' = DOMAIN validation /\ validation'.facts = validation.facts
        /\ validation'.recorded = validation.recorded /\ DOMAIN validation'.out = Kept
    BY <2>1 DEF GateShape, WithoutBuild
  <2> QED BY <2>1, <2>2 DEF GateShape, Consistent, Own
<1>14. CASE UNCHANGED vars
  BY <1>6, <1>14 DEF vars
<1> QED BY <1>2, <1>3, <1>4, <1>5, <1>7, <1>8, <1>9, <1>10, <1>11, <1>12, <1>13, <1>14
        DEF FilesNext

-------------------------------------------------------------------------------
(* Hardening. Lemmas on bags first: how many copies an operation leaves.           *)

LEMMA CopiesOf ==
    ASSUME NEW c, IsABag(c), NEW f
    PROVE  /\ Copies(f, c) \in Nat
           /\ Has(c, f) <=> Copies(f, c) > 0
           /\ Has(c, f) <=> f \in BagToSet(c)
BY DEF Copies, Has, BagIn, BagToSet, IsABag

LEMMA CopiesOfSum ==
    ASSUME NEW a, IsABag(a), NEW b, IsABag(b)
    PROVE  IsABag(a (+) b) /\ \A f : Copies(f, a (+) b) = Copies(f, a) + Copies(f, b)
<1>1. DOMAIN (a (+) b) = DOMAIN a \cup DOMAIN b
  BY DEF (+)
<1>2. \A f \in DOMAIN a \cup DOMAIN b : (a (+) b)[f] = Copies(f, a) + Copies(f, b)
  BY DEF (+), Copies, BagIn, BagToSet
<1>3. \A f \in DOMAIN a \cup DOMAIN b : Copies(f, a) + Copies(f, b) \in {n \in Nat : n > 0}
  BY DEF Copies, BagIn, BagToSet, IsABag
<1>4. a (+) b = [f \in DOMAIN (a (+) b) |-> (a (+) b)[f]]
  BY <1>1 DEF (+)
<1>5. IsABag(a (+) b)
  BY <1>1, <1>2, <1>3, <1>4 DEF IsABag
<1>6. \A f : Copies(f, a (+) b) = Copies(f, a) + Copies(f, b)
  BY <1>1, <1>2 DEF Copies, BagIn, BagToSet
<1> QED BY <1>5, <1>6

LEMMA CopiesOfSet ==
    ASSUME NEW S
    PROVE  IsABag(SetToBag(S)) /\ \A f : Copies(f, SetToBag(S)) = IF f \in S THEN 1 ELSE 0
BY DEF IsABag, SetToBag, Copies, BagIn, BagToSet

LEMMA CopiesOfRest ==
    ASSUME NEW c, IsABag(c), NEW old
    PROVE  /\ IsABag(c (-) SetToBag({old}))
           /\ \A f : f # old => Copies(f, c (-) SetToBag({old})) = Copies(f, c)
           /\ Has(c, old) => Copies(old, c (-) SetToBag({old})) = Copies(old, c) - 1
<1> DEFINE left == [f \in DOMAIN c |-> IF f = old THEN c[f] - 1 ELSE c[f]]
           rest == c (-) SetToBag({old})
<1>1. rest = [f \in {g \in DOMAIN c : left[g] > 0} |-> left[f]]
  BY DEF (-), SetToBag
<1>2. \A f \in DOMAIN c : c[f] \in Nat /\ c[f] > 0
  BY DEF IsABag
<1> HIDE DEF rest
<1>3. IsABag(rest)
  BY <1>1, <1>2 DEF IsABag
<1>4. \A f : Copies(f, rest) = IF f = old /\ f \in DOMAIN c THEN c[f] - 1 ELSE Copies(f, c)
  BY <1>1, <1>2 DEF Copies, BagIn, BagToSet
<1> QED BY <1>3, <1>4 DEF rest, Copies, Has, BagIn, BagToSet

LEMMA CopiesOfRewritten ==
    ASSUME NEW c, IsABag(c), NEW old, NEW new, Has(c, old)
    PROVE  /\ IsABag(Rewritten(c, old, new))
           /\ \A f : Copies(f, Rewritten(c, old, new)) =
                         (IF f = old THEN 0 ELSE Copies(f, c))
                         + (IF f \in new THEN Copies(old, c) ELSE 0)
<1> DEFINE rest == [f \in DOMAIN c \ {old} |-> c[f]]
           add == [f \in new |-> Copies(old, c)]
<1>1. IsABag(rest) /\ \A f : Copies(f, rest) = IF f = old THEN 0 ELSE Copies(f, c)
  BY DEF IsABag, Copies, BagIn, BagToSet
<1>2. Copies(old, c) \in Nat /\ Copies(old, c) > 0
  BY CopiesOf
<1>3. IsABag(add) /\ \A f : Copies(f, add) = IF f \in new THEN Copies(old, c) ELSE 0
  BY <1>2 DEF IsABag, Copies, BagIn, BagToSet
<1> HIDE DEF rest, add
<1>4. IsABag(rest (+) add) /\ \A f : Copies(f, rest (+) add) = Copies(f, rest) + Copies(f, add)
  BY <1>1, <1>3, CopiesOfSum
<1>5. Rewritten(c, old, new) = rest (+) add
  BY DEF Rewritten, rest, add
<1> QED BY <1>1, <1>3, <1>4, <1>5

\* What each kind of step leaves of a file in which nothing stands twice.
LEMMA OncePut ==
    ASSUME NEW c, Once(c), NEW fs, \A f \in fs \cap InsertedOnce : ~Has(c, f)
    PROVE  /\ Once(Put(c, fs)) /\ BagToSet(Put(c, fs)) = BagToSet(c) \cup fs
           /\ \A f : Has(Put(c, fs), f) <=> Has(c, f) \/ f \in fs
<1> DEFINE b == SetToBag(fs)
<1>1. IsABag(b) /\ \A f : Copies(f, b) = IF f \in fs THEN 1 ELSE 0
  BY CopiesOfSet
<1>2. IsABag(c)
  BY DEF Once
<1> HIDE DEF b
<1>3. IsABag(c (+) b) /\ \A f : Copies(f, c (+) b) = Copies(f, c) + Copies(f, b)
  BY <1>1, <1>2, CopiesOfSum
<1>4. \A f : Copies(f, c) \in Nat /\ (Has(c, f) <=> Copies(f, c) > 0)
             /\ (Has(c, f) <=> f \in BagToSet(c))
  BY <1>2, CopiesOf
<1>5. \A f : /\ Has(c (+) b, f) <=> Copies(f, c (+) b) > 0
             /\ Has(c (+) b, f) <=> f \in BagToSet(c (+) b)
  BY <1>3, CopiesOf
<1>6. \A f : Has(c (+) b, f) <=> Has(c, f) \/ f \in fs
  BY <1>1, <1>3, <1>4, <1>5
<1>7. BagToSet(c (+) b) = BagToSet(c) \cup fs
  BY <1>4, <1>5, <1>6
<1>8. ASSUME NEW f \in InsertedOnce PROVE Copies(f, c (+) b) <= 1
  BY <1>1, <1>3, <1>4 DEF Once
<1> QED BY <1>3, <1>6, <1>7, <1>8 DEF Put, Once, b

LEMMA OnceEnsure ==
    ASSUME NEW c, Once(c), NEW g
    PROVE  /\ Once(Ensure(c, g))
           /\ \A f : Has(Ensure(c, g), f) <=> Has(c, f) \/ f = g
<1>1. CASE Has(c, g)
  BY <1>1 DEF Ensure
<1>2. CASE ~Has(c, g)
  <2>1. \A f \in {g} \cap InsertedOnce : ~Has(c, f)
    BY <1>2
  <2>2. Once(Put(c, {g})) /\ \A f : Has(Put(c, {g}), f) <=> Has(c, f) \/ f \in {g}
    BY <2>1, OncePut
  <2> QED BY <1>2, <2>2 DEF Ensure
<1> QED BY <1>1, <1>2

LEMMA OnceRewritten ==
    ASSUME NEW c, Once(c), NEW old, NEW new, new \cap InsertedOnce = {}
    PROVE  /\ Once(Rewritten(c, old, new))
           /\ \A f : Has(Rewritten(c, old, new), f) => Has(c, f) \/ f \in new
<1>1. CASE ~Has(c, old)
  BY <1>1 DEF Rewritten
<1>2. CASE Has(c, old)
  <2> DEFINE r == Rewritten(c, old, new)
  <2>1. IsABag(c)
    BY DEF Once
  <2>2. /\ IsABag(r)
        /\ \A f : Copies(f, r) = (IF f = old THEN 0 ELSE Copies(f, c))
                                 + (IF f \in new THEN Copies(old, c) ELSE 0)
    BY <1>2, <2>1, CopiesOfRewritten
  <2> HIDE DEF r
  <2>3. \A f : Copies(f, c) \in Nat /\ (Has(c, f) <=> Copies(f, c) > 0)
    BY <2>1, CopiesOf
  <2>4. \A f : Has(r, f) <=> Copies(f, r) > 0
    BY <2>2, CopiesOf
  <2>5. \A f : Has(r, f) => Has(c, f) \/ f \in new
    BY <2>2, <2>3, <2>4
  <2>6. ASSUME NEW f \in InsertedOnce PROVE Copies(f, r) <= 1
    <3>1. Copies(f, r) = IF f = old THEN 0 ELSE Copies(f, c)
      BY <2>2, <2>3
    <3> QED BY <3>1 DEF Once
  <2> QED BY <2>2, <2>5, <2>6 DEF Once, r
<1> QED BY <1>1, <1>2

LEMMA OnceRewrittenOnce ==
    ASSUME NEW c, Once(c), NEW old, NEW new, new \cap InsertedOnce = {}
    PROVE  /\ Once(RewrittenOnce(c, old, new))
           /\ \A f : Has(RewrittenOnce(c, old, new), f) => Has(c, f) \/ f \in new
<1>1. CASE ~Has(c, old)
  BY <1>1 DEF RewrittenOnce
<1>2. CASE Has(c, old)
  <2> DEFINE rest == c (-) SetToBag({old})
  <2>1. IsABag(c)
    BY DEF Once
  <2>2. /\ IsABag(rest)
        /\ \A f : f # old => Copies(f, rest) = Copies(f, c)
        /\ Copies(old, rest) = Copies(old, c) - 1
    BY <1>2, <2>1, CopiesOfRest
  <2> HIDE DEF rest
  <2>3. \A f : Copies(f, c) \in Nat /\ (Has(c, f) <=> Copies(f, c) > 0)
    BY <2>1, CopiesOf
  <2>4. \A f : Copies(f, rest) \in Nat /\ (Has(rest, f) <=> Copies(f, rest) > 0)
    BY <2>2, CopiesOf
  <2>5. Once(rest) /\ \A f : Has(rest, f) => Has(c, f)
    <3>1. \A f : Copies(f, rest) <= Copies(f, c)
      BY <2>2, <2>3, <2>4
    <3>2. \A f \in InsertedOnce : Copies(f, c) <= 1
      BY DEF Once
    <3>3. \A f \in InsertedOnce : Copies(f, rest) <= 1
      BY <2>3, <2>4, <3>1, <3>2
    <3>4. \A f : Has(rest, f) => Has(c, f)
      BY <2>3, <2>4, <3>1
    <3> QED BY <2>2, <3>3, <3>4 DEF Once
  <2>6. /\ Once(Put(rest, new))
        /\ \A f : Has(Put(rest, new), f) <=> Has(rest, f) \/ f \in new
    BY <2>5, OncePut
  <2> QED BY <1>2, <2>5, <2>6 DEF RewrittenOnce, rest
<1> QED BY <1>1, <1>2

LEMMA RewritesAreOthers == Rewrites \cap InsertedOnce = {}
<1>1. \A u \in DOMAIN Includes : Includes[u] \notin Rewrites
  BY WritingAssumption
<1>2. \A f \in Rewrites :
        f \notin {"Instance();", "RegisterRegion(mass);", "Instance() {}",
                  "RegisterRegion(mass) {}", "events_requested line", "table fallback",
                  "rows from points", "dose backfill", "rows from deposits", "<utility>",
                  "<filesystem>", "/run/setCut"}
  BY DEF Rewrites
<1> QED BY <1>1, <1>2 DEF InsertedOnce

\* The rules, one lemma per kind of file.
LEMMA OnceDropped ==
    ASSUME NEW c, Once(c), NEW old
    PROVE  /\ Once(Dropped(c, old))
           /\ \A f : Has(Dropped(c, old), f) => Has(c, f)
BY OnceRewritten DEF Dropped

LEMMA DetectorsOnce ==
    ASSUME NEW c, Once(c)
    PROVE  Once(SensitiveDetector(c)) /\ Once(DetectorConstruction(c))
<1>1. Once(QualifiedHits(c))
  BY OnceRewritten, RewritesAreOthers DEF QualifiedHits, Rewrites
<1>2. Once(EventIdTaken(QualifiedHits(c)))
  BY <1>1, OnceRewrittenOnce, RewritesAreOthers DEF EventIdTaken, Rewrites
<1>3. Once(SensitiveDetector(c))
  BY <1>2, OnceDropped DEF SensitiveDetector, PlaceholderNotesDropped
<1> DEFINE a == Dropped(c, "delete fScoringManager")
           b == Rewritten(a, "new ScoringManager", {"ScoringManager"})
<1>4. Once(a)
  BY OnceDropped
<1>5. Once(b)
  BY <1>4, OnceRewritten, RewritesAreOthers DEF Rewrites
<1>6. Once(ScoringSingleton(c))
  BY <1>5, OnceRewritten, RewritesAreOthers DEF ScoringSingleton, Rewrites
<1> QED BY <1>3, <1>6, OnceDropped DEF DetectorConstruction, LegacyPlacementsDropped

LEMMA ScoringOnce ==
    ASSUME NEW c, Once(c) PROVE Once(ScoringHeader(c)) /\ Once(ScoringSource(c))
<1>1. Once(ScoringHeader(c))
  BY OnceEnsure DEF ScoringHeader
<1>2. Once(ScoringSource(c))
  BY OnceEnsure DEF ScoringSource
<1> QED BY <1>1, <1>2

\* The fallbacks are inserted without a look at the file, but only into one that has none.
LEMMA OutputsOnce == ASSUME NEW c, Once(c) PROVE Once(OutputManager(c))
<1>1. ASSUME NEW d, Once(d) PROVE Once(EventsRequested(d))
  BY <1>1, OnceEnsure DEF EventsRequested
<1>2. ASSUME NEW d, Once(d) PROVE Once(NoopSummaryDropped(d))
  BY <1>2, OnceRewrittenOnce DEF NoopSummaryDropped
<1>3. ASSUME NEW d, Once(d) PROVE Once(FilesystemPaths(d))
  BY <1>3, OnceRewritten, RewritesAreOthers DEF FilesystemPaths, Rewrites
<1>4. ASSUME NEW d, Once(d)
      PROVE  /\ Once(RecordsFromDeposits(d))
             /\ Has(RecordsFromDeposits(d), "rows from deposits") => Has(d, "rows from deposits")
  <2>1. CASE Has(d, "table fallback") \/ ~All(d, {"fEnergyDeposits", "fEventRecords"})
    BY <1>4, <2>1 DEF RecordsFromDeposits
  <2>2. CASE ~Has(d, "table fallback") /\ All(d, {"fEnergyDeposits", "fEventRecords"})
    <3> DEFINE s == Ensure(d, "<utility>")
               t == IF Has(s, "table header") THEN Put(s, {"table fallback"}) ELSE s
    <3>1. /\ Once(s) /\ ~Has(s, "table fallback")
          /\ Has(s, "rows from deposits") => Has(d, "rows from deposits")
      BY <1>4, <2>2, OnceEnsure
    <3> HIDE DEF s
    <3>2. Once(t) /\ (Has(t, "rows from deposits") => Has(s, "rows from deposits"))
      <4>1. \A f \in {"table fallback"} \cap InsertedOnce : ~Has(s, f)
        BY <3>1
      <4>2. /\ Once(Put(s, {"table fallback"}))
            /\ \A f : Has(Put(s, {"table fallback"}), f) <=> Has(s, f) \/ f \in {"table fallback"}
        BY <3>1, <4>1, OncePut
      <4> DEFINE q == Put(s, {"table fallback"})
      <4>3. Once(q) /\ \A f : Has(q, f) => Has(s, f) \/ f = "table fallback"
        BY <4>2
      <4> HIDE DEF q
      <4>4. Once(q) /\ (Has(q, "rows from deposits") => Has(s, "rows from deposits"))
        BY <4>3
      <4> QED BY <3>1, <4>4 DEF q
    <3> HIDE DEF t
    <3>3. /\ Once(Put(t, {"summary fallback"}))
          /\ Has(Put(t, {"summary fallback"}), "rows from deposits")
                 => Has(t, "rows from deposits")
      <4>1. {"summary fallback"} \cap InsertedOnce = {}
        BY RewritesAreOthers DEF Rewrites
      <4>2. \A f \in {"summary fallback"} \cap InsertedOnce : ~Has(t, f)
        BY <4>1
      <4>3. /\ Once(Put(t, {"summary fallback"}))
            /\ \A f : Has(Put(t, {"summary fallback"}), f)
                          <=> Has(t, f) \/ f \in {"summary fallback"}
        BY <3>2, <4>2, OncePut
      <4> DEFINE q == Put(t, {"summary fallback"})
      <4>4. Once(q) /\ \A f : Has(q, f) => Has(t, f) \/ f = "summary fallback"
        BY <4>3
      <4> HIDE DEF q
      <4>5. Once(q) /\ (Has(q, "rows from deposits") => Has(t, "rows from deposits"))
        BY <4>4
      <4> QED BY <4>5 DEF q
    <3>4. RecordsFromDeposits(d) = IF Has(t, "summary totals")
                                   THEN Put(t, {"summary fallback"}) ELSE t
      BY <2>2 DEF RecordsFromDeposits, s, t
    <3> QED BY <3>1, <3>2, <3>3, <3>4
  <2> QED BY <2>1, <2>2
<1>5. ASSUME NEW d, Once(d)
      PROVE  /\ Once(RowsFromPoints(d))
             /\ Has(RowsFromPoints(d), "rows from deposits") => Has(d, "rows from deposits")
  <2> DEFINE e == Ensure(d, "rows from points")
             s == Ensure(e, "dose backfill")
             t == Rewritten(s, "table loop", {"table loop over rows"})
             u == Rewritten(t, "summary loop", {"summary loop over rows"})
  <2>1. Once(e) /\ (Has(e, "rows from deposits") => Has(d, "rows from deposits"))
    BY <1>5, OnceEnsure
  <2> HIDE DEF e
  <2>2. Once(s) /\ (Has(s, "rows from deposits") => Has(e, "rows from deposits"))
    BY <2>1, OnceEnsure
  <2> HIDE DEF s
  <2>3. Once(t) /\ (Has(t, "rows from deposits") => Has(s, "rows from deposits"))
    <3>1. {"table loop over rows"} \cap InsertedOnce = {}
      BY RewritesAreOthers DEF Rewrites
    <3>2. /\ Once(t)
          /\ \A f : Has(t, f) => Has(s, f) \/ f \in {"table loop over rows"}
      BY <2>2, <3>1, OnceRewritten
    <3>3. Once(t) /\ \A f : Has(t, f) => Has(s, f) \/ f = "table loop over rows"
      BY <3>2
    <3> HIDE DEF t
    <3> QED BY <3>3
  <2> HIDE DEF t
  <2>4. Once(u) /\ (Has(u, "rows from deposits") => Has(t, "rows from deposits"))
    <3>1. {"summary loop over rows"} \cap InsertedOnce = {}
      BY RewritesAreOthers DEF Rewrites
    <3>2. /\ Once(u)
          /\ \A f : Has(u, f) => Has(t, f) \/ f \in {"summary loop over rows"}
      BY <2>3, <3>1, OnceRewritten
    <3>3. Once(u) /\ \A f : Has(u, f) => Has(t, f) \/ f = "summary loop over rows"
      BY <3>2
    <3> HIDE DEF u
    <3> QED BY <3>3
  <2> HIDE DEF u
  <2>5. RowsFromPoints(d) = d \/ RowsFromPoints(d) = u
    BY DEF RowsFromPoints, u, t, s, e
  <2> QED BY <1>5, <2>1, <2>2, <2>3, <2>4, <2>5
<1>6. ASSUME NEW d, Once(d), ~Has(d, "rows from deposits") PROVE Once(RowsFromDeposits(d))
  <2> DEFINE s == Put(d, {"rows from deposits"})
             t == Rewritten(s, "table loop", {"table loop over rows"})
             u == Rewritten(t, "voxel loop", {"voxel loop over bins"})
  <2>1. Once(s)
    <3>1. \A f \in {"rows from deposits"} \cap InsertedOnce : ~Has(d, f)
      BY <1>6
    <3> QED BY <1>6, <3>1, OncePut
  <2>2. Once(t)
    BY <2>1, OnceRewritten, RewritesAreOthers DEF Rewrites
  <2>3. Once(u)
    BY <2>2, OnceRewritten, RewritesAreOthers DEF Rewrites
  <2> QED BY <1>6, <2>3 DEF RowsFromDeposits
<1>7. ASSUME NEW d, Once(d) PROVE Once(DepositFallbacks(d))
  BY <1>4, <1>5, <1>6, <1>7 DEF DepositFallbacks
<1> QED BY <1>1, <1>2, <1>3, <1>7 DEF OutputManager

LEMMA MainAndMacrosOnce ==
    ASSUME NEW c, Once(c) PROVE Once(MkdirWithoutShell(c)) /\ Once(CutCommands(c))
<1>1. Once(Ensure(c, "<filesystem>"))
  BY OnceEnsure
<1>2. Once(RewrittenOnce(Ensure(c, "<filesystem>"), "mkdir -p", {"create_directories"}))
  BY <1>1, OnceRewrittenOnce, RewritesAreOthers DEF Rewrites
<1>3. Once(Dropped(c, "/run/setCutFor"))
  BY OnceDropped
<1>4. Once(Ensure(Dropped(c, "/run/setCutFor"), "/run/setCut"))
  BY <1>3, OnceEnsure
<1> QED BY <1>2, <1>4 DEF MkdirWithoutShell, CutCommands

LEMMA SpellingOnce == ASSUME NEW c, Once(c) PROVE Once(Spelling(c))
<1> DEFINE a == Rewritten(c, "G4THREADLOCAL", {"G4ThreadLocal"})
           s == Rewritten(a, "const G4RotationMatrix*", {"G4RotationMatrix*"})
<1>1. Once(a)
  BY OnceRewritten, RewritesAreOthers DEF Rewrites
<1>2. Once(s)
  BY <1>1, OnceRewritten, RewritesAreOthers DEF Rewrites
<1>3. Once(Rewritten(s, "vis->", {"vis."}))
  BY <1>2, OnceRewritten, RewritesAreOthers DEF Rewrites
<1> QED BY <1>2, <1>3 DEF Spelling

\* What the other rules bring in is included, and no include asks for another.
LEMMA IncludesOnce ==
    ASSUME NEW c, Once(c)
    PROVE  /\ Once(RequiredIncludes(c))
           /\ Needed(RequiredIncludes(c)) \subseteq BagToSet(RequiredIncludes(c))
<1> DEFINE d == Dropped(c, "class G4RotationMatrix;")
           s == IF Has(c, "class G4RotationMatrix;") THEN Ensure(d, "G4RotationMatrix.hh") ELSE c
           missing == {i \in Needed(s) : ~Has(s, i)}
           r == Put(s, missing)
<1>1. Once(s)
  BY OnceDropped, OnceEnsure
<1>2. RequiredIncludes(c) = r
  BY DEF RequiredIncludes
<1> HIDE DEF s
<1>3. Once(r) /\ BagToSet(r) = BagToSet(s) \cup missing
  BY <1>1, OncePut
<1>4. missing \cap DOMAIN Includes = {}
  BY WritingAssumption DEF Needed
<1>5. Needed(r) = Needed(s)
  BY <1>3, <1>4 DEF Needed
<1>6. \A i \in Needed(s) : Has(s, i) => i \in BagToSet(s)
  BY DEF Has, BagIn
<1> QED BY <1>2, <1>3, <1>5, <1>6

LEMMA HardenedOnce ==
    ASSUME NEW p, NEW c, Once(c)
    PROVE  /\ Once(Postprocessed(p, c))
           /\ p \in Sources => Needed(Postprocessed(p, c)) \subseteq BagToSet(Postprocessed(p, c))
<1>1. PICK s : Once(s) /\ Postprocessed(p, c) =
                   IF p \in Sources THEN RequiredIncludes(Spelling(s)) ELSE s
  BY DetectorsOnce, OutputsOnce, ScoringOnce, MainAndMacrosOnce DEF Postprocessed
<1>2. Once(Spelling(s))
  BY <1>1, SpellingOnce
<1> QED BY <1>1, <1>2, IncludesOnce

\* Of a tree: nothing stands twice in a file; what a file uses is included.
Tidy(tree) == \A p \in Paths : tree[p] # Absent => Once(tree[p])
Covered(tree) == \A p \in Paths \cap Sources :
    tree[p] # Absent => Needed(tree[p]) \subseteq BagToSet(tree[p])

HInv ==
    /\ DOMAIN workspace.tree = Paths
    /\ Tidy(workspace.tree) /\ Tidy(memory.patch) /\ Tidy(attempt.tree)
    /\ Tidy(saved.patch) /\ Tidy(project)
    /\ Covered(memory.patch) /\ Covered(attempt.tree) /\ Covered(saved.patch)

LEMMA NothingIsTidy == Tidy(Nothing) /\ Covered(Nothing)
BY DEF Tidy, Covered, Nothing

LEMMA OverlaidTidy ==
    ASSUME NEW tree, NEW patch, Tidy(tree), Tidy(patch) PROVE Tidy(Overlaid(tree, patch))
BY DEF Tidy, Overlaid

LEMMA AllowedTidy == ASSUME NEW tree, Tidy(tree) PROVE Tidy(Allowed(tree))
BY DEF Tidy, Allowed

LEMMA ReconstructedTidy ==
    ASSUME NEW tree, Tidy(tree)
    PROVE  Tidy(Reconstructed(tree)) /\ Covered(Reconstructed(tree))
<1> DEFINE a == Allowed(tree)
<1>1. Tidy(a)
  BY AllowedTidy
<1> HIDE DEF a
<1>2. ASSUME NEW p \in Paths, Hardened(a)[p] # Absent
      PROVE  /\ Once(Hardened(a)[p])
             /\ p \in Sources => Needed(Hardened(a)[p]) \subseteq BagToSet(Hardened(a)[p])
  <2>1. a[p] # Absent /\ Hardened(a)[p] = Postprocessed(p, a[p])
    BY <1>2 DEF Hardened
  <2>2. Once(a[p])
    BY <1>1, <2>1 DEF Tidy
  <2> QED BY <2>1, <2>2, HardenedOnce
<1> QED BY <1>2 DEF Tidy, Covered, Reconstructed, a

LEMMA TidyInit == FilesInit => HInv
BY NothingIsTidy DEF FilesInit, NoMemory, Nothing, HInv

LEMMA TidyStart ==
    ASSUME HInv, IInv, NEW seed, Tidy(seed), Start(seed) PROVE HInv'
<1>1. /\ workspace'.tree = Overlaid(Template, seed) /\ memory'.patch = Nothing
      /\ attempt' = attempt /\ saved' = saved /\ project' = project
  BY DEF Start, NoMemory
<1>2. Tidy(Template)
  BY WritingAssumption DEF Tidy
<1>3. Tidy(workspace'.tree)
  BY <1>1, <1>2, OverlaidTidy
<1>4. DOMAIN workspace'.tree = Paths
  BY <1>1 DEF Overlaid
<1> QED BY <1>1, <1>3, <1>4, NothingIsTidy DEF HInv

\* The agent puts nothing in twice, and what it writes is hardened at once.
LEMMA TidyEdit == ASSUME HInv, IInv, Edit PROVE HInv'
<1> DEFINE written(e) ==
      IF e.old = None THEN e.new
      ELSE (workspace.tree[e.path] (-) SetToBag({e.old})) (+) e.new
<1>1. PICK e \in Edits :
        /\ e.old # None => /\ workspace.tree[e.path] # Absent
                           /\ Copies(e.old, workspace.tree[e.path]) = 1
        /\ workspace' = [workspace EXCEPT !.tree[e.path] = Postprocessed(e.path, written(e))]
  BY DEF Edit
<1>2. e.path \in Paths /\ Once(e.new)
  BY WritingAssumption
<1>3. Once(written(e))
  <2>1. CASE e.old = None
    BY <1>2, <2>1
  <2>2. CASE e.old # None
    <3> DEFINE c == workspace.tree[e.path]
               rest == c (-) SetToBag({e.old})
    <3>1. Once(c) /\ Copies(e.old, c) = 1
      BY <1>1, <1>2, <2>2 DEF HInv, Tidy
    <3> HIDE DEF c
    <3>2. IsABag(c) /\ Has(c, e.old)
      BY <3>1 DEF Once, Copies, Has
    <3>3. /\ IsABag(rest) /\ Copies(e.old, rest) = 0
          /\ \A f : f # e.old => Copies(f, rest) = Copies(f, c)
      BY <3>1, <3>2, CopiesOfRest
    <3> HIDE DEF rest
    <3>4. IsABag(e.new) /\ \A f \in InsertedOnce : Copies(f, e.new) <= 1
      BY <1>2 DEF Once
    <3>5. /\ IsABag(rest (+) e.new)
          /\ \A f : Copies(f, rest (+) e.new) = Copies(f, rest) + Copies(f, e.new)
      BY <3>3, <3>4, CopiesOfSum
    <3>6. ASSUME NEW f \in InsertedOnce PROVE Copies(f, rest (+) e.new) <= 1
      <4>1. Copies(f, rest) \in Nat /\ Copies(f, e.new) \in Nat
        BY <3>3, <3>4, CopiesOf
      <4>2. CASE f = e.old
        BY <3>3, <3>4, <3>5, <4>1, <4>2
      <4>3. CASE f # e.old
        <5>1. Copies(f, e.new) = 0
          BY <2>2, <4>3, WritingAssumption
        <5>2. Copies(f, rest) <= 1
          BY <3>1, <3>3, <4>3 DEF Once
        <5> QED BY <3>5, <4>1, <5>1, <5>2
      <4> QED BY <4>2, <4>3
    <3>7. Once(rest (+) e.new)
      BY <3>5, <3>6 DEF Once
    <3> QED BY <2>2, <3>7 DEF rest, c
  <2> QED BY <2>1, <2>2
<1> HIDE DEF written
<1>4. Once(Postprocessed(e.path, written(e)))
  BY <1>3, HardenedOnce
<1>5. Tidy(workspace'.tree)
  <2>1. workspace'.tree = [workspace.tree EXCEPT ![e.path] = Postprocessed(e.path, written(e))]
    BY <1>1 DEF IInv, Shape
  <2>2. ASSUME NEW p \in Paths, workspace'.tree[p] # Absent PROVE Once(workspace'.tree[p])
    <3>1. CASE p = e.path
      <4>1. workspace'.tree[p] = Postprocessed(e.path, written(e))
        BY <1>2, <2>1, <3>1 DEF HInv
      <4> QED BY <1>4, <4>1
    <3>2. CASE p # e.path
      <4>1. workspace'.tree[p] = workspace.tree[p]
        BY <2>1, <3>2
      <4> QED BY <2>2, <4>1 DEF HInv, Tidy
    <3> QED BY <3>1, <3>2
  <2> QED BY <2>2 DEF Tidy
<1>6. /\ memory'.patch = memory.patch /\ attempt' = attempt /\ saved' = saved
      /\ project' = project /\ DOMAIN workspace'.tree = Paths
  BY <1>1 DEF Edit, IInv, Shape, HInv
<1> QED BY <1>5, <1>6 DEF HInv

LEMMA TidyStep == IInv /\ HInv /\ [FilesNext]_vars => HInv'
<1> SUFFICES ASSUME IInv, HInv, [FilesNext]_vars PROVE HInv'
  OBVIOUS
<1>1. CASE Generate \/ Continue \/ Repair
  <2>1. PICK seed \in {Nothing, saved.patch, memory.patch} : Start(seed)
    BY <1>1 DEF Generate, Continue, Repair
  <2>2. Tidy(seed)
    BY NothingIsTidy DEF HInv
  <2> QED BY <2>1, <2>2, TidyStart
<1>2. CASE Edit
  BY <1>2, TidyEdit
<1>3. CASE RunSmoke
  <2>1. /\ workspace'.tree = workspace.tree /\ memory' = memory /\ attempt' = attempt
        /\ saved' = saved /\ project' = project
    BY <1>3 DEF RunSmoke, IInv, Shape
  <2> QED BY <2>1 DEF HInv
<1>4. CASE Finish
  <2>1. /\ memory'.patch = Reconstructed(workspace.tree) /\ workspace' = workspace
        /\ attempt' = attempt /\ saved' = saved /\ project' = project
    BY <1>4 DEF Finish, generation, IInv, Shape
  <2>2. Tidy(memory'.patch) /\ Covered(memory'.patch)
    BY <2>1, ReconstructedTidy DEF HInv
  <2> QED BY <2>1, <2>2 DEF HInv
<1>5. CASE RuntimeGate
  <2>1. /\ memory'.patch = memory.patch /\ workspace' = workspace /\ project' = project
        /\ attempt'.tree = memory.patch /\ saved'.patch = memory.patch
    BY <1>5 DEF RuntimeGate, IInv, Shape
  <2> QED BY <2>1 DEF HInv
<1>6. CASE Audit \/ Review
  <2>1. /\ memory'.patch = memory.patch /\ workspace' = workspace /\ attempt' = attempt
        /\ saved' = saved /\ project' = project
    BY <1>6 DEF Audit, Review, generation, IInv, Shape
  <2> QED BY <2>1 DEF HInv
<1>7. CASE Persist
  <2>1. /\ memory'.patch = Nothing /\ workspace' = workspace /\ attempt' = attempt
        /\ saved'.patch = memory.patch /\ project' = Allowed(workspace.tree)
    BY <1>7 DEF Persist, Persisted, NoMemory
  <2>2. Tidy(project')
    BY <2>1, AllowedTidy DEF HInv
  <2> QED BY <2>1, <2>2, NothingIsTidy DEF HInv
<1>8. CASE ApplyPatch
  <2>1. /\ memory' = memory /\ workspace' = workspace /\ attempt' = attempt /\ saved' = saved
        /\ project' = Overlaid(project, saved.patch)
    BY <1>8 DEF ApplyPatch
  <2>2. Tidy(project')
    BY <2>1, OverlaidTidy DEF HInv
  <2> QED BY <2>1, <2>2 DEF HInv
<1>9. CASE UNCHANGED <<memory, generation>>
  BY <1>9 DEF HInv, generation
<1>10. CASE \/ LoadGateInputs \/ RunBaseGates \/ RunModelingGates \/ RunCredibilityGate
            \/ FinalizeGateResults \/ BuildByHand \/ SimulateByHand
  BY <1>9, <1>10 DEF LoadGateInputs, RunBaseGates, RunModelingGates, RunCredibilityGate,
                     FinalizeGateResults, BuildByHand, SimulateByHand
<1>11. CASE Crash
  <2>1. CASE memory' = NoMemory /\ UNCHANGED generation
    <3>1. memory'.patch = Nothing
      BY <2>1 DEF NoMemory
    <3> QED BY <2>1, <3>1, NothingIsTidy DEF HInv, generation
  <2> QED BY <1>9, <1>11, <2>1 DEF Crash
<1>12. CASE UNCHANGED vars
  BY <1>9, <1>12 DEF vars, generation
<1> QED BY <1>1, <1>2, <1>3, <1>4, <1>5, <1>6, <1>7, <1>8, <1>10, <1>11, <1>12 DEF FilesNext

-------------------------------------------------------------------------------
\* Whatever the agent wrote and ran in its workspace, and whatever an earlier attempt left
\* there: code generation passes only a patch that builds, runs and reports by itself.
THEOREM PassedReproduces == WritesFiles /\ FilesSpec => []PassedIsReproducible
<1> SUFFICES ASSUME WritesFiles PROVE FilesSpec => []PassedIsReproducible
  OBVIOUS
<1>1. IInv => PassedIsReproducible
  BY DEF IInv, HandedOn, Later, Good, Tried, PassedIsReproducible, Settled
<1> QED BY <1>1, InitOK, StepOK, PTL DEF FilesSpec

\* Hardening before the gate, and the policy's rules, are the same for the workspace that is
\* copied and for the patch that was judged: applying the one to the other adds nothing.
THEOREM WhatIsAppliedWasGated == WritesFiles /\ FilesSpec => []AppliedIsGated
<1> SUFFICES ASSUME WritesFiles PROVE FilesSpec => []AppliedIsGated
  OBVIOUS
<1>1. IInv => AppliedIsGated
  BY DEF IInv, HandedOn, Later, AppliedIsGated
<1> QED BY <1>1, InitOK, StepOK, PTL DEF FilesSpec

\* A package that is never cleared, simulations started by hand, artifacts of earlier runs,
\* a model's opinion: what passes validation was written by the applied project (the summary
\* by it, or by whoever left a run_summary.json in the package) and has nothing wrong with
\* it, and what fails goes to a phase that made something wrong.
THEOREM ValidationCanBeTrusted == WritesFiles /\ FilesSpec => []ValidationIsSound
<1> SUFFICES ASSUME WritesFiles PROVE FilesSpec => []ValidationIsSound
  OBVIOUS
<1>1. ASSUME GInv PROVE ValidationIsSound
  <2> SUFFICES ASSUME Weighed PROVE (Passes => ValidatedIsOwn) /\ VerdictIsEarned
    BY DEF ValidationIsSound, ValidatedIsOwn, VerdictIsEarned
  <2> DEFINE f == validation.facts
             out == validation.out
             recorded == validation.recorded
             r == validation.results
             sane == Sane(f, project, out)
             bad == {p \in DOMAIN sane : ~sane[p]}
  <2>1. Fresh(f, project, recorded) /\ r = Final(f, project, out, recorded) /\ f \in Facts
    BY <1>1 DEF GInv, GateShape, Consistent, ResultsSoFar, Past, Weighed
  <2>2. /\ Passed(r) => bad = {}
        /\ ~Passed(r) => RetryTarget(Failed(r)) \in IF bad = {} THEN {"report"} ELSE bad
    BY <2>1, Verdict
  <2>3. Defects = bad
    <3> DEFINE made(phase, wrong) == IF wrong THEN {phase} ELSE {}
    <3>1. Defects = made("context", ~sane["context"])
                    \cup made("task_planning", ~sane["task_planning"])
                    \cup made("g4_modeling", ~sane["g4_modeling"])
                    \cup made("patch", ~sane["patch"])
                    \cup made("g4_codegen", ~sane["g4_codegen"])
      <4>1. /\ f.context = "block_no_context" <=> ~sane["context"]
            /\ ~(f.spec /\ f.sources) <=> ~sane["task_planning"]
            /\ (f.ir # "valid" \/ f.flawed # {}) <=> ~sane["g4_modeling"]
            /\ f.proposed # "green" <=> ~sane["patch"]
            /\ (\/ ~(f.structured /\ f.bounded)
                \/ ~(f.geant4 /\ Builds(project) /\ Succeeds(project) /\ f.tests /\ f.smoke)
                \/ ~Quality(out, Expected)) <=> ~sane["g4_codegen"]
        BY DEF Sane, Runs
      <4> HIDE DEF sane
      <4> QED BY <4>1 DEF Defects
    <3>2. DOMAIN sane = {"context", "task_planning", "g4_modeling", "patch", "g4_codegen"}
      BY DEF Sane
    <3> HIDE DEF sane
    <3> QED BY <3>1, <3>2
  <2>4. VerdictIsEarned
    BY <2>2, <2>3 DEF VerdictIsEarned, Passes
  <2>5. Passes => Ran(f, project)
    BY <2>2 DEF Passes, Sane, Runs, Ran
  <2>6. Passes => ValidatedIsOwn
    BY <1>1, <2>5 DEF GInv, Own, Past, Weighed, ValidatedIsOwn
  <2> QED BY <2>4, <2>6
<1> QED BY <1>1, InitOK, StepOK, GateInit, GateStep, PTL DEF FilesSpec

\* However often a file is hardened (at each write, when the patch is read back, in every
\* repair and continuation), nothing the rules insert stands in it twice, and a patch
\* includes what it uses.
THEOREM HardeningStaysTidy == WritesFiles /\ FilesSpec => []HardeningIsRepeatable
<1> SUFFICES ASSUME WritesFiles PROVE FilesSpec => []HardeningIsRepeatable
  OBVIOUS
<1>1. ASSUME HInv PROVE HardeningIsRepeatable
  <2> SUFFICES ASSUME NEW tree \in {workspace.tree, memory.patch, attempt.tree, saved.patch,
                                    project},
                      NEW p \in Paths, tree[p] # Absent
               PROVE  /\ \A f \in BagToSet(tree[p]) \cap InsertedOnce : Copies(f, tree[p]) <= 1
                      /\ tree # workspace.tree /\ tree # project /\ p \in Sources =>
                             Needed(tree[p]) \subseteq BagToSet(tree[p])
    BY DEF HardeningIsRepeatable
  <2>1. Once(tree[p])
    BY <1>1 DEF HInv, Tidy
  <2>2. tree # workspace.tree /\ tree # project => Covered(tree)
    BY <1>1 DEF HInv
  <2> QED BY <2>1, <2>2 DEF Once, Covered
<1> QED BY <1>1, InitOK, StepOK, TidyInit, TidyStep, PTL DEF FilesSpec
===============================================================================
