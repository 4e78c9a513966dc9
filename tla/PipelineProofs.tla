---------------------------- MODULE PipelineProofs ----------------------------
(* The safety of the pipeline for every retry limit, every set of failing gates *)
(* and every bound, with the TUI's guarded front end.                           *)
EXTENDS PipelineProperties, Repl, TLAPS

-------------------------------------------------------------------------------
(* The inductive invariant.  What is claimed of the job in memory is claimed of *)
(* the stored one too, because a restart swaps the second for the first.  Two   *)
(* conjuncts go beyond the checked properties: a decision awaited in a snapshot *)
(* belongs to the snapshot's phase, and nothing up to the gates is validated.   *)
Consistent(s, i, c) ==
    /\ AgreedFor(s, i)
    /\ PrefixFor(c, i)
    /\ ValidatedFor(s, c, i)
    /\ i <= Gate => s.validation # "passed"
    /\ ReviewPending(s) => i = RequirementsReview
    /\ RepairPending(s) => i = Codegen

IInv ==
    /\ TypeOK
    /\ Consistent(state, idx, completed)
    /\ Consistent(saved.state, saved.idx, saved.completed)

\* The same three facts of the job in memory, for the next state.
MemoryOK ==
    /\ state' \in State
    /\ idx' \in 0..Finished
    /\ completed' \subseteq Phases
    /\ Consistent(state', idx', completed')

SavedOK ==
    /\ saved' \in Snapshot
    /\ Consistent(saved'.state, saved'.idx, saved'.completed)

-------------------------------------------------------------------------------
\* Persisting a consistent job keeps the store consistent.
LEMMA PersistConsistent ==
    ASSUME IInv,
           NEW s \in State, NEW i \in 0..Finished, NEW c \in SUBSET Phases,
           NEW asked \in {"running", "paused", "failed", "completed"},
           Consistent(s, i, c),
           Persist(s, i, c, asked)
    PROVE  SavedOK
<1>1. PersistedStatus(s, asked) \in {"none", "running", "paused", "failed", "completed"}
  BY DEF PersistedStatus
<1>2. CASE s.job
  <2>1. saved' = [state |-> s, idx |-> i, completed |-> c,
                  status |-> PersistedStatus(s, asked)]
    BY <1>2 DEF Persist
  <2> QED BY <1>1, <2>1 DEF SavedOK, Snapshot
<1>3. CASE ~s.job
  BY <1>3 DEF Persist, SavedOK, IInv, TypeOK
<1> QED BY <1>2, <1>3

\* A failing phase changes nothing a restart depends on but the failure itself.
LEMMA FailConsistent ==
    ASSUME IInv,
           NEW p \in Phases, NEW s \in State,
           Consistent(s, idx, completed),
           Fail(p, s)
    PROVE  MemoryOK /\ SavedOK /\ ctl' \in Controls
<1> DEFINE t == [s EXCEPT !.failed = TRUE]
<1>1. t \in State
  BY DEF State
<1>2. Consistent(t, idx, completed)
  BY DEF Consistent, AgreedFor, ValidatedFor, ReviewPending, RepairPending, State
<1>3. state' = t /\ idx' = idx /\ completed' = completed
      /\ Persist(t, idx, completed, "failed")
  BY DEF Fail
<1>4. SavedOK
  BY <1>1, <1>2, <1>3, PersistConsistent DEF IInv, TypeOK
<1>5. ctl' \in Controls
  BY DEF Fail, Controls
<1> QED BY <1>1, <1>2, <1>3, <1>4, <1>5 DEF MemoryOK, IInv, TypeOK

LEMMA PauseConsistent ==
    ASSUME IInv,
           NEW s \in State,
           Consistent(s, idx, completed),
           Pause(s)
    PROVE  MemoryOK /\ SavedOK /\ ctl' \in Controls
<1>1. SavedOK
  BY PersistConsistent DEF Pause, IInv, TypeOK
<1> QED BY <1>1 DEF MemoryOK, IInv, TypeOK, Pause, Controls

LEMMA SucceedConsistent ==
    ASSUME IInv,
           NEW p \in Phases, NEW s \in State,
           Running(p),
           Consistent(s, p + 1, completed \cup {p}),
           Succeed(p, s)
    PROVE  MemoryOK /\ SavedOK /\ ctl' \in Controls
<1> DEFINE c == completed \cup {p}
<1> DEFINE asked == IF p = Report THEN "completed" ELSE "running"
<1>1. p + 1 \in 0..Finished /\ c \in SUBSET Phases
  BY DEF IInv, TypeOK, Phases, Finished, PrepareWorkspace, Report
<1>2. asked \in {"running", "paused", "failed", "completed"}
  OBVIOUS
<1>3. Persist(s, p + 1, c, asked)
  BY DEF Succeed
<1>4. SavedOK
  <2> HIDE DEF c, asked
  <2> QED BY <1>1, <1>2, <1>3, PersistConsistent DEF c
<1>5. ctl' \in Controls
  BY DEF Succeed, Running, Controls
<1> QED BY <1>1, <1>4, <1>5 DEF MemoryOK, Succeed

\* A restored job is the stored one: nothing is ahead of the stored phase.
LEMMA ResumeIdxIsStored ==
    ASSUME NEW i \in 0..Finished, NEW c \in SUBSET Phases, PrefixFor(c, i)
    PROVE  ResumeIdx(i, c) = i
<1> DEFINE Ok(n) == /\ n >= i
                    /\ \A p \in c : n > p
                    /\ n = i \/ n - 1 \in c
<1>1. Ok(i)
  BY DEF PrefixFor, Phases, PrepareWorkspace, Report, Finished
<1>2. \A n \in 0..Finished : Ok(n) => n = i
  BY DEF PrefixFor, Phases, PrepareWorkspace, Report, Finished
<1>3. (CHOOSE n \in 0..Finished : Ok(n)) = i
  <2> HIDE DEF Ok
  <2> QED BY <1>1, <1>2
<1> QED BY <1>3 DEF ResumeIdx

\* The statuses a restart forces are those of phases that really completed.
LEMMA ResumeConsistent ==
    ASSUME NEW s \in State, NEW i \in 0..Finished, NEW c \in SUBSET Phases,
           Consistent(s, i, c), NEW b \in BOOLEAN
    PROVE  LET r == [ResumeState(s, c) EXCEPT !.failed = b]
           IN  r \in State /\ Consistent(r, i, c)
<1> DEFINE r == [ResumeState(s, c) EXCEPT !.failed = b]
<1>1. r \in State
  <2> DEFINE cg == IF Codegen \in c THEN "passed" ELSE s.codegen
             pt == IF Patch \in c THEN "applied" ELSE s.patch
             vl == IF Gate \in c THEN "passed" ELSE s.validation
             ar == IF Artifact \in c THEN "collected" ELSE s.artifact
             q1 == [s EXCEPT !.codegen = cg]
             q2 == [q1 EXCEPT !.patch = pt]
             q3 == [q2 EXCEPT !.validation = vl]
             q4 == [q3 EXCEPT !.artifact = ar]
  <2>1. /\ cg \in {"none", "passed", "failed", "needs_user_input"}
        /\ pt \in {"none", "applied", "failed"}
        /\ vl \in {"none", "passed", "failed"}
        /\ ar \in {"none", "collected", "failed"}
    BY DEF State
  <2>2. q4 = ResumeState(s, c)
    BY DEF ResumeState
  <2> HIDE DEF cg, pt, vl, ar
  <2>3. q1 \in State
    BY <2>1 DEF State
  <2> HIDE DEF q1
  <2>4. q2 \in State
    BY <2>1, <2>3 DEF State
  <2> HIDE DEF q2
  <2>5. q3 \in State
    BY <2>1, <2>4 DEF State
  <2> HIDE DEF q3
  <2>6. q4 \in State
    BY <2>1, <2>5 DEF State
  <2> HIDE DEF q4
  <2>7. [q4 EXCEPT !.failed = b] \in State
    BY <2>6 DEF State
  <2> QED BY <2>2, <2>7
<1>2. /\ r.review = s.review /\ r.hc = s.hc /\ r.modeling = s.modeling
      /\ r.request = s.request /\ r.answer = s.answer /\ r.visual = s.visual
      /\ r.patch = IF Patch \in c THEN "applied" ELSE s.patch
      /\ r.validation = IF Gate \in c THEN "passed" ELSE s.validation
  BY DEF ResumeState, State
<1>3. Consistent(r, i, c)
  <2>1. AgreedFor(r, i) /\ PrefixFor(c, i)
    BY <1>2 DEF Consistent, AgreedFor
  <2>2. ValidatedFor(r, c, i) /\ (i <= Gate => r.validation # "passed")
    BY <1>2 DEF Consistent, ValidatedFor, PrefixFor, Phases, PrepareWorkspace,
                Report, Finished, Gate, Patch
  <2>3. /\ ReviewPending(r) => i = RequirementsReview
        /\ RepairPending(r) => i = Codegen
    BY <1>2 DEF Consistent, ReviewPending, RepairPending
  <2> HIDE DEF r
  <2> QED BY <2>1, <2>2, <2>3 DEF Consistent
<1> QED BY <1>1, <1>3

LEMMA LoadConsistent ==
    ASSUME IInv,
           NEW s \in State,
           Consistent(s, saved.idx, saved.completed),
           Load(s)
    PROVE  MemoryOK /\ SavedOK
<1>1. idx' = saved.idx
  BY ResumeIdxIsStored DEF IInv, TypeOK, Snapshot, Consistent, Load
<1> QED BY <1>1 DEF MemoryOK, SavedOK, Load, IInv, TypeOK, Snapshot

-------------------------------------------------------------------------------
\* The initial state and the fresh job.
LEMMA FreshConsistent ==
    /\ Fresh \in State /\ Consistent(Fresh, 0, {})
    /\ \A b \in BOOLEAN : [Fresh EXCEPT !.job = b] \in State
    /\ \A b \in BOOLEAN : Consistent([Fresh EXCEPT !.job = b], 0, {})
<1>1. Fresh \in State /\ \A b \in BOOLEAN : [Fresh EXCEPT !.job = b] \in State
  BY DEF Fresh, State, NoGate
<1>2. Consistent(Fresh, 0, {}) /\ \A b \in BOOLEAN : Consistent([Fresh EXCEPT !.job = b], 0, {})
  BY DEF Fresh, Consistent, AgreedFor, PrefixFor, ValidatedFor, ReviewPending,
         RepairPending, Phases, PrepareWorkspace, Report, RequirementsReview, Modeling,
         Codegen, Patch, Gate
<1> QED BY <1>1, <1>2

LEMMA InitIInv == Init => IInv
BY FreshConsistent DEF Init, IInv, TypeOK, NoSnapshot, Snapshot, Controls, Finished,
                       Phases, Report, PrepareWorkspace

-------------------------------------------------------------------------------
\* The phases, one by one.
\* One field at a time keeps the state typed.
LEMMA FieldTypes ==
    ASSUME NEW s \in State
    PROVE  /\ \A v \in {"needs_user_input", "approved", "rejected"} :
                 [s EXCEPT !.review = v] \in State
           /\ \A v \in {"pending", "approved", "rejected", "failed"} :
                 [s EXCEPT !.conf = v] \in State
           /\ \A v \in BOOLEAN : [s EXCEPT !.hc = v] \in State
           /\ \A v \in BOOLEAN : [s EXCEPT !.failed = v] \in State
           /\ \A v \in {"none", "passed", "failed", "needs_user_input"} :
                 [s EXCEPT !.codegen = v] \in State
           /\ \A v \in {"none", "pending", "approved"} : [s EXCEPT !.request = v] \in State
           /\ \A v \in {"none", "pending", "approved", "rejected"} :
                 [s EXCEPT !.answer = v] \in State
           /\ \A v \in {"applied", "failed"} : [s EXCEPT !.patch = v] \in State
           /\ \A v \in {"passed", "failed"} : [s EXCEPT !.validation = v] \in State
           /\ \A v \in 0..20 \cup {NoGate} : [s EXCEPT !.gate = v] \in State
           /\ \A v \in Nat : [s EXCEPT !.patchRetry = v] \in State
           /\ \A v \in Nat : [s EXCEPT !.retry = v] \in State
<1>1. \A v \in {"needs_user_input", "approved", "rejected"} :
         [s EXCEPT !.review = v] \in State
  BY DEF State
<1>2. \A v \in {"pending", "approved", "rejected", "failed"} :
         [s EXCEPT !.conf = v] \in State
  BY DEF State
<1>3. (\A v \in BOOLEAN : [s EXCEPT !.hc = v] \in State)
      /\ (\A v \in BOOLEAN : [s EXCEPT !.failed = v] \in State)
  BY DEF State
<1>4. \A v \in {"none", "passed", "failed", "needs_user_input"} :
         [s EXCEPT !.codegen = v] \in State
  BY DEF State
<1>5. \A v \in {"none", "pending", "approved"} : [s EXCEPT !.request = v] \in State
  BY DEF State
<1>6. \A v \in {"none", "pending", "approved", "rejected"} :
         [s EXCEPT !.answer = v] \in State
  BY DEF State
<1>7. \A v \in {"applied", "failed"} : [s EXCEPT !.patch = v] \in State
  BY DEF State
<1>8. \A v \in {"passed", "failed"} : [s EXCEPT !.validation = v] \in State
  BY DEF State
<1>9. \A v \in 0..20 \cup {NoGate} : [s EXCEPT !.gate = v] \in State
  BY DEF State
<1>10. (\A v \in Nat : [s EXCEPT !.patchRetry = v] \in State)
       /\ (\A v \in Nat : [s EXCEPT !.retry = v] \in State)
  BY DEF State
<1> QED BY <1>1, <1>2, <1>3, <1>4, <1>5, <1>6, <1>7, <1>8, <1>9, <1>10

LEMMA PhaseNumbers ==
    /\ PrepareWorkspace \in Phases /\ Context \in Phases /\ TaskPlanning \in Phases
    /\ RequirementsReview \in Phases /\ Modeling \in Phases /\ Codegen \in Phases
    /\ Patch \in Phases /\ Gate \in Phases /\ Artifact \in Phases /\ Report \in Phases
BY DEF PrepareWorkspace, Context, TaskPlanning, RequirementsReview, Modeling,
       Codegen, Patch, Gate, Artifact, Report, Phases

\* A phase that touches none of the flags the invariant reads.
LEMMA Untouched ==
    ASSUME IInv, NEW p \in {PrepareWorkspace, Context, TaskPlanning, Artifact, Report},
           Running(p), NEW s \in State,
           s.review = state.review, s.hc = state.hc, s.modeling = state.modeling,
           s.patch = state.patch, s.visual = state.visual,
           s.validation = state.validation,
           s.request = state.request, s.answer = state.answer
    PROVE  /\ Consistent(s, p + 1, completed \cup {p})
           /\ Consistent(s, idx, completed)
BY DEF Running, IInv, TypeOK, Consistent, AgreedFor, PrefixFor, ValidatedFor,
       ReviewPending, RepairPending, PrepareWorkspace, Context, TaskPlanning,
       RequirementsReview, Modeling, Codegen, Patch, Gate, Artifact, Report, Phases,
       Finished

LEMMA RaisesConsistent ==
    ASSUME IInv, PhaseRaises
    PROVE  MemoryOK /\ SavedOK /\ ctl' \in Controls
BY FailConsistent DEF PhaseRaises, IInv, TypeOK

LEMMA EarlyAndLatePhases ==
    ASSUME IInv, RunPrepareWorkspace \/ RunContext \/ RunTaskPlanning
                 \/ RunArtifact \/ RunReport
    PROVE  MemoryOK /\ SavedOK /\ ctl' \in Controls
<1>0. state \in State
  BY DEF IInv, TypeOK
<1>1. CASE RunPrepareWorkspace
  <2> DEFINE s == [state EXCEPT !.job = TRUE, !.retry = 0]
  <2>1. s \in State /\ s.review = state.review /\ s.hc = state.hc
        /\ s.modeling = state.modeling /\ s.validation = state.validation
        /\ s.patch = state.patch /\ s.visual = state.visual
        /\ s.request = state.request /\ s.answer = state.answer
    BY <1>0 DEF State
  <2>2. Running(PrepareWorkspace) /\ Succeed(PrepareWorkspace, s)
    BY <1>1 DEF RunPrepareWorkspace
  <2> HIDE DEF s
  <2>3. Consistent(s, PrepareWorkspace + 1, completed \cup {PrepareWorkspace})
    BY <2>1, <2>2, Untouched
  <2> QED BY <2>1, <2>2, <2>3, PhaseNumbers, SucceedConsistent
<1>2. CASE RunContext
  <2>1. Running(Context) /\ (Succeed(Context, state) \/ Fail(Context, state))
    BY <1>2 DEF RunContext
  <2>2. /\ Consistent(state, Context + 1, completed \cup {Context})
        /\ Consistent(state, idx, completed)
    BY <1>0, <2>1, Untouched
  <2> QED BY <1>0, <2>1, <2>2, PhaseNumbers, SucceedConsistent, FailConsistent
<1>3. CASE RunTaskPlanning
  <2> DEFINE s == [state EXCEPT !.failed = FALSE]
  <2>1. s \in State /\ s.review = state.review /\ s.hc = state.hc
        /\ s.modeling = state.modeling /\ s.validation = state.validation
        /\ s.patch = state.patch /\ s.visual = state.visual
        /\ s.request = state.request /\ s.answer = state.answer
    BY <1>0 DEF State
  <2>2. Running(TaskPlanning) /\ (Succeed(TaskPlanning, s) \/ Fail(TaskPlanning, state))
    BY <1>3 DEF RunTaskPlanning
  <2> HIDE DEF s
  <2>3. /\ Consistent(s, TaskPlanning + 1, completed \cup {TaskPlanning})
        /\ Consistent(state, idx, completed)
    BY <1>0, <2>1, <2>2, Untouched
  <2> QED BY <1>0, <2>1, <2>2, <2>3, PhaseNumbers, SucceedConsistent, FailConsistent
<1>4. CASE RunArtifact
  <2> DEFINE s(v) == [state EXCEPT !.artifact = v]
  <2>1. ASSUME NEW v \in {"collected", "failed"}
        PROVE  s(v) \in State /\ s(v).review = state.review /\ s(v).hc = state.hc
               /\ s(v).modeling = state.modeling /\ s(v).validation = state.validation
               /\ s(v).patch = state.patch /\ s(v).visual = state.visual
               /\ s(v).request = state.request /\ s(v).answer = state.answer
    BY <1>0 DEF State
  <2>2. Running(Artifact)
        /\ (Succeed(Artifact, s("collected")) \/ Fail(Artifact, s("failed")))
    BY <1>4 DEF RunArtifact
  <2> HIDE DEF s
  <2>3. /\ Consistent(s("collected"), Artifact + 1, completed \cup {Artifact})
        /\ Consistent(s("failed"), idx, completed)
        /\ s("collected") \in State /\ s("failed") \in State
    BY <2>1, <2>2, Untouched
  <2> QED BY <2>2, <2>3, PhaseNumbers, SucceedConsistent, FailConsistent
<1>5. CASE RunReport
  <2> DEFINE s == [state EXCEPT !.failed = (state.validation # "passed")]
  <2>1. s \in State /\ s.review = state.review /\ s.hc = state.hc
        /\ s.modeling = state.modeling /\ s.validation = state.validation
        /\ s.patch = state.patch /\ s.visual = state.visual
        /\ s.request = state.request /\ s.answer = state.answer
    BY <1>0 DEF State
  <2>2. Running(Report) /\ Succeed(Report, s)
    BY <1>5 DEF RunReport
  <2> HIDE DEF s
  <2>3. Consistent(s, Report + 1, completed \cup {Report})
    BY <2>1, <2>2, Untouched
  <2> QED BY <2>1, <2>2, <2>3, PhaseNumbers, SucceedConsistent
<1> QED BY <1>1, <1>2, <1>3, <1>4, <1>5

LEMMA ReviewPhase ==
    ASSUME IInv, RunRequirementsReview
    PROVE  MemoryOK /\ SavedOK /\ ctl' \in Controls
<1> DEFINE ok == [state EXCEPT !.review = "approved", !.conf = "approved", !.hc = FALSE]
           ask == [state EXCEPT !.review = "needs_user_input", !.conf = "pending",
                                !.hc = TRUE]
<1>1. state \in State /\ Running(RequirementsReview) /\ idx = RequirementsReview
  BY DEF IInv, TypeOK, RunRequirementsReview, Running
<1>2. ok \in State /\ ask \in State
  <2>1. [[[state EXCEPT !.review = "approved"] EXCEPT !.conf = "approved"]
            EXCEPT !.hc = FALSE] \in State
    BY <1>1, FieldTypes
  <2>2. [[[state EXCEPT !.review = "needs_user_input"] EXCEPT !.conf = "pending"]
            EXCEPT !.hc = TRUE] \in State
    BY <1>1, FieldTypes
  <2> QED BY <2>1, <2>2
<1>3. /\ ok.review = "approved" /\ ~ok.hc
      /\ ok.validation = state.validation
      /\ ok.request = state.request /\ ok.answer = state.answer
      /\ ask.modeling = state.modeling /\ ask.validation = state.validation
      /\ ask.request = state.request /\ ask.answer = state.answer
  BY <1>1 DEF State
<1>4. Succeed(RequirementsReview, ok) \/ Pause(ask)
  BY DEF RunRequirementsReview
<1> HIDE DEF ok, ask
<1>5. /\ Consistent(ok, RequirementsReview + 1, completed \cup {RequirementsReview})
      /\ Consistent(ask, idx, completed)
  BY <1>1, <1>3 DEF IInv, TypeOK, Consistent, AgreedFor, PrefixFor, ValidatedFor,
     ReviewPending, RepairPending, RequirementsReview, Modeling, Codegen, Patch, Gate,
     Phases, PrepareWorkspace, Report, Finished
<1> QED BY <1>1, <1>2, <1>4, <1>5, PhaseNumbers, SucceedConsistent, PauseConsistent

LEMMA ModelingPhase ==
    ASSUME IInv, RunModeling
    PROVE  MemoryOK /\ SavedOK /\ ctl' \in Controls
<1> DEFINE s(v, b) == [state EXCEPT !.modeling = v, !.hc = b]
<1>1. state \in State /\ Running(Modeling) /\ idx = Modeling
  BY DEF IInv, TypeOK, RunModeling, Running
<1>2. PICK b \in BOOLEAN : Succeed(Modeling, s("passed", b)) \/ Fail(Modeling, s("failed", b))
  BY DEF RunModeling
<1>3. ASSUME NEW v \in {"passed", "failed"}
      PROVE  /\ s(v, b) \in State /\ s(v, b).modeling = v
             /\ s(v, b).review = state.review /\ s(v, b).validation = state.validation
             /\ s(v, b).request = state.request /\ s(v, b).answer = state.answer
  BY <1>1 DEF State
<1> HIDE DEF s
<1>4. /\ s("passed", b) \in State /\ s("failed", b) \in State
      /\ Consistent(s("passed", b), Modeling + 1, completed \cup {Modeling})
      /\ Consistent(s("failed", b), idx, completed)
  BY <1>1, <1>3 DEF IInv, TypeOK, Consistent, AgreedFor, PrefixFor, ValidatedFor,
     ReviewPending, RepairPending, RequirementsReview, Modeling, Codegen, Patch, Gate,
     Phases, PrepareWorkspace, Report, Finished
<1> QED BY <1>1, <1>2, <1>4, PhaseNumbers, SucceedConsistent, FailConsistent

\* Whatever the subgraph returns, it changes only the codegen flags, and at the
\* code generation phase a request may wait.
LEMMA CodegenPhase ==
    ASSUME IInv, RunCodegen
    PROVE  MemoryOK /\ SavedOK /\ ctl' \in Controls
<1>1. state \in State /\ Running(Codegen) /\ idx = Codegen
  BY DEF IInv, TypeOK, RunCodegen, Running
<1>2. PICK raised \in BOOLEAN, status \in {"passed", "failed", "needs_user_input"} :
         LET s == CodegenResult(status, raised) IN
         \/ Fail(Codegen, s)
         \/ Pause(s)
         \/ ~RepairPending(s) /\ Succeed(Codegen, s)
  BY DEF RunCodegen
<1> DEFINE kept == IF state.answer = "approved"
                   THEN [state EXCEPT !.request = "none", !.answer = "none"] ELSE state
           s == CodegenResult(status, raised)
<1>3. /\ kept \in State /\ kept.modeling = state.modeling
      /\ kept.review = state.review /\ kept.hc = state.hc
      /\ kept.validation = state.validation /\ kept.patch = state.patch
      /\ kept.visual = state.visual
  <2>1. [state EXCEPT !.request = "none", !.answer = "none"] \in State
    BY <1>1 DEF State
  <2> QED BY <1>1, <2>1 DEF State
<1>4. s = [kept EXCEPT !.codegen = status,
                       !.request = IF raised THEN "pending" ELSE @,
                       !.answer = IF raised THEN "pending" ELSE @]
  BY DEF CodegenResult
<1>5. s \in State
  <2> DEFINE rq == IF raised THEN "pending" ELSE kept.request
             an == IF raised THEN "pending" ELSE kept.answer
  <2>1. rq \in {"none", "pending", "approved"}
        /\ an \in {"none", "pending", "approved", "rejected"}
    <3> HIDE DEF kept
    <3> QED BY <1>3 DEF State
  <2>2. s = [[[kept EXCEPT !.codegen = status] EXCEPT !.request = rq] EXCEPT !.answer = an]
    <3> HIDE DEF kept
    <3> QED BY <1>3, <1>4 DEF State
  <2> HIDE DEF rq, an, kept, s
  <2>3. [[[kept EXCEPT !.codegen = status] EXCEPT !.request = rq] EXCEPT !.answer = an]
           \in State
    BY <1>3, <2>1, FieldTypes
  <2> QED BY <2>2, <2>3
<1> HIDE DEF kept, s
<1>6. /\ s.modeling = state.modeling /\ s.review = state.review /\ s.hc = state.hc
      /\ s.validation = state.validation /\ s.patch = state.patch
      /\ s.visual = state.visual
  BY <1>3, <1>4 DEF State
<1>7. /\ Consistent(s, idx, completed)
      /\ ~RepairPending(s) => Consistent(s, Codegen + 1, completed \cup {Codegen})
  <2> HIDE DEF RepairPending
  <2> QED
    BY <1>1, <1>5, <1>6 DEF IInv, TypeOK, Consistent, AgreedFor, PrefixFor, ValidatedFor,
       ReviewPending, RequirementsReview, Modeling, Codegen, Patch, Gate,
       Phases, PrepareWorkspace, Report, Finished
<1>8. Fail(Codegen, s) \/ Pause(s) \/ (~RepairPending(s) /\ Succeed(Codegen, s))
  BY <1>2 DEF s
<1> QED BY <1>1, <1>5, <1>7, <1>8, PhaseNumbers, SucceedConsistent, FailConsistent,
           PauseConsistent

LEMMA PatchPhase ==
    ASSUME IInv, PatchReady \/ PatchRejected \/ PatchNotRunnable
    PROVE  MemoryOK /\ SavedOK /\ ctl' \in Controls
<1> DEFINE ready == [state EXCEPT !.patch = "applied", !.visual = "ready"]
           rejected == [state EXCEPT !.patch = "failed", !.codegen = "failed",
                                     !.patchRetry = @ + 1]
           broken == [state EXCEPT !.patch = "failed", !.visual = "failed"]
           Same(s) == /\ s.review = state.review /\ s.hc = state.hc
                      /\ s.modeling = state.modeling /\ s.validation = state.validation
                      /\ s.request = state.request /\ s.answer = state.answer
<1>1. state \in State /\ Running(Patch) /\ idx = Patch
  BY DEF IInv, TypeOK, PatchReady, PatchRejected, PatchNotRunnable, Running
<1>2. ready \in State /\ Same(ready) /\ ready.patch = "applied" /\ ready.visual = "ready"
  BY <1>1 DEF State
<1>3. rejected \in State /\ Same(rejected)
  <2>1. state.patchRetry + 1 \in Nat
    BY <1>1 DEF State
  <2>2. [[[state EXCEPT !.patch = "failed"] EXCEPT !.codegen = "failed"]
            EXCEPT !.patchRetry = state.patchRetry + 1] \in State
    BY <1>1, <2>1, FieldTypes
  <2>3. rejected \in State
    BY <2>2
  <2> QED BY <1>1, <2>3 DEF State
<1>4. broken \in State /\ Same(broken)
  BY <1>1 DEF State
<1>5. Succeed(Patch, ready) \/ Fail(Patch, rejected) \/ Fail(Patch, broken)
  BY DEF PatchReady, PatchRejected, PatchNotRunnable
<1> HIDE DEF ready, rejected, broken
<1>6. Consistent(ready, Patch + 1, completed \cup {Patch})
  BY <1>1, <1>2 DEF IInv, TypeOK, Consistent, AgreedFor, PrefixFor, ValidatedFor,
     ReviewPending, RepairPending, RequirementsReview, Modeling, Codegen, Patch, Gate,
     Phases, PrepareWorkspace, Report, Finished
<1>7. ASSUME NEW s, Same(s)
      PROVE  Consistent(s, idx, completed)
  BY <1>1, <1>7 DEF IInv, TypeOK, Consistent, AgreedFor, PrefixFor, ValidatedFor,
     ReviewPending, RepairPending, RequirementsReview, Modeling, Codegen, Patch, Gate
<1>8. Consistent(rejected, idx, completed) /\ Consistent(broken, idx, completed)
  BY <1>3, <1>4, <1>7
<1> QED BY <1>1, <1>2, <1>3, <1>4, <1>5, <1>6, <1>8, PhaseNumbers, SucceedConsistent,
           FailConsistent

LEMMA GatePhase ==
    ASSUME IInv, GatePasses \/ GateFails
    PROVE  MemoryOK /\ SavedOK /\ ctl' \in Controls
<1> DEFINE ok == [state EXCEPT !.validation = "passed", !.gate = NoGate]
           bad(g) == [state EXCEPT !.validation = "failed", !.gate = g, !.retry = @ + 1]
<1>1. state \in State /\ Running(Gate) /\ idx = Gate
  BY DEF IInv, TypeOK, GatePasses, GateFails, Running
<1>2. CASE GatePasses
  <2>1. /\ ok \in State /\ ok.validation = "passed"
        /\ ok.review = state.review /\ ok.hc = state.hc
        /\ ok.modeling = state.modeling /\ ok.patch = state.patch
        /\ ok.visual = state.visual
        /\ ok.request = state.request /\ ok.answer = state.answer
    BY <1>1 DEF State, NoGate
  <2>2. Succeed(Gate, ok)
    BY <1>2 DEF GatePasses
  <2> HIDE DEF ok
  <2>3. Consistent(ok, Gate + 1, completed \cup {Gate})
    BY <1>1, <2>1 DEF IInv, TypeOK, Consistent, AgreedFor, PrefixFor, ValidatedFor,
       ReviewPending, RepairPending, RequirementsReview, Modeling, Codegen, Patch, Gate,
       Phases, PrepareWorkspace, Report, Finished
  <2> QED BY <1>1, <2>1, <2>2, <2>3, PhaseNumbers, SucceedConsistent
<1>3. CASE GateFails
  <2>1. PICK g \in FailingGates : Fail(Gate, bad(g))
    BY <1>3 DEF GateFails
  <2>2. /\ bad(g) \in State /\ bad(g).validation = "failed"
        /\ bad(g).review = state.review /\ bad(g).hc = state.hc
        /\ bad(g).modeling = state.modeling /\ bad(g).patch = state.patch
        /\ bad(g).visual = state.visual
        /\ bad(g).request = state.request /\ bad(g).answer = state.answer
    <3>1. state.retry + 1 \in Nat /\ g \in 0..20 \cup {NoGate}
      BY <1>1, LimitsAssumption DEF State
    <3>2. [[[state EXCEPT !.validation = "failed"] EXCEPT !.gate = g]
              EXCEPT !.retry = state.retry + 1] \in State
      BY <1>1, <3>1, FieldTypes
    <3>3. bad(g) \in State
      BY <3>2
    <3> QED BY <1>1, <3>3 DEF State
  <2> HIDE DEF bad
  <2>3. Consistent(bad(g), idx, completed)
    BY <1>1, <2>2 DEF IInv, TypeOK, Consistent, AgreedFor, PrefixFor, ValidatedFor,
       ReviewPending, RepairPending, RequirementsReview, Modeling, Codegen, Patch, Gate,
       Phases, PrepareWorkspace, Report, Finished
  <2> QED BY <1>1, <2>1, <2>2, <2>3, PhaseNumbers, FailConsistent
<1> QED BY <1>2, <1>3

-------------------------------------------------------------------------------
\* Routing after a failure.
LEMMA RouteConsistent ==
    ASSUME IInv, NEW p \in Phases, NEW s \in State,
           Consistent(s, p, {q \in completed : q < p}),
           RouteTo(p, s)
    PROVE  MemoryOK /\ SavedOK /\ ctl' \in Controls
<1> DEFINE c == {q \in completed : q < p}
<1>1. p \in 0..Finished /\ c \in SUBSET Phases
  <2>1. completed \subseteq Phases
    BY DEF IInv, TypeOK
  <2>2. p \in 0..Finished
    BY DEF Phases, Finished, PrepareWorkspace, Report
  <2> QED BY <2>1, <2>2
<1>2. Persist(s, p, c, "running")
  BY DEF RouteTo
<1>3. SavedOK
  <2> HIDE DEF c
  <2> QED BY <1>1, <1>2, PersistConsistent DEF c
<1> QED BY <1>1, <1>3 DEF MemoryOK, RouteTo, Controls

LEMMA Routing ==
    ASSUME IInv, RouteFailedPatch \/ RouteFailedGate
    PROVE  MemoryOK /\ SavedOK /\ ctl' \in Controls
<1>1. state \in State
  BY DEF IInv, TypeOK
<1>2. ASSUME StopRouting PROVE MemoryOK /\ SavedOK /\ ctl' \in Controls
  BY <1>2 DEF StopRouting, IInv, TypeOK, MemoryOK, SavedOK, Controls
<1>3. CASE RouteFailedPatch
  <2> DEFINE s == [state EXCEPT !.failed = FALSE, !.codegen = "failed"]
  <2>1. idx = Patch /\ (RouteTo(Codegen, s) \/ StopRouting)
    BY <1>3 DEF RouteFailedPatch
  <2>2. /\ s \in State
        /\ s.review = state.review /\ s.hc = state.hc /\ s.modeling = state.modeling
        /\ s.validation = state.validation
        /\ s.request = state.request /\ s.answer = state.answer
    BY <1>1 DEF State
  <2> HIDE DEF s
  <2>3. Consistent(s, Codegen, {q \in completed : q < Codegen})
    BY <2>1, <2>2 DEF IInv, TypeOK, Consistent, AgreedFor, PrefixFor, ValidatedFor,
       ReviewPending, RepairPending, RequirementsReview, Modeling, Codegen, Patch, Gate,
       Phases, PrepareWorkspace, Report, Finished
  <2> QED BY <1>2, <2>1, <2>2, <2>3, PhaseNumbers, RouteConsistent
<1>4. CASE RouteFailedGate
  <2> DEFINE s == [state EXCEPT !.failed = FALSE]
             p == GateRoute(state)
  <2>1. idx = Gate /\ (StopRouting \/ (p # Report /\ RouteTo(p, s)))
    BY <1>4 DEF RouteFailedGate
  <2>2. p \in {Context, TaskPlanning, RequirementsReview, Modeling, Codegen, Patch,
               Artifact, Report}
    BY DEF GateRoute, GateRetryTarget
  <2>3. /\ s \in State
        /\ s.review = state.review /\ s.hc = state.hc /\ s.modeling = state.modeling
        /\ s.patch = state.patch /\ s.visual = state.visual
        /\ s.validation = state.validation
        /\ s.request = state.request /\ s.answer = state.answer
    BY <1>1 DEF State
  <2> HIDE DEF s, p
  <2>4. p # Report => Consistent(s, p, {q \in completed : q < p})
    BY <2>1, <2>2, <2>3 DEF IInv, TypeOK, Consistent, AgreedFor, PrefixFor, ValidatedFor,
       ReviewPending, RepairPending, Context, TaskPlanning, RequirementsReview, Modeling,
       Codegen, Patch, Gate, Artifact, Phases, PrepareWorkspace, Report, Finished
  <2>5. p \in Phases
    BY <2>2, PhaseNumbers
  <2> QED BY <1>2, <2>1, <2>3, <2>4, <2>5, RouteConsistent
<1> QED BY <1>3, <1>4

-------------------------------------------------------------------------------
\* What users and the machine do.
LEMMA Decisions ==
    ASSUME IInv, ApproveRepair \/ RejectRepair \/ AnswerReview \/ RejectReview
    PROVE  MemoryOK /\ SavedOK /\ ctl' \in Controls
<1>1. state \in State /\ Consistent(state, idx, completed) /\ ctl \in Controls
      /\ idx \in 0..Finished /\ completed \in SUBSET Phases
  BY DEF IInv, TypeOK
<1>2. CASE ApproveRepair
  <2> DEFINE s == [state EXCEPT !.answer = "approved", !.request = "approved",
                                !.codegen = "none", !.failed = FALSE]
  <2>1. idx = Codegen
    BY <1>1, <1>2 DEF ApproveRepair, Consistent
  <2>2. s \in State
    <3>1. [[[[state EXCEPT !.answer = "approved"] EXCEPT !.request = "approved"]
              EXCEPT !.codegen = "none"] EXCEPT !.failed = FALSE] \in State
      BY <1>1, FieldTypes
    <3> QED BY <3>1
  <2>3. /\ s.review = state.review /\ s.hc = state.hc /\ s.modeling = state.modeling
        /\ s.validation = state.validation /\ s.answer = "approved"
    BY <1>1 DEF State
  <2> HIDE DEF s
  <2>4. Consistent(s, Codegen, completed \ {Codegen})
    BY <1>1, <2>1, <2>3 DEF Consistent, AgreedFor, PrefixFor, ValidatedFor,
       ReviewPending, RepairPending, RequirementsReview, Modeling, Codegen, Patch, Gate,
       Phases, PrepareWorkspace, Report, Finished
  <2>5. /\ state' = s /\ idx' = Codegen /\ completed' = completed \ {Codegen}
        /\ saved' = saved /\ ctl' = "loop"
    BY <1>2 DEF ApproveRepair, s
  <2> QED BY <1>1, <2>1, <2>2, <2>4, <2>5 DEF MemoryOK, SavedOK, IInv, TypeOK, Controls
<1>3. CASE RejectRepair
  <2> DEFINE s == [state EXCEPT !.answer = "rejected", !.failed = TRUE]
  <2>1. /\ s \in State /\ s.review = state.review /\ s.hc = state.hc
        /\ s.modeling = state.modeling /\ s.patch = state.patch
        /\ s.visual = state.visual /\ s.validation = state.validation
        /\ s.answer = "rejected"
    BY <1>1 DEF State
  <2>2. /\ state' = s /\ idx' = idx /\ completed' = completed /\ ctl' = ctl
        /\ Persist(s, idx, completed, "failed")
    BY <1>3 DEF RejectRepair
  <2> HIDE DEF s
  <2>3. Consistent(s, idx, completed)
    BY <1>1, <2>1 DEF Consistent, AgreedFor, ValidatedFor, ReviewPending, RepairPending
  <2>4. SavedOK
    BY <1>1, <2>1, <2>2, <2>3, PersistConsistent
  <2> QED BY <1>1, <2>1, <2>2, <2>3, <2>4 DEF MemoryOK
<1>4. CASE AnswerReview
  <2> DEFINE s == [state EXCEPT !.review = "needs_user_input", !.conf = "pending",
                                !.hc = TRUE, !.failed = FALSE]
  <2>1. idx = RequirementsReview
    BY <1>1, <1>4 DEF AnswerReview, Consistent
  <2>2. s \in State
    <3>1. [[[[state EXCEPT !.review = "needs_user_input"] EXCEPT !.conf = "pending"]
              EXCEPT !.hc = TRUE] EXCEPT !.failed = FALSE] \in State
      BY <1>1, FieldTypes
    <3> QED BY <3>1
  <2>3. /\ s.validation = state.validation
        /\ s.request = state.request /\ s.answer = state.answer
    BY <1>1 DEF State
  <2> HIDE DEF s
  <2>4. Consistent(s, RequirementsReview, completed)
    BY <1>1, <2>1, <2>3 DEF Consistent, AgreedFor, PrefixFor, ValidatedFor,
       ReviewPending, RepairPending, RequirementsReview, Modeling, Codegen, Patch, Gate
  <2>5. /\ state' = s /\ idx' = RequirementsReview /\ completed' = completed
        /\ saved' = saved /\ ctl' = "supplement"
    BY <1>4 DEF AnswerReview, s
  <2> QED BY <1>1, <2>1, <2>2, <2>4, <2>5 DEF MemoryOK, SavedOK, IInv, TypeOK, Controls
<1>5. CASE RejectReview
  <2> DEFINE s == [state EXCEPT !.review = "rejected", !.conf = "rejected",
                                !.hc = FALSE, !.failed = TRUE]
  <2>1. idx = RequirementsReview
    BY <1>1, <1>5 DEF RejectReview, Consistent
  <2>2. s \in State
    <3>1. [[[[state EXCEPT !.review = "rejected"] EXCEPT !.conf = "rejected"]
              EXCEPT !.hc = FALSE] EXCEPT !.failed = TRUE] \in State
      BY <1>1, FieldTypes
    <3> QED BY <3>1
  <2>3. /\ ~s.hc /\ s.validation = state.validation
        /\ s.request = state.request /\ s.answer = state.answer
    BY <1>1 DEF State
  <2>4. /\ state' = s /\ idx' = idx /\ completed' = completed /\ ctl' = ctl
        /\ Persist(s, idx, completed, "failed")
    BY <1>5 DEF RejectReview
  <2> HIDE DEF s
  <2>5. Consistent(s, idx, completed)
    BY <1>1, <2>1, <2>3 DEF Consistent, AgreedFor, PrefixFor, ValidatedFor,
       ReviewPending, RepairPending, RequirementsReview, Modeling, Codegen, Patch, Gate
  <2>6. SavedOK
    BY <1>1, <2>2, <2>4, <2>5, PersistConsistent
  <2> QED BY <1>1, <2>2, <2>4, <2>5, <2>6 DEF MemoryOK
<1> QED BY <1>2, <1>3, <1>4, <1>5

LEMMA Restarts ==
    ASSUME IInv, StartJob \/ ResumeJob \/ RetryJob \/ Crash
    PROVE  MemoryOK /\ SavedOK /\ ctl' \in Controls
<1>1. /\ saved \in Snapshot /\ saved.state \in State /\ saved.idx \in 0..Finished
      /\ saved.completed \in SUBSET Phases
      /\ Consistent(saved.state, saved.idx, saved.completed)
  BY DEF IInv, TypeOK, Snapshot
<1> DEFINE R == ResumeState(saved.state, saved.completed)
<1>2. CASE StartJob
  BY <1>1, <1>2, FreshConsistent DEF StartJob, MemoryOK, SavedOK, Controls, Finished,
     Report, PrepareWorkspace
<1>3. CASE ResumeJob
  <2>1. R = [R EXCEPT !.failed = saved.state.failed] /\ saved.state.failed \in BOOLEAN
    BY <1>1 DEF ResumeState, State
  <2>2. R \in State /\ Consistent(R, saved.idx, saved.completed)
    BY <1>1, <2>1, ResumeConsistent
  <2> HIDE DEF R
  <2> QED BY <1>3, <2>2, LoadConsistent DEF ResumeJob, Controls, R
<1>4. CASE RetryJob
  <2> DEFINE T == [R EXCEPT !.failed = FALSE]
  <2>1. T \in State /\ Consistent(T, saved.idx, saved.completed)
    BY <1>1, ResumeConsistent
  <2>2. Load(T) /\ ctl' \in Controls
    BY <1>4 DEF RetryJob, Controls
  <2> HIDE DEF T
  <2> QED BY <2>1, <2>2, LoadConsistent
<1>5. CASE Crash
  <2>1. MemoryOK
    BY <1>5, FreshConsistent DEF Crash, MemoryOK, Finished, Report
  <2>2. ctl' \in Controls
    BY <1>5 DEF Crash, Controls
  <2>3. CASE UNCHANGED saved
    BY <1>1, <2>1, <2>2, <2>3 DEF SavedOK
  <2>4. CASE saved' = [NoSnapshot EXCEPT !.state.job = TRUE, !.status = "running"]
    <3> DEFINE t == [Fresh EXCEPT !.job = TRUE]
    <3>1. t \in State /\ Consistent(t, 0, {})
      BY FreshConsistent
    <3>2. /\ saved'.state = t /\ saved'.idx = 0 /\ saved'.completed = {}
          /\ saved' = [state |-> t, idx |-> 0, completed |-> {}, status |-> "running"]
      BY <2>4 DEF NoSnapshot
    <3> HIDE DEF t
    <3>3. saved' \in Snapshot
      BY <3>1, <3>2 DEF Snapshot, Finished, Report
    <3> QED BY <2>1, <2>2, <3>1, <3>2, <3>3 DEF SavedOK
  <2> QED BY <1>5, <2>3, <2>4 DEF Crash
<1> QED BY <1>2, <1>3, <1>4, <1>5

-------------------------------------------------------------------------------
\* Every step keeps the invariant, as long as the front end submits only what is
\* awaited.
LEMMA StepIInv ==
    ASSUME GuardedFrontEnd, IInv, [Next]_vars
    PROVE  IInv'
<1>1. ASSUME MemoryOK, SavedOK, ctl' \in Controls
      PROVE  IInv'
  BY <1>1 DEF MemoryOK, SavedOK, IInv, TypeOK
<1>2. CASE RunPhase
  BY <1>1, <1>2, EarlyAndLatePhases, ReviewPhase, ModelingPhase, CodegenPhase, PatchPhase,
     GatePhase, RaisesConsistent DEF RunPhase
<1>3. CASE RouteFailedPatch \/ RouteFailedGate
  BY <1>1, <1>3, Routing
<1>4. CASE LoopReturns \/ Step
  <2>1. UNCHANGED <<state, idx, completed, saved>> /\ ctl' \in Controls
    BY <1>4 DEF LoopReturns, Step, Controls
  <2> QED BY <2>1 DEF IInv, TypeOK
<1>5. CASE ApproveRepair \/ RejectRepair \/ AnswerReview \/ RejectReview
  BY <1>1, <1>5, Decisions
<1>6. CASE StartJob \/ ResumeJob \/ RetryJob \/ Crash
  BY <1>1, <1>6, Restarts
<1>7. CASE ApproveAfterFailedModeling \/ LegacyConfirmation
  BY <1>7 DEF ApproveAfterFailedModeling, LegacyConfirmation, Unsolicited
<1>8. CASE UNCHANGED vars
  BY <1>8 DEF vars, IInv, TypeOK
<1> QED BY <1>2, <1>3, <1>4, <1>5, <1>6, <1>7, <1>8 DEF Next, Progress, Operation

LEMMA PipelineInvariant == GuardedFrontEnd /\ Spec => []IInv
<1> SUFFICES ASSUME GuardedFrontEnd PROVE Spec => []IInv
  OBVIOUS
<1>1. IInv /\ [Next]_vars => IInv'
  BY StepIInv
<1> QED BY <1>1, InitIInv, PTL DEF Spec

\* The pipeline's variables keep their types under the guarded front end
\* (RadAgentAppService's state, phase index, completed phases and snapshots).
THEOREM TypeCorrect == GuardedFrontEnd /\ Spec => []TypeOK
<1>1. IInv => TypeOK
  BY DEF IInv
<1> QED BY <1>1, PipelineInvariant, PTL

\* Nothing is modelled before the requirements are agreed, nor built before the
\* model passed, in memory and in the store, for all limits and failing gates
\* (run_phase, resume_job and the routing of failures).
THEOREM BuiltOnlyIfAgreed == GuardedFrontEnd /\ Spec => []AgreedBeforeBuilt
<1>1. IInv => AgreedBeforeBuilt
  BY DEF IInv, Consistent, AgreedBeforeBuilt
<1> QED BY <1>1, PipelineInvariant, PTL

\* The completed phases are those behind the current one, the gates at most
\* excepted, so that no restart skips a phase (_normalize_resumed_progress).
THEOREM NoPhaseSkipped == GuardedFrontEnd /\ Spec => []ProgressIsPrefix
<1>1. IInv => ProgressIsPrefix
  BY DEF IInv, Consistent, ProgressIsPrefix
<1> QED BY <1>1, PipelineInvariant, PTL

\* Past the gates, the gate phase is on record exactly if the gates passed, and
\* the code there was applied and run.
THEOREM RecordedMeansValidated == GuardedFrontEnd /\ Spec => []ValidationIsRecorded
<1>1. IInv => ValidationIsRecorded
  BY DEF IInv, Consistent, ValidationIsRecorded
<1> QED BY <1>1, PipelineInvariant, PTL

\* A decision is only ever awaited at the phase it belongs to.
THEOREM AwaitedInPlace == GuardedFrontEnd /\ Spec => []AwaitedAtItsPhase
<1>1. IInv => AwaitedAtItsPhase
  BY DEF IInv, Consistent, AwaitedAtItsPhase
<1> QED BY <1>1, PipelineInvariant, PTL

\* What front ends and restarts go by: typed, complete up to the current phase, and
\* awaiting decisions only where they belong.
THEOREM JobStaysInOrder == GuardedFrontEnd /\ Spec => []JobInOrder
<1>1. TypeOK /\ ProgressIsPrefix /\ AwaitedAtItsPhase => JobInOrder
  BY DEF JobInOrder
<1> QED BY <1>1, TypeCorrect, NoPhaseSkipped, AwaitedInPlace, PTL

-------------------------------------------------------------------------------
(* The second invariant: memory and store tell the same story.  A user's answer is *)
(* not stored until the phase it restarts is, and nothing is stored until the job  *)
(* has its workspace; apart from that every running call leaves in the store what  *)
(* it has in memory, as far as decisions and progress go.                          *)
Recorded(s, i) ==
    /\ s.review = "none" => s.conf = "none" /\ ~s.hc
    /\ s.review = "needs_user_input" => s.conf = "pending" /\ s.hc
    /\ s.review \in {"approved", "rejected"} => s.conf = s.review
    /\ s.modeling = "failed" => i = Modeling
    /\ s.codegen = "failed" => i >= Codegen

SameRequest(t, s) == t.state.request = s.request /\ t.state.answer = s.answer

Mirrors(t, s, i, c) ==
    /\ t.idx = i /\ t.completed = c
    /\ t.state.review = s.review /\ t.state.hc = s.hc /\ t.state.conf = s.conf
    /\ t.state.validation = s.validation

\* A snapshot is listed as paused exactly when it waits for a decision.
Stored(t) ==
    /\ t.status = "none" => t = NoSnapshot
    /\ t.state.conf = "pending" \/ RepairPending(t.state) => t.status = "paused"
    /\ t.status = "paused" => NeedsConfirmation(t.state)
    /\ t.status # "none" => t.state.job
    /\ Recorded(t.state, t.idx)

\* In a call that may still route the job back, only code that is about to be written
\* again has failed.
Rewritten(k, s, i) ==
    k \in {"loop", "routing", "supplement"} /\ s.codegen = "failed" =>
        i = IF k = "routing" THEN Patch ELSE Codegen

Live ==
    /\ Recorded(state, idx)
    /\ Mirrors(saved, state, idx, completed)
    /\ \/ SameRequest(saved, state)
       \/ ctl = "loop" /\ idx = Codegen /\ state.answer = "approved"
    /\ state.job \/ idx = PrepareWorkspace
    /\ Rewritten(ctl, state, idx)
    /\ ctl = "routing" => state.failed

RInv ==
    /\ IInv
    /\ Stored(saved)
    /\ ctl = "new" => saved.status = "none"
    /\ ctl \notin {"new", "down"} => Live

\* What is persisted is what memory holds, and it is listed as paused for a reason.
LEMMA PersistStored ==
    ASSUME Stored(saved),
           NEW s \in State, NEW i, NEW c,
           NEW asked \in {"running", "paused", "failed", "completed"},
           asked = "paused" => NeedsConfirmation(s),
           Recorded(s, i),
           s.job \/ (Mirrors(saved, s, i, c) /\ SameRequest(saved, s)),
           Persist(s, i, c, asked)
    PROVE  /\ Stored(saved') /\ Mirrors(saved', s, i, c) /\ SameRequest(saved', s)
           /\ saved.status # "none" => saved'.status # "none"
<1>1. CASE ~s.job
  BY <1>1 DEF Persist, Mirrors, SameRequest
<1>2. CASE s.job
  <2>1. saved' = [state |-> s, idx |-> i, completed |-> c, status |-> PersistedStatus(s, asked)]
    BY <1>2 DEF Persist
  <2>2. s.conf = "pending" => ReviewPending(s)
    BY DEF Recorded, ReviewPending, State
  <2>3. PersistedStatus(s, asked) \in {"running", "paused", "failed", "completed"}
    BY DEF PersistedStatus
  <2>4. PersistedStatus(s, asked) = "paused" => NeedsConfirmation(s)
    BY <2>2 DEF PersistedStatus, NeedsConfirmation
  <2>5. s.conf = "pending" \/ RepairPending(s) => PersistedStatus(s, asked) = "paused"
    BY DEF PersistedStatus
  <2> QED BY <1>2, <2>1, <2>3, <2>4, <2>5 DEF Stored, Mirrors, SameRequest
<1> QED BY <1>1, <1>2

\* The four ways a call goes on keep memory and store together.
LEMMA FailStored ==
    ASSUME RInv, NEW p \in Phases, NEW s \in State,
           Running(p), Fail(p, s), Recorded(s, idx),
           s = state \/ s.job,
           p = Gate /\ ctl = "loop" => s.codegen # "failed"
    PROVE  /\ Stored(saved') /\ (ctl' # "new") /\ Live'
<1> DEFINE t == [s EXCEPT !.failed = TRUE]
<1>1. /\ idx = p /\ ctl \in {"loop", "step", "supplement"} /\ Live /\ Stored(saved)
  BY DEF RInv, Running
<1>2. /\ t \in State /\ t.failed = TRUE
      /\ t.job = s.job /\ t.review = s.review /\ t.hc = s.hc /\ t.conf = s.conf
      /\ t.modeling = s.modeling /\ t.codegen = s.codegen /\ t.validation = s.validation
      /\ t.request = s.request /\ t.answer = s.answer
  BY DEF State
<1>3. /\ state' = t /\ idx' = idx /\ completed' = completed
      /\ ctl' = IF ctl = "loop" /\ p \in {Patch, Gate} THEN "routing" ELSE "idle"
      /\ Persist(t, idx, completed, "failed")
  BY DEF Fail
<1> HIDE DEF t
<1>4. Recorded(t, idx)
  BY <1>2 DEF Recorded
<1>5. t.job \/ (Mirrors(saved, t, idx, completed) /\ SameRequest(saved, t))
  BY <1>1, <1>2 DEF Live, Mirrors, SameRequest, PrepareWorkspace, Codegen
<1>6. Stored(saved') /\ Mirrors(saved', t, idx, completed) /\ SameRequest(saved', t)
  BY <1>1, <1>2, <1>3, <1>4, <1>5, PersistStored
<1>7. t.job \/ idx = PrepareWorkspace
  BY <1>1, <1>2 DEF Live
<1>8. Rewritten(ctl', t, idx)
  BY <1>1, <1>2, <1>3 DEF Rewritten
<1> QED BY <1>2, <1>3, <1>4, <1>6, <1>7, <1>8 DEF Live

LEMMA SucceedStored ==
    ASSUME RInv, NEW p \in Phases, NEW s \in State,
           Running(p), Succeed(p, s), s.job, Recorded(s, p + 1),
           Rewritten(ctl, s, p + 1)
    PROVE  /\ Stored(saved') /\ (ctl' # "new") /\ Live'
<1> DEFINE c == completed \cup {p}
           asked == IF p = Report THEN "completed" ELSE "running"
<1>1. /\ ctl \in {"loop", "step", "supplement"} /\ Stored(saved)
  BY DEF RInv, Running
<1>2. /\ state' = s /\ idx' = p + 1 /\ completed' = c /\ Persist(s, p + 1, c, asked)
      /\ ctl' \in {"loop", "idle"} /\ (ctl' = "loop" => ctl \in {"loop", "supplement"})
  BY <1>1 DEF Succeed
<1>3. asked \in {"running", "paused", "failed", "completed"} /\ asked # "paused"
  OBVIOUS
<1> HIDE DEF c, asked
<1>4. Stored(saved') /\ Mirrors(saved', s, p + 1, c) /\ SameRequest(saved', s)
  BY <1>1, <1>2, <1>3, PersistStored
<1>5. Rewritten(ctl', s, p + 1)
  BY <1>2 DEF Rewritten
<1> QED BY <1>2, <1>4, <1>5 DEF Live

LEMMA PauseStored ==
    ASSUME RInv, NEW s \in State, Pause(s), s.job, Recorded(s, idx), NeedsConfirmation(s)
    PROVE  /\ Stored(saved') /\ (ctl' # "new") /\ Live'
<1>1. /\ state' = s /\ idx' = idx /\ completed' = completed /\ ctl' = "idle"
      /\ Persist(s, idx, completed, "paused") /\ Stored(saved)
  BY DEF Pause, RInv
<1>2. Stored(saved') /\ Mirrors(saved', s, idx, completed) /\ SameRequest(saved', s)
  BY <1>1, PersistStored
<1> QED BY <1>1, <1>2 DEF Live, Rewritten

LEMMA RouteStored ==
    ASSUME RInv, NEW p \in Phases, NEW s \in State,
           RouteTo(p, s), s.job, Recorded(s, p), Rewritten("loop", s, p)
    PROVE  /\ Stored(saved') /\ (ctl' # "new") /\ Live'
<1> DEFINE c == {q \in completed : q < p}
<1>1. /\ state' = s /\ idx' = p /\ completed' = c /\ ctl' = "loop"
      /\ Persist(s, p, c, "running") /\ Stored(saved)
  BY DEF RouteTo, RInv
<1> HIDE DEF c
<1>2. Stored(saved') /\ Mirrors(saved', s, p, c) /\ SameRequest(saved', s)
  BY <1>1, PersistStored
<1> QED BY <1>1, <1>2 DEF Live

\* What the phases keep of memory, one after the other.
LEMMA RunningFacts ==
    ASSUME RInv, NEW p \in Phases, Running(p)
    PROVE  /\ state \in State /\ idx = p /\ ctl \in {"loop", "step", "supplement"}
           /\ Recorded(state, idx) /\ Rewritten(ctl, state, idx)
           /\ p # PrepareWorkspace => state.job
           /\ p > RequirementsReview => state.review = "approved"
           /\ p > Modeling => state.modeling = "passed"
BY DEF RInv, IInv, TypeOK, Running, Live, Consistent, AgreedFor

\* A phase that changes nothing that memory and store must agree on.
LEMMA PlainStored ==
    ASSUME RInv, NEW p \in Phases, NEW s \in State, Running(p),
           p \notin {RequirementsReview, Modeling, Codegen, Patch},
           s.job, s.review = state.review, s.hc = state.hc, s.conf = state.conf,
           s.modeling = state.modeling, s.codegen = state.codegen,
           Succeed(p, s) \/ Fail(p, s)
    PROVE  /\ Stored(saved') /\ (ctl' # "new") /\ Live'
<1>1. Recorded(s, p) /\ Recorded(s, p + 1)
  BY RunningFacts DEF Recorded, Modeling, Codegen, RequirementsReview, Phases, Report,
     PrepareWorkspace
<1>2. /\ Rewritten(ctl, s, p + 1)
      /\ p = Gate /\ ctl = "loop" => s.codegen # "failed"
  BY RunningFacts DEF Rewritten, Recorded, Codegen, Patch, Gate, Phases, Report,
     PrepareWorkspace
<1> QED BY <1>1, <1>2, RunningFacts, SucceedStored, FailStored

LEMMA RaisesStored ==
    ASSUME RInv, PhaseRaises
    PROVE  /\ Stored(saved') /\ (ctl' # "new") /\ Live'
<1>1. PICK p \in Phases : Running(p) /\ Fail(p, state)
  BY DEF PhaseRaises
<1>2. p = Gate /\ ctl = "loop" => state.codegen # "failed"
  BY <1>1, RunningFacts DEF Rewritten, Gate, Codegen
<1> QED BY <1>1, <1>2, RunningFacts, FailStored

LEMMA PlainPhasesStored ==
    ASSUME RInv, RunPrepareWorkspace \/ RunContext \/ RunTaskPlanning
                 \/ GatePasses \/ GateFails \/ RunArtifact \/ RunReport
    PROVE  /\ Stored(saved') /\ (ctl' # "new") /\ Live'
<1> DEFINE Same(s) == /\ s \in State /\ s.review = state.review /\ s.hc = state.hc
                      /\ s.conf = state.conf /\ s.modeling = state.modeling
                      /\ s.codegen = state.codegen
<1>0. state \in State /\ Same(state)
  BY DEF RInv, IInv, TypeOK
<1>1. CASE RunPrepareWorkspace
  <2> DEFINE s == [state EXCEPT !.job = TRUE, !.retry = 0]
  <2>1. Same(s) /\ s.job
    BY <1>0 DEF State
  <2>2. Running(PrepareWorkspace) /\ Succeed(PrepareWorkspace, s)
    BY <1>1 DEF RunPrepareWorkspace
  <2> HIDE DEF s
  <2>3. PrepareWorkspace \notin {RequirementsReview, Modeling, Codegen, Patch}
    BY DEF PrepareWorkspace, RequirementsReview, Modeling, Codegen, Patch
  <2> QED BY <2>1, <2>2, <2>3, PlainStored, PhaseNumbers
<1>2. CASE RunContext
  <2>1. Running(Context) /\ (Succeed(Context, state) \/ Fail(Context, state))
    BY <1>2 DEF RunContext
  <2>2. Context \notin {RequirementsReview, Modeling, Codegen, Patch} /\ state.job
    BY <2>1, RunningFacts, PhaseNumbers
       DEF Context, PrepareWorkspace, RequirementsReview, Modeling, Codegen, Patch
  <2> QED BY <1>0, <2>1, <2>2, PlainStored, PhaseNumbers
<1>3. CASE RunTaskPlanning
  <2> DEFINE s == [state EXCEPT !.failed = FALSE]
  <2>1. Running(TaskPlanning) /\ (Succeed(TaskPlanning, s) \/ Fail(TaskPlanning, state))
    BY <1>3 DEF RunTaskPlanning
  <2>2. TaskPlanning \notin {RequirementsReview, Modeling, Codegen, Patch} /\ state.job
    BY <2>1, RunningFacts, PhaseNumbers
       DEF TaskPlanning, PrepareWorkspace, RequirementsReview, Modeling, Codegen, Patch
  <2>3. Same(s) /\ s.job
    BY <1>0, <2>2 DEF State
  <2> HIDE DEF s
  <2> QED BY <1>0, <2>1, <2>2, <2>3, PlainStored, PhaseNumbers
<1>4. CASE GatePasses \/ GateFails
  <2> DEFINE ok == [state EXCEPT !.validation = "passed", !.gate = NoGate]
             bad(g) == [state EXCEPT !.validation = "failed", !.gate = g, !.retry = @ + 1]
  <2>1. Running(Gate) /\ (Succeed(Gate, ok) \/ \E g \in FailingGates : Fail(Gate, bad(g)))
    BY <1>4 DEF GatePasses, GateFails
  <2>a. Running(Gate)
    BY <2>1
  <2>2. Gate \notin {RequirementsReview, Modeling, Codegen, Patch} /\ state.job
    BY <2>a, RunningFacts, PhaseNumbers
       DEF Gate, PrepareWorkspace, RequirementsReview, Modeling, Codegen, Patch
  <2>3. Same(ok) /\ ok.job
    BY <1>0, <2>2 DEF State, NoGate
  <2>4. ASSUME NEW g \in FailingGates PROVE Same(bad(g)) /\ bad(g).job
    <3>1. state.retry + 1 \in Nat /\ g \in 0..20 \cup {NoGate}
      BY <1>0, LimitsAssumption DEF State
    <3>2. [[[state EXCEPT !.validation = "failed"] EXCEPT !.gate = g]
              EXCEPT !.retry = state.retry + 1] \in State
      BY <1>0, <3>1, FieldTypes
    <3>3. bad(g) \in State
      BY <3>2
    <3> QED BY <1>0, <2>2, <3>3 DEF State
  <2> HIDE DEF ok, bad
  <2> QED BY <2>1, <2>2, <2>3, <2>4, PlainStored, PhaseNumbers
<1>5. CASE RunArtifact
  <2> DEFINE s(v) == [state EXCEPT !.artifact = v]
  <2>1. Running(Artifact)
        /\ (Succeed(Artifact, s("collected")) \/ Fail(Artifact, s("failed")))
    BY <1>5 DEF RunArtifact
  <2>2. Artifact \notin {RequirementsReview, Modeling, Codegen, Patch} /\ state.job
    BY <2>1, RunningFacts, PhaseNumbers
       DEF Artifact, PrepareWorkspace, RequirementsReview, Modeling, Codegen, Patch
  <2>3. ASSUME NEW v \in {"collected", "failed"} PROVE Same(s(v)) /\ s(v).job
    BY <1>0, <2>2 DEF State
  <2> HIDE DEF s
  <2>4. Same(s("collected")) /\ s("collected").job /\ Same(s("failed")) /\ s("failed").job
    BY <2>3
  <2> QED BY <2>1, <2>2, <2>4, PlainStored, PhaseNumbers
<1>6. CASE RunReport
  <2> DEFINE s == [state EXCEPT !.failed = (state.validation # "passed")]
  <2>1. Running(Report) /\ Succeed(Report, s)
    BY <1>6 DEF RunReport
  <2>2. Report \notin {RequirementsReview, Modeling, Codegen, Patch} /\ state.job
    BY <2>1, RunningFacts, PhaseNumbers
       DEF Report, PrepareWorkspace, RequirementsReview, Modeling, Codegen, Patch
  <2>3. Same(s) /\ s.job
    BY <1>0, <2>2 DEF State
  <2> HIDE DEF s
  <2> QED BY <2>1, <2>2, <2>3, PlainStored, PhaseNumbers
<1> QED BY <1>1, <1>2, <1>3, <1>4, <1>5, <1>6

LEMMA ReviewStored ==
    ASSUME RInv, RunRequirementsReview
    PROVE  /\ Stored(saved') /\ (ctl' # "new") /\ Live'
<1> DEFINE ok == [state EXCEPT !.review = "approved", !.conf = "approved", !.hc = FALSE]
           ask == [state EXCEPT !.review = "needs_user_input", !.conf = "pending",
                                !.hc = TRUE]
<1>1. Running(RequirementsReview) /\ (Succeed(RequirementsReview, ok) \/ Pause(ask))
  BY DEF RunRequirementsReview
<1>a. Running(RequirementsReview)
  BY <1>1
<1>2. /\ state \in State /\ state.job /\ idx = RequirementsReview
      /\ Recorded(state, idx) /\ Rewritten(ctl, state, idx)
  BY <1>a, RunningFacts, PhaseNumbers DEF RequirementsReview, PrepareWorkspace
<1>3. ok \in State /\ ask \in State
  <2>1. [[[state EXCEPT !.review = "approved"] EXCEPT !.conf = "approved"]
            EXCEPT !.hc = FALSE] \in State
    BY <1>2, FieldTypes
  <2>2. [[[state EXCEPT !.review = "needs_user_input"] EXCEPT !.conf = "pending"]
            EXCEPT !.hc = TRUE] \in State
    BY <1>2, FieldTypes
  <2> QED BY <2>1, <2>2
<1>4. /\ ok.job /\ ok.review = "approved" /\ ok.conf = "approved"
      /\ ok.modeling = state.modeling /\ ok.codegen = state.codegen
  BY <1>2 DEF State
<1>5. /\ ask.job /\ ask.review = "needs_user_input" /\ ask.conf = "pending" /\ ask.hc
      /\ ask.modeling = state.modeling /\ ask.codegen = state.codegen
  BY <1>2 DEF State
<1> HIDE DEF ok, ask
<1>6. /\ Recorded(ok, RequirementsReview + 1) /\ Rewritten(ctl, ok, RequirementsReview + 1)
      /\ Recorded(ask, idx) /\ NeedsConfirmation(ask)
  BY <1>2, <1>4, <1>5 DEF Recorded, Rewritten, NeedsConfirmation, ReviewPending,
     RequirementsReview, Modeling, Codegen, Patch
<1> QED BY <1>1, <1>3, <1>4, <1>5, <1>6, PhaseNumbers, SucceedStored, PauseStored

LEMMA ModelingStored ==
    ASSUME RInv, RunModeling
    PROVE  /\ Stored(saved') /\ (ctl' # "new") /\ Live'
<1> DEFINE s(v, b) == [state EXCEPT !.modeling = v, !.hc = b]
<1>1. Running(Modeling)
  BY DEF RunModeling
<1>2. PICK b \in BOOLEAN : Succeed(Modeling, s("passed", b)) \/ Fail(Modeling, s("failed", b))
  BY DEF RunModeling
<1>3. /\ state \in State /\ state.job /\ idx = Modeling /\ state.review = "approved"
      /\ Recorded(state, idx) /\ Rewritten(ctl, state, idx)
  BY <1>1, RunningFacts, PhaseNumbers DEF RequirementsReview, Modeling, PrepareWorkspace
<1>4. ASSUME NEW v \in {"passed", "failed"}
      PROVE  /\ s(v, b) \in State /\ s(v, b).job /\ s(v, b).modeling = v
             /\ s(v, b).review = "approved" /\ s(v, b).conf = state.conf
             /\ s(v, b).codegen = state.codegen
  BY <1>3 DEF State
<1> HIDE DEF s
<1>5. /\ s("passed", b) \in State /\ s("passed", b).job
      /\ s("failed", b) \in State /\ s("failed", b).job
  BY <1>4
<1>6. /\ Recorded(s("passed", b), Modeling + 1) /\ Rewritten(ctl, s("passed", b), Modeling + 1)
  BY <1>3, <1>4 DEF Recorded, Rewritten, Modeling, Codegen, Patch
<1>7. Recorded(s("failed", b), idx) /\ Modeling # Gate
  BY <1>3, <1>4 DEF Recorded, Modeling, Codegen, Gate
<1> QED BY <1>1, <1>2, <1>5, <1>6, <1>7, PhaseNumbers, SucceedStored, FailStored

LEMMA CodegenTyped ==
    ASSUME state \in State, NEW raised \in BOOLEAN,
           NEW status \in {"passed", "failed", "needs_user_input"}
    PROVE  LET s == CodegenResult(status, raised) IN
           /\ s \in State /\ s.codegen = status
           /\ s.job = state.job /\ s.review = state.review /\ s.modeling = state.modeling
           /\ s.conf = state.conf /\ s.hc = state.hc /\ s.validation = state.validation
<1> DEFINE kept == IF state.answer = "approved"
                   THEN [state EXCEPT !.request = "none", !.answer = "none"] ELSE state
           rq == IF raised THEN "pending" ELSE kept.request
           an == IF raised THEN "pending" ELSE kept.answer
           s == CodegenResult(status, raised)
<1>1. [state EXCEPT !.request = "none", !.answer = "none"] \in State
  BY DEF State
<1>2. /\ kept \in State /\ kept.job = state.job /\ kept.review = state.review
      /\ kept.modeling = state.modeling /\ kept.conf = state.conf /\ kept.hc = state.hc
      /\ kept.validation = state.validation
  BY <1>1 DEF State
<1>3. s = [kept EXCEPT !.codegen = status,
                       !.request = IF raised THEN "pending" ELSE @,
                       !.answer = IF raised THEN "pending" ELSE @]
  BY DEF CodegenResult
<1> HIDE DEF kept, s
<1>4. /\ rq \in {"none", "pending", "approved"}
      /\ an \in {"none", "pending", "approved", "rejected"}
  BY <1>2 DEF State
<1>5. s = [[[kept EXCEPT !.codegen = status] EXCEPT !.request = rq] EXCEPT !.answer = an]
  BY <1>2, <1>3 DEF State
<1> HIDE DEF rq, an
<1>6. [[[kept EXCEPT !.codegen = status] EXCEPT !.request = rq] EXCEPT !.answer = an] \in State
  BY <1>2, <1>4, FieldTypes
<1>7. /\ s.codegen = status /\ s.job = kept.job /\ s.review = kept.review
      /\ s.modeling = kept.modeling /\ s.conf = kept.conf /\ s.hc = kept.hc
      /\ s.validation = kept.validation
  BY <1>2, <1>5 DEF State
<1> QED BY <1>2, <1>5, <1>6, <1>7 DEF s

LEMMA CodegenStored ==
    ASSUME RInv, RunCodegen
    PROVE  /\ Stored(saved') /\ (ctl' # "new") /\ Live'
<1>1. Running(Codegen)
  BY DEF RunCodegen
<1>2. /\ state \in State /\ state.job /\ idx = Codegen
      /\ state.review = "approved" /\ state.modeling = "passed"
      /\ Recorded(state, idx) /\ Rewritten(ctl, state, idx)
  BY <1>1, RunningFacts, PhaseNumbers DEF RequirementsReview, Modeling, Codegen,
     PrepareWorkspace
<1>3. PICK raised \in BOOLEAN, status \in {"passed", "failed", "needs_user_input"} :
         LET s == CodegenResult(status, raised) IN
         \/ status = "failed" /\ Fail(Codegen, s)
         \/ status # "failed" /\ RepairPending(s) /\ Pause(s)
         \/ status # "failed" /\ ~RepairPending(s) /\ Succeed(Codegen, s)
  BY DEF RunCodegen
<1> DEFINE s == CodegenResult(status, raised)
<1>4. /\ s \in State /\ s.codegen = status
      /\ s.job /\ s.review = "approved" /\ s.modeling = "passed"
      /\ s.conf = state.conf /\ s.hc = state.hc
  BY <1>2, CodegenTyped
<1> HIDE DEF s
<1>5. Recorded(s, Codegen) /\ (status # "failed" => Recorded(s, Codegen + 1))
  BY <1>2, <1>4 DEF Recorded, Codegen
<1>6. Codegen # Gate /\ (status # "failed" => Rewritten(ctl, s, Codegen + 1))
  BY <1>4 DEF Rewritten, Codegen, Gate
<1>7. \/ status = "failed" /\ Fail(Codegen, s)
      \/ status # "failed" /\ RepairPending(s) /\ Pause(s)
      \/ status # "failed" /\ ~RepairPending(s) /\ Succeed(Codegen, s)
  BY <1>3 DEF s
<1>8. RepairPending(s) => NeedsConfirmation(s)
  BY DEF NeedsConfirmation
<1> QED BY <1>1, <1>2, <1>4, <1>5, <1>6, <1>7, <1>8, PhaseNumbers, SucceedStored,
           FailStored, PauseStored

LEMMA PatchStored ==
    ASSUME RInv, PatchReady \/ PatchRejected \/ PatchNotRunnable
    PROVE  /\ Stored(saved') /\ (ctl' # "new") /\ Live'
<1> DEFINE ready == [state EXCEPT !.patch = "applied", !.visual = "ready"]
           rejected == [state EXCEPT !.patch = "failed", !.codegen = "failed",
                                     !.patchRetry = @ + 1]
           broken == [state EXCEPT !.patch = "failed", !.visual = "failed"]
           Same(s) == /\ s \in State /\ s.job /\ s.review = state.review
                      /\ s.hc = state.hc /\ s.conf = state.conf
                      /\ s.modeling = state.modeling
<1>1. Running(Patch)
  BY DEF PatchReady, PatchRejected, PatchNotRunnable
<1>2. /\ state \in State /\ state.job /\ idx = Patch
      /\ Recorded(state, idx) /\ Rewritten(ctl, state, idx)
  BY <1>1, RunningFacts, PhaseNumbers DEF Patch, PrepareWorkspace
<1>3. Same(ready) /\ ready.codegen = state.codegen
  BY <1>2 DEF State
<1>4. Same(rejected)
  <2>1. state.patchRetry + 1 \in Nat
    BY <1>2 DEF State
  <2>2. [[[state EXCEPT !.patch = "failed"] EXCEPT !.codegen = "failed"]
            EXCEPT !.patchRetry = state.patchRetry + 1] \in State
    BY <1>2, <2>1, FieldTypes
  <2>3. rejected \in State
    BY <2>2
  <2> QED BY <1>2, <2>3 DEF State
<1>5. Same(broken)
  BY <1>2 DEF State
<1>6. Succeed(Patch, ready) \/ Fail(Patch, rejected) \/ Fail(Patch, broken)
  BY DEF PatchReady, PatchRejected, PatchNotRunnable
<1> HIDE DEF ready, rejected, broken
<1>7. /\ Recorded(ready, Patch + 1) /\ Rewritten(ctl, ready, Patch + 1)
      /\ ready \in State /\ ready.job
  BY <1>2, <1>3, <1>1 DEF Recorded, Rewritten, Running, Modeling, Codegen, Patch
<1>8. /\ Recorded(rejected, idx) /\ rejected \in State /\ rejected.job
      /\ Patch # Gate
  BY <1>2, <1>4 DEF Recorded, Modeling, Codegen, Patch, Gate
<1>9. Recorded(broken, idx) /\ broken \in State /\ broken.job
  <2>1. broken.codegen = state.codegen
    BY <1>2 DEF broken, State
  <2> QED BY <1>2, <1>5, <2>1 DEF Recorded
<1> QED BY <1>1, <1>6, <1>7, <1>8, <1>9, PhaseNumbers, SucceedStored, FailStored

\* Routing, and a loop that has nothing to run.
LEMMA RoutingStored ==
    ASSUME RInv, RouteFailedPatch \/ RouteFailedGate \/ LoopReturns
    PROVE  /\ Stored(saved') /\ (ctl' # "new") /\ Live'
<1>1. state \in State /\ Stored(saved) /\ ctl \in {"loop", "routing"} /\ Live
  BY DEF RInv, IInv, TypeOK, RouteFailedPatch, RouteFailedGate, LoopReturns
<1>2. ASSUME UNCHANGED <<state, idx, completed, saved>>, ctl' = "idle",
             SameRequest(saved, state)
      PROVE  /\ Stored(saved') /\ (ctl' # "new") /\ Live'
  BY <1>1, <1>2 DEF Live, Rewritten, SameRequest, Mirrors
<1>3. CASE LoopReturns
  <2>1. idx # Codegen /\ UNCHANGED <<state, idx, completed, saved>> /\ ctl' = "idle"
    BY <1>3 DEF LoopReturns, Codegen, Finished, Report, RequirementsReview
  <2> QED BY <1>1, <1>2, <2>1 DEF Live
<1>4. CASE RouteFailedPatch
  <2> DEFINE s == [state EXCEPT !.failed = FALSE, !.codegen = "failed"]
  <2>1. idx = Patch /\ ctl = "routing" /\ (RouteTo(Codegen, s) \/ StopRouting)
    BY <1>4 DEF RouteFailedPatch
  <2>2. /\ s \in State /\ s.job = state.job /\ s.review = state.review /\ s.hc = state.hc
        /\ s.conf = state.conf /\ s.modeling = state.modeling
    BY <1>1 DEF State
  <2> HIDE DEF s
  <2>3. s.job /\ Recorded(s, Codegen) /\ Rewritten("loop", s, Codegen)
    BY <1>1, <2>1, <2>2 DEF Live, Recorded, Rewritten, Codegen, Modeling, Patch,
       PrepareWorkspace
  <2> QED BY <1>1, <1>2, <2>1, <2>2, <2>3, PhaseNumbers, RouteStored DEF StopRouting, Live
<1>5. CASE RouteFailedGate
  <2> DEFINE s == [state EXCEPT !.failed = FALSE]
             p == GateRoute(state)
  <2>1. idx = Gate /\ ctl = "routing" /\ (RouteTo(p, s) \/ StopRouting)
    BY <1>5 DEF RouteFailedGate
  <2>2. p \in {Context, TaskPlanning, RequirementsReview, Modeling, Codegen, Patch,
               Artifact, Report}
    BY DEF GateRoute, GateRetryTarget
  <2>3. /\ s \in State /\ s.job = state.job /\ s.review = state.review /\ s.hc = state.hc
        /\ s.conf = state.conf /\ s.modeling = state.modeling /\ s.codegen = state.codegen
    BY <1>1 DEF State
  <2>4. p \in Phases
    BY <2>2, PhaseNumbers
  <2> HIDE DEF s, p
  <2>5. state.codegen # "failed" /\ state.modeling # "failed" /\ state.job
    BY <1>1, <2>1 DEF Live, Recorded, Rewritten, Gate, Patch, Modeling, PrepareWorkspace
  <2>6. s.job /\ Recorded(s, p) /\ Rewritten("loop", s, p)
    BY <1>1, <2>3, <2>5 DEF Live, Recorded, Rewritten
  <2> QED BY <1>1, <1>2, <2>1, <2>3, <2>4, <2>6, RouteStored DEF StopRouting, Live
<1> QED BY <1>3, <1>4, <1>5

\* Decisions: an approval and an answer are not stored, a rejection is.
LEMMA DecisionsStored ==
    ASSUME RInv, Step \/ ApproveRepair \/ RejectRepair \/ AnswerReview \/ RejectReview
    PROVE  /\ Stored(saved') /\ (ctl' # "new") /\ Live'
<1>1. /\ state \in State /\ Consistent(state, idx, completed)
      /\ ctl = "idle" /\ Stored(saved) /\ Live
      /\ completed \subseteq Phases /\ idx \in 0..Finished
  BY DEF RInv, IInv, TypeOK, Step, ApproveRepair, RejectRepair, AnswerReview, RejectReview
<1>2. Recorded(state, idx) /\ Mirrors(saved, state, idx, completed) /\ SameRequest(saved, state)
  BY <1>1 DEF Live
<1>3. CASE Step
  <2>1. UNCHANGED <<state, idx, completed, saved>> /\ ctl' = "step"
    BY <1>3 DEF Step
  <2> QED BY <1>1, <1>2, <2>1 DEF Live, Rewritten, SameRequest, Mirrors
<1>4. CASE ApproveRepair
  <2> DEFINE s == [state EXCEPT !.answer = "approved", !.request = "approved",
                                !.codegen = "none", !.failed = FALSE]
  <2>1. idx = Codegen /\ state.job
    BY <1>1, <1>4 DEF ApproveRepair, Consistent
  <2>2. /\ s.job = state.job /\ s.review = state.review /\ s.hc = state.hc
        /\ s.conf = state.conf /\ s.modeling = state.modeling /\ s.codegen = "none"
        /\ s.validation = state.validation /\ s.answer = "approved"
    BY <1>1 DEF State
  <2>3. /\ state' = s /\ idx' = Codegen /\ completed' = completed \ {Codegen}
        /\ saved' = saved /\ ctl' = "loop"
    BY <1>4 DEF ApproveRepair
  <2> HIDE DEF s
  <2>4. completed \ {Codegen} = completed
    BY <1>1, <2>1 DEF Consistent, PrefixFor, Codegen
  <2> QED BY <1>1, <1>2, <2>1, <2>2, <2>3, <2>4 DEF Live, Rewritten, Recorded, Mirrors
<1>5. CASE AnswerReview
  <2> DEFINE s == [state EXCEPT !.review = "needs_user_input", !.conf = "pending",
                                !.hc = TRUE, !.failed = FALSE]
  <2>1. idx = RequirementsReview /\ state.job /\ state.review = "needs_user_input"
    BY <1>1, <1>5 DEF AnswerReview, Consistent, ReviewPending
  <2>2. /\ s.job = state.job /\ s.review = "needs_user_input" /\ s.hc = TRUE
        /\ s.conf = "pending" /\ s.modeling = state.modeling /\ s.codegen = state.codegen
        /\ s.validation = state.validation
        /\ s.request = state.request /\ s.answer = state.answer
    BY <1>1 DEF State
  <2>3. /\ state' = s /\ idx' = RequirementsReview /\ completed' = completed
        /\ saved' = saved /\ ctl' = "supplement"
    BY <1>5 DEF AnswerReview
  <2> HIDE DEF s
  <2>4. state.hc = TRUE /\ state.conf = "pending" /\ state.codegen # "failed"
    BY <1>1, <1>2, <2>1 DEF Recorded, State, RequirementsReview, Codegen
  <2>5. Recorded(s, RequirementsReview) /\ Rewritten("supplement", s, RequirementsReview)
    BY <1>2, <2>1, <2>2, <2>4 DEF Recorded, Rewritten
  <2>6. Mirrors(saved, s, RequirementsReview, completed) /\ SameRequest(saved, s)
    BY <1>2, <2>1, <2>2, <2>4 DEF Mirrors, SameRequest
  <2> QED BY <1>1, <2>1, <2>2, <2>3, <2>5, <2>6 DEF Live
<1>6. CASE RejectRepair
  <2> DEFINE s == [state EXCEPT !.answer = "rejected", !.failed = TRUE]
  <2>1. /\ s \in State /\ s.job = state.job /\ s.review = state.review
        /\ s.hc = state.hc /\ s.conf = state.conf
        /\ s.modeling = state.modeling /\ s.codegen = state.codegen
    BY <1>1 DEF State
  <2>2. /\ state' = s /\ idx' = idx /\ completed' = completed /\ ctl' = "idle"
        /\ Persist(s, idx, completed, "failed") /\ state.job
    BY <1>1, <1>6 DEF RejectRepair
  <2> HIDE DEF s
  <2>3. Recorded(s, idx)
    BY <1>2, <2>1 DEF Recorded
  <2>4. Stored(saved') /\ Mirrors(saved', s, idx, completed) /\ SameRequest(saved', s)
    BY <1>1, <2>1, <2>2, <2>3, PersistStored
  <2> QED BY <2>1, <2>2, <2>3, <2>4 DEF Live, Rewritten
<1>7. CASE RejectReview
  <2> DEFINE s == [state EXCEPT !.review = "rejected", !.conf = "rejected",
                                !.hc = FALSE, !.failed = TRUE]
  <2>1. s \in State
    <3>1. [[[[state EXCEPT !.review = "rejected"] EXCEPT !.conf = "rejected"]
              EXCEPT !.hc = FALSE] EXCEPT !.failed = TRUE] \in State
      BY <1>1, FieldTypes
    <3> QED BY <3>1
  <2>2. /\ s.job = state.job /\ s.review = "rejected" /\ s.conf = "rejected"
        /\ s.modeling = state.modeling /\ s.codegen = state.codegen
    BY <1>1 DEF State
  <2>3. /\ state' = s /\ idx' = idx /\ completed' = completed /\ ctl' = "idle"
        /\ Persist(s, idx, completed, "failed") /\ state.job
    BY <1>1, <1>7 DEF RejectReview
  <2> HIDE DEF s
  <2>4. Recorded(s, idx)
    BY <1>2, <2>2 DEF Recorded
  <2>5. Stored(saved') /\ Mirrors(saved', s, idx, completed) /\ SameRequest(saved', s)
    BY <1>1, <2>1, <2>2, <2>3, <2>4, PersistStored
  <2> QED BY <2>2, <2>3, <2>4, <2>5 DEF Live, Rewritten
<1> QED BY <1>3, <1>4, <1>5, <1>6, <1>7

\* A job that is loaded is the stored one; code whose phase completed did not fail.
LEMMA LoadStored ==
    ASSUME RInv, NEW b \in BOOLEAN,
           Load([ResumeState(saved.state, saved.completed) EXCEPT !.failed = b]),
           ctl' \in {"idle", "loop"}
    PROVE  Stored(saved') /\ Live'
<1> DEFINE r == [ResumeState(saved.state, saved.completed) EXCEPT !.failed = b]
<1>1. /\ saved.state \in State /\ saved.idx \in 0..Finished
      /\ saved.completed \in SUBSET Phases /\ Stored(saved)
      /\ Consistent(saved.state, saved.idx, saved.completed)
  BY DEF RInv, IInv, TypeOK, Snapshot
<1>2. /\ saved' = saved /\ saved.status # "none" /\ state' = r
      /\ idx' = ResumeIdx(saved.idx, saved.completed) /\ completed' = saved.completed
  BY DEF Load
<1>3. idx' = saved.idx
  BY <1>1, <1>2, ResumeIdxIsStored DEF Consistent
<1>4. /\ r.review = saved.state.review /\ r.hc = saved.state.hc /\ r.conf = saved.state.conf
      /\ r.modeling = saved.state.modeling /\ r.job = saved.state.job
      /\ r.request = saved.state.request /\ r.answer = saved.state.answer
      /\ r.codegen = IF Codegen \in saved.completed THEN "passed" ELSE saved.state.codegen
      /\ r.validation = IF Gate \in saved.completed THEN "passed" ELSE saved.state.validation
  BY <1>1 DEF ResumeState, State
<1> HIDE DEF r
<1>5. r.validation = saved.state.validation
  BY <1>1, <1>4 DEF Consistent, ValidatedFor, PrefixFor, Gate, Phases, PrepareWorkspace, Report
<1>6. r.job /\ Recorded(saved.state, saved.idx)
  BY <1>1, <1>2, <1>4 DEF Stored
<1>7. Recorded(r, saved.idx)
  BY <1>4, <1>6 DEF Recorded
<1>8. r.codegen = "failed" => saved.idx = Codegen
  BY <1>1, <1>4, <1>6 DEF Recorded, Consistent, PrefixFor, Codegen, Gate, Phases,
     PrepareWorkspace, Report, Finished
<1>9. Mirrors(saved, r, saved.idx, saved.completed) /\ SameRequest(saved, r)
  BY <1>4, <1>5 DEF Mirrors, SameRequest
<1> QED BY <1>1, <1>2, <1>3, <1>6, <1>7, <1>8, <1>9 DEF Live, Rewritten

LEMMA NothingStored ==
    /\ Recorded(Fresh, PrepareWorkspace) /\ Mirrors(NoSnapshot, Fresh, PrepareWorkspace, {})
    /\ SameRequest(NoSnapshot, Fresh) /\ Fresh.codegen = "none" /\ ~RepairPending(Fresh)
    /\ NoSnapshot.state = Fresh /\ NoSnapshot.status = "none" /\ Fresh.conf = "none"
BY DEF Recorded, Mirrors, SameRequest, NoSnapshot, Fresh, PrepareWorkspace, RepairPending

\* A restart begins with what was stored, a new job with nothing.
LEMMA RestartsStored ==
    ASSUME RInv, StartJob \/ ResumeJob \/ RetryJob \/ Crash
    PROVE  /\ Stored(saved')
           /\ ctl' = "new" => saved'.status = "none"
           /\ ctl' \notin {"new", "down"} => Live'
<1>1. saved.state \in State /\ Stored(saved)
  BY DEF RInv, IInv, TypeOK, Snapshot
<1>2. CASE StartJob
  <2>1. saved = NoSnapshot /\ saved' = saved /\ state' = Fresh /\ idx' = PrepareWorkspace
        /\ completed' = {} /\ ctl' \in {"loop", "step"}
    BY <1>1, <1>2 DEF StartJob, RInv, Stored
  <2> QED BY <1>1, <2>1, NothingStored DEF Live, Rewritten
<1>3. CASE ResumeJob
  <2> DEFINE R == ResumeState(saved.state, saved.completed)
  <2>1. R = [R EXCEPT !.failed = saved.state.failed] /\ saved.state.failed \in BOOLEAN
    BY <1>1 DEF ResumeState, State
  <2>2. Load(R) /\ ctl' = "idle"
    BY <1>3 DEF ResumeJob
  <2> HIDE DEF R
  <2>3. Load([R EXCEPT !.failed = saved.state.failed])
    BY <2>1, <2>2
  <2> QED BY <2>1, <2>2, <2>3, LoadStored DEF R
<1>4. CASE RetryJob
  BY <1>4, LoadStored DEF RetryJob
<1>5. CASE Crash
  <2>1. ctl' \in {"new", "down"} /\ (ctl' = "new" => saved'.status = "none")
    BY <1>5 DEF Crash
  <2>2. CASE UNCHANGED saved
    BY <1>1, <2>1, <2>2
  <2>3. CASE saved' = [NoSnapshot EXCEPT !.state.job = TRUE, !.status = "running"]
    <3> DEFINE t == [Fresh EXCEPT !.job = TRUE]
    <3>1. saved' = [state |-> t, idx |-> 0, completed |-> {}, status |-> "running"]
      BY <2>3 DEF NoSnapshot
    <3>2. t.job /\ t.conf = "none" /\ ~RepairPending(t) /\ Recorded(t, 0)
      BY DEF Fresh, RepairPending, Recorded
    <3> HIDE DEF t
    <3>3. Stored(saved')
      BY <3>1, <3>2 DEF Stored
    <3> QED BY <2>1, <3>3
  <2> QED BY <1>5, <2>2, <2>3 DEF Crash
<1> QED BY <1>2, <1>3, <1>4, <1>5

LEMMA InitRInv == Init => RInv
BY InitIInv, NothingStored DEF Init, RInv, Stored, PrepareWorkspace, NoSnapshot

LEMMA StepRInv ==
    ASSUME GuardedFrontEnd, RInv, [Next]_vars
    PROVE  RInv'
<1>1. IInv'
  BY StepIInv DEF RInv
<1>2. ASSUME /\ Stored(saved')
             /\ ctl' = "new" => saved'.status = "none"
             /\ ctl' \notin {"new", "down"} => Live'
      PROVE  RInv'
  BY <1>1, <1>2 DEF RInv
<1>3. CASE RunPhase
  BY <1>2, <1>3, PlainPhasesStored, ReviewStored, ModelingStored, CodegenStored, PatchStored,
     RaisesStored DEF RunPhase
<1>4. CASE RouteFailedPatch \/ RouteFailedGate \/ LoopReturns
  BY <1>2, <1>4, RoutingStored
<1>5. CASE Step \/ ApproveRepair \/ RejectRepair \/ AnswerReview \/ RejectReview
  BY <1>2, <1>5, DecisionsStored
<1>6. CASE StartJob \/ ResumeJob \/ RetryJob \/ Crash
  BY <1>2, <1>6, RestartsStored
<1>7. CASE ApproveAfterFailedModeling \/ LegacyConfirmation
  BY <1>7 DEF ApproveAfterFailedModeling, LegacyConfirmation, Unsolicited
<1>8. CASE UNCHANGED vars
  BY <1>1, <1>8 DEF vars, RInv, Live, Rewritten, Stored, Recorded, Mirrors, SameRequest
<1> QED BY <1>3, <1>4, <1>5, <1>6, <1>7, <1>8 DEF Next, Progress, Operation

LEMMA StoreInvariant == GuardedFrontEnd /\ Spec => []RInv
<1> SUFFICES ASSUME GuardedFrontEnd PROVE Spec => []RInv
  OBVIOUS
<1>1. RInv /\ [Next]_vars => RInv'
  BY StepRInv
<1> QED BY <1>1, InitRInv, PTL DEF Spec

-------------------------------------------------------------------------------
\* What the user sees of a job that is in order is what a response would decide.
LEMMA ShownRight ==
    ASSUME NEW s \in State, NEW i \in 0..Finished, NEW c,
           Consistent(s, i, c), Recorded(s, i)
    PROVE  ShownIsDecided(s, i)
<1>1. ReviewPending(s) <=> s.review = "needs_user_input"
  BY DEF ReviewPending, Recorded
<1>2. RepairPending(s) => s.review = "approved" /\ s.modeling = "passed"
  BY DEF Consistent, AgreedFor, Codegen, RequirementsReview, Modeling
<1>3. ReviewPending(s) => s.modeling # "failed" /\ s.codegen # "failed"
  BY DEF Consistent, Recorded, Codegen, RequirementsReview, Modeling
<1>4. s.conf = "pending" => ReviewPending(s)
  BY <1>1 DEF Recorded, State
<1>5. s.conf \notin {"approved", "rejected", "failed"} /\ (s.hc \/ s.conf = "pending")
          => ReviewPending(s)
  BY <1>1 DEF Recorded, State
<1> DEFINE d == Diagnosis(s, i)
<1>6. Submitted(s) # "none" => ReviewShown(s).of = Submitted(s)
  BY <1>1, <1>2, <1>3 DEF Submitted, ReviewShown, ReviewOfRequirements, ReviewOfRepair,
     ModelingFailed
<1>7. Submitted(s) # "none" => d.ui = Submitted(s)
  BY <1>1, <1>2, <1>3 DEF Submitted, Diagnosis, DiagnosedRepair, DiagnosedRequirements,
     ModelingFailed
<1>8. d.actionable <=> NeedsConfirmation(s)
  BY <1>1, <1>2, <1>3 DEF NeedsConfirmation, Diagnosis, DiagnosedRepair,
     DiagnosedRequirements, DiagnosedModeling, DiagnosedCodegen, DiagnosedStatus,
     ModelingFailed
<1>9. ReviewShown(s).actionable => NeedsConfirmation(s)
  BY <1>1, <1>5 DEF NeedsConfirmation, ReviewShown, ReviewOfRequirements, ReviewOfRepair,
     ReviewOfModeling, ReviewOfPlan
<1>10. StatusShown(s, i) = "paused" => NeedsConfirmation(s)
  BY <1>4 DEF StatusShown, NeedsConfirmation
<1>11. "confirmation_pending" \in Reminders(s) <=> NeedsConfirmation(s)
  BY DEF Reminders
<1>12. Submitted(s) # "none" <=> NeedsConfirmation(s)
  BY DEF Submitted, NeedsConfirmation
<1>13. CopilotAnswers(s, i).decide => CopilotAnswers(s, i).confirmation = Submitted(s)
  BY <1>6, <1>12 DEF CopilotAnswers
<1> QED BY <1>6, <1>7, <1>8, <1>9, <1>10, <1>11, <1>13 DEF ShownIsDecided

\* Neither a restart nor a front end loses a decision or invents one, whatever the
\* limits and the failing gates (_persist_phase_state, resume_job, get_status,
\* get_confirmation_review, get_workflow_diagnosis).
THEOREM NoDecisionIsLost == GuardedFrontEnd /\ Spec => []DecisionsSurvive
<1>1. ASSUME RInv PROVE DecisionsSurvive
  <2>1. /\ state \in State /\ idx \in 0..Finished /\ Consistent(state, idx, completed)
        /\ saved.state \in State /\ saved.idx \in 0..Finished
        /\ Consistent(saved.state, saved.idx, saved.completed) /\ Stored(saved)
    BY <1>1 DEF RInv, IInv, TypeOK, Snapshot
  <2>2. AwaitingIsDurable
    <3> SUFFICES ASSUME ctl = "idle", NeedsConfirmation(state)
                 PROVE  /\ saved.status = "paused"
                        /\ saved.idx = idx /\ saved.completed = completed
                        /\ ReviewPending(saved.state) <=> ReviewPending(state)
                        /\ RepairPending(saved.state) <=> RepairPending(state)
      BY DEF AwaitingIsDurable
    <3>1. /\ Mirrors(saved, state, idx, completed) /\ SameRequest(saved, state)
          /\ Recorded(state, idx)
      BY <1>1 DEF RInv, Live
    <3>2. /\ ReviewPending(saved.state) <=> ReviewPending(state)
          /\ RepairPending(saved.state) <=> RepairPending(state)
      BY <3>1 DEF Mirrors, SameRequest, ReviewPending, RepairPending
    <3>3. saved.state.conf = "pending" \/ RepairPending(saved.state)
      BY <3>1, <3>2 DEF NeedsConfirmation, ReviewPending, Recorded, Mirrors
    <3> QED BY <2>1, <3>1, <3>2, <3>3 DEF Stored, Mirrors
  <2>3. PausedMeansAwaiting
    BY <2>1 DEF Stored, PausedMeansAwaiting
  <2>4. ctl = "idle" => ShownIsDecided(state, idx)
    BY <1>1, <2>1, ShownRight DEF RInv, Live
  <2>5. saved.status # "none" => ShownIsDecided(saved.state, saved.idx)
    BY <2>1, ShownRight DEF Stored
  <2> QED BY <2>2, <2>3, <2>4, <2>5 DEF DecisionsSurvive
<1>2. RInv => DecisionsSurvive
  BY <1>1
<1> QED BY <1>2, StoreInvariant, PTL

\* The loop returns only with a finished job, a question, or a failure it names, for all
\* limits (run_until_blocked, _route_after_failed_phase).
THEOREM LoopsExplain == GuardedFrontEnd /\ Spec => LoopReturnExplained
<1> DEFINE Explained == idx = Finished \/ NeedsConfirmation(state) \/ state.failed
<1> SUFFICES ASSUME GuardedFrontEnd PROVE Spec => LoopReturnExplained
  OBVIOUS
<1>1. ASSUME RInv, [Next]_vars, LoopReturn PROVE Explained'
  <2>1. /\ ctl \in {"loop", "routing"} /\ ctl' = "idle" /\ state \in State /\ Live
    BY <1>1 DEF LoopReturn, RInv, IInv, TypeOK
  <2>2. ASSUME NEW p, NEW s \in State, Fail(p, s) PROVE Explained'
    BY <2>2 DEF Fail, State
  <2>a. ASSUME NEW p, NEW s, Running(p), Succeed(p, s) PROVE FALSE
    BY <2>1, <2>a DEF Running, Succeed
  <2>3. CASE RunRequirementsReview
    <3> DEFINE ask == [state EXCEPT !.review = "needs_user_input", !.conf = "pending",
                                    !.hc = TRUE]
    <3>1. state' = ask
      BY <2>a, <2>3 DEF RunRequirementsReview, Pause
    <3>2. ask.review = "needs_user_input" /\ ask.hc
      BY <2>1 DEF State
    <3> QED BY <3>1, <3>2 DEF NeedsConfirmation, ReviewPending
  <2>4. CASE RunModeling
    <3>1. PICK b \in BOOLEAN : Fail(Modeling, [state EXCEPT !.modeling = "failed", !.hc = b])
      BY <2>a, <2>4 DEF RunModeling
    <3>2. [state EXCEPT !.modeling = "failed", !.hc = b] \in State
      BY <2>1 DEF State
    <3> QED BY <2>2, <3>1, <3>2
  <2>5. CASE RunCodegen
    <3>1. PICK raised \in BOOLEAN, status \in {"passed", "failed", "needs_user_input"} :
             LET s == CodegenResult(status, raised) IN
             \/ Fail(Codegen, s)
             \/ RepairPending(s) /\ Pause(s)
      BY <2>a, <2>5 DEF RunCodegen
    <3> DEFINE s == CodegenResult(status, raised)
    <3>2. s \in State
      BY <2>1, CodegenTyped
    <3> HIDE DEF s
    <3>3. Fail(Codegen, s) \/ (RepairPending(s) /\ Pause(s))
      BY <3>1 DEF s
    <3> QED BY <2>2, <3>2, <3>3 DEF Pause, NeedsConfirmation
  <2>6. CASE PhaseRaises
    BY <2>1, <2>2, <2>6 DEF PhaseRaises
  <2>7. CASE RouteFailedPatch \/ RouteFailedGate
    <3>1. StopRouting /\ ctl = "routing"
      BY <2>1, <2>7 DEF RouteFailedPatch, RouteFailedGate, RouteTo
    <3> QED BY <2>1, <3>1 DEF StopRouting, Live
  <2>8. CASE LoopReturns
    BY <2>8 DEF LoopReturns, NeedsConfirmation
  <2>9. CASE RunContext \/ RunTaskPlanning \/ RunArtifact
    <3>1. [state EXCEPT !.artifact = "failed"] \in State
      BY <2>1 DEF State
    <3>2. \/ Fail(Context, state) \/ Fail(TaskPlanning, state)
          \/ Fail(Artifact, [state EXCEPT !.artifact = "failed"])
      BY <2>a, <2>9 DEF RunContext, RunTaskPlanning, RunArtifact
    <3> QED BY <2>1, <2>2, <3>1, <3>2
  <2>10. CASE RunPrepareWorkspace \/ RunReport
    BY <2>a, <2>10 DEF RunPrepareWorkspace, RunReport
  <2>11. CASE PatchReady \/ PatchRejected \/ PatchNotRunnable \/ GatePasses \/ GateFails
    BY <2>1, <2>11 DEF PatchReady, PatchRejected, PatchNotRunnable, GatePasses, GateFails,
       Succeed, Fail, Running
  <2>12. CASE Operation \/ Crash \/ UNCHANGED vars
    BY <1>1, <2>1, <2>12 DEF Operation, Crash, vars, StartJob, Step, ApproveRepair,
       RejectRepair, AnswerReview, RejectReview, ApproveAfterFailedModeling,
       LegacyConfirmation, Unsolicited, ResumeJob, RetryJob
  <2> QED BY <1>1, <2>3, <2>4, <2>5, <2>6, <2>7, <2>8, <2>9, <2>10, <2>11, <2>12
          DEF Next, Progress, RunPhase
<1>2. RInv /\ [Next]_vars => [LoopReturn => Explained']_vars
  BY <1>1
<1>3. LoopReturnExplained <=> [][LoopReturn => Explained']_vars
  BY DEF LoopReturnExplained
<1> HIDE DEF Explained
<1> QED BY <1>2, <1>3, StoreInvariant, PTL DEF Spec

-------------------------------------------------------------------------------
(* The stored job implements the contract.  As memory and store agree, a stored step *)
(* is a step of the job in memory.                                                   *)

\* The moves of a stored job that the contract allows.
Moves(i, j, wasAgreed, isAgreed, wasValid, isValid) ==
    \/ i <= RequirementsReview /\ j <= RequirementsReview
    \/ i = RequirementsReview /\ j = Modeling /\ isAgreed
    \/ /\ isAgreed = wasAgreed
       /\ \/ i = j /\ i \in Modeling..Gate
          \/ <<i, j>> \in {<<Modeling, Codegen>>, <<Codegen, Patch>>, <<Patch, Codegen>>,
                           <<Patch, Gate>>}
          \/ i = Gate /\ j \in 0..Patch
          \/ i = Gate /\ j = Artifact
          \/ i > Gate /\ j \in {i, i + 1} /\ isValid = wasValid

LEMMA MovesFulfil ==
    ASSUME NEW i \in 0..Finished, NEW j \in 0..Finished,
           saved.idx = i, saved'.idx = j,
           Moves(i, j, saved.state.review = "approved", saved'.state.review = "approved",
                 saved.state.validation = "passed", saved'.state.validation = "passed")
    PROVE  [Contract!Next]_(Contract!job)
<1> DEFINE wasAgreed == saved.state.review = "approved"
           isAgreed == saved'.state.review = "approved"
           wasValid == saved.state.validation = "passed"
           isValid == saved'.state.validation = "passed"
<1> USE DEF PrepareWorkspace, RequirementsReview, Modeling, Codegen, Patch, Gate, Artifact,
            Report, Finished
<1>1. CASE i <= RequirementsReview /\ j <= RequirementsReview
  BY <1>1 DEF Contract!Next, Contract!Discuss
<1>2. CASE i = RequirementsReview /\ j = Modeling /\ isAgreed
  BY <1>2 DEF Contract!Next, Contract!Agree
<1>3. CASE isAgreed = wasAgreed /\ i = j /\ i \in Modeling..Gate
  BY <1>3 DEF Contract!job
<1>4. CASE /\ isAgreed = wasAgreed
           /\ <<i, j>> \in {<<Modeling, Codegen>>, <<Codegen, Patch>>, <<Patch, Codegen>>,
                            <<Patch, Gate>>}
  <2>1. CASE i = Modeling /\ j = Codegen
    BY <1>4, <2>1 DEF Contract!Next, Contract!Advance
  <2>2. CASE i \in {Codegen, Patch} /\ j \in {Codegen, Patch}
    BY <1>4, <2>2 DEF Contract!job
  <2>3. CASE i = Patch /\ j = Gate
    BY <1>4, <2>3 DEF Contract!Next, Contract!Advance
  <2> QED BY <1>4, <2>1, <2>2, <2>3
<1>5. CASE isAgreed = wasAgreed /\ i = Gate /\ j \in 0..Patch
  BY <1>5 DEF Contract!Next, Contract!Rework
<1>6. CASE isAgreed = wasAgreed /\ i = Gate /\ j = Artifact
  <2>1. CASE isValid
    BY <1>6, <2>1 DEF Contract!Next, Contract!Validate
  <2>2. CASE ~isValid
    BY <1>6, <2>2 DEF Contract!Next, Contract!GiveUp
  <2> QED BY <2>1, <2>2
<1>7. CASE isAgreed = wasAgreed /\ i > Gate /\ j \in {i, i + 1} /\ isValid = wasValid
  <2>1. CASE (i \in {Artifact, Report} /\ j \in {Artifact, Report}) \/ i = j
    BY <1>7, <2>1 DEF Contract!job
  <2>2. CASE i = Report /\ j = Finished
    BY <1>7, <2>2 DEF Contract!Next, Contract!Advance
  <2> QED BY <1>7, <2>1, <2>2
<1> QED BY <1>1, <1>2, <1>3, <1>4, <1>5, <1>6, <1>7 DEF Moves

\* Every phase ends in one of three ways with a job it has left typed; only the review
\* changes the agreement, and only the gates the validation.
LEMMA PhaseShape ==
    ASSUME state \in State, RunPhase
    PROVE  \E p \in Phases, s \in State :
               /\ Running(p)
               /\ Succeed(p, s) \/ Fail(p, s) \/ Pause(s)
               /\ p # RequirementsReview => s.review = state.review
               /\ p # Gate => s.validation = state.validation
<1>1. state \in State
  OBVIOUS
<1>2. ASSUME NEW p \in Phases, NEW s \in State, Running(p),
             Succeed(p, s) \/ Fail(p, s) \/ Pause(s),
             p # RequirementsReview => s.review = state.review,
             p # Gate => s.validation = state.validation
      PROVE  \E q \in Phases, t \in State :
               /\ Running(q)
               /\ Succeed(q, t) \/ Fail(q, t) \/ Pause(t)
               /\ q # RequirementsReview => t.review = state.review
               /\ q # Gate => t.validation = state.validation
  BY <1>2
<1>3. CASE RunPrepareWorkspace
  <2>1. /\ [state EXCEPT !.job = TRUE, !.retry = 0] \in State
        /\ [state EXCEPT !.job = TRUE, !.retry = 0].review = state.review
        /\ [state EXCEPT !.job = TRUE, !.retry = 0].validation = state.validation
    BY <1>1 DEF State
  <2> QED BY <1>2, <1>3, <2>1, PhaseNumbers DEF RunPrepareWorkspace
<1>4. CASE RunContext \/ RunTaskPlanning
  <2>1. /\ [state EXCEPT !.failed = FALSE] \in State
        /\ [state EXCEPT !.failed = FALSE].review = state.review
        /\ [state EXCEPT !.failed = FALSE].validation = state.validation
    BY <1>1 DEF State
  <2> QED BY <1>1, <1>2, <1>4, <2>1, PhaseNumbers DEF RunContext, RunTaskPlanning
<1>5. CASE RunRequirementsReview
  <2> DEFINE ok == [state EXCEPT !.review = "approved", !.conf = "approved", !.hc = FALSE]
             ask == [state EXCEPT !.review = "needs_user_input", !.conf = "pending",
                                  !.hc = TRUE]
  <2>1. ok \in State /\ ask \in State
    <3>1. [[[state EXCEPT !.review = "approved"] EXCEPT !.conf = "approved"]
              EXCEPT !.hc = FALSE] \in State
      BY <1>1, FieldTypes
    <3>2. [[[state EXCEPT !.review = "needs_user_input"] EXCEPT !.conf = "pending"]
              EXCEPT !.hc = TRUE] \in State
      BY <1>1, FieldTypes
    <3> QED BY <3>1, <3>2
  <2>2. ok.validation = state.validation /\ ask.validation = state.validation
    BY <1>1 DEF State
  <2>3. /\ Running(RequirementsReview)
        /\ Succeed(RequirementsReview, ok) \/ Pause(ask)
    BY <1>5 DEF RunRequirementsReview
  <2> HIDE DEF ok, ask
  <2> QED BY <1>2, <2>1, <2>2, <2>3, PhaseNumbers
<1>6. CASE RunModeling
  <2> DEFINE s(v, b) == [state EXCEPT !.modeling = v, !.hc = b]
  <2>1. ASSUME NEW v \in {"passed", "failed"}, NEW b \in BOOLEAN
        PROVE  /\ s(v, b) \in State /\ s(v, b).review = state.review
               /\ s(v, b).validation = state.validation
    BY <1>1 DEF State
  <2>2. /\ Running(Modeling)
        /\ \E b \in BOOLEAN :
              Succeed(Modeling, s("passed", b)) \/ Fail(Modeling, s("failed", b))
    BY <1>6 DEF RunModeling
  <2> HIDE DEF s
  <2> QED BY <1>2, <2>1, <2>2, PhaseNumbers
<1>7. CASE RunCodegen
  <2>1. PICK raised \in BOOLEAN, status \in {"passed", "failed", "needs_user_input"} :
           LET s == CodegenResult(status, raised) IN
           Succeed(Codegen, s) \/ Fail(Codegen, s) \/ Pause(s)
    BY <1>7 DEF RunCodegen
  <2> DEFINE s == CodegenResult(status, raised)
  <2>2. s \in State /\ s.review = state.review /\ s.validation = state.validation
    BY <1>1, CodegenTyped
  <2> HIDE DEF s
  <2>3. Running(Codegen) /\ (Succeed(Codegen, s) \/ Fail(Codegen, s) \/ Pause(s))
    BY <1>7, <2>1 DEF RunCodegen, s
  <2> QED BY <1>2, <2>2, <2>3, PhaseNumbers
<1>8. CASE PatchReady \/ PatchRejected \/ PatchNotRunnable
  <2> DEFINE ready == [state EXCEPT !.patch = "applied", !.visual = "ready"]
             rejected == [state EXCEPT !.patch = "failed", !.codegen = "failed",
                                       !.patchRetry = @ + 1]
             broken == [state EXCEPT !.patch = "failed", !.visual = "failed"]
             Same(s) == /\ s \in State /\ s.review = state.review
                        /\ s.validation = state.validation
  <2>1. Same(ready) /\ Same(broken)
    <3>1. Same(ready)
      BY <1>1 DEF State
    <3>2. Same(broken)
      BY <1>1 DEF State
    <3> QED BY <3>1, <3>2
  <2>2. Same(rejected)
    <3>1. state.patchRetry + 1 \in Nat
      BY <1>1 DEF State
    <3>2. [[[state EXCEPT !.patch = "failed"] EXCEPT !.codegen = "failed"]
              EXCEPT !.patchRetry = state.patchRetry + 1] \in State
      BY <1>1, <3>1, FieldTypes
    <3>3. rejected \in State
      BY <3>2
    <3> QED BY <1>1, <3>3 DEF State
  <2>3. /\ Running(Patch)
        /\ Succeed(Patch, ready) \/ Fail(Patch, rejected) \/ Fail(Patch, broken)
    BY <1>8 DEF PatchReady, PatchRejected, PatchNotRunnable
  <2> HIDE DEF ready, rejected, broken
  <2> QED BY <1>2, <2>1, <2>2, <2>3, PhaseNumbers
<1>9. CASE GatePasses \/ GateFails
  <2> DEFINE ok == [state EXCEPT !.validation = "passed", !.gate = NoGate]
             bad(g) == [state EXCEPT !.validation = "failed", !.gate = g, !.retry = @ + 1]
  <2>1. Running(Gate) /\ (Succeed(Gate, ok) \/ \E g \in FailingGates : Fail(Gate, bad(g)))
    BY <1>9 DEF GatePasses, GateFails
  <2>2. ok \in State /\ ok.review = state.review
    BY <1>1 DEF State, NoGate
  <2>3. ASSUME NEW g \in FailingGates PROVE bad(g) \in State /\ bad(g).review = state.review
    <3>1. state.retry + 1 \in Nat /\ g \in 0..20 \cup {NoGate}
      BY <1>1, LimitsAssumption DEF State
    <3>2. [[[state EXCEPT !.validation = "failed"] EXCEPT !.gate = g]
              EXCEPT !.retry = state.retry + 1] \in State
      BY <1>1, <3>1, FieldTypes
    <3>3. bad(g) \in State
      BY <3>2
    <3> QED BY <1>1, <3>3 DEF State
  <2> HIDE DEF ok, bad
  <2> QED BY <1>2, <2>1, <2>2, <2>3, PhaseNumbers
<1>10. CASE RunArtifact \/ RunReport
  <2> DEFINE s(v) == [state EXCEPT !.artifact = v]
             r == [state EXCEPT !.failed = (state.validation # "passed")]
  <2>1. ASSUME NEW v \in {"collected", "failed"}
        PROVE  s(v) \in State /\ s(v).review = state.review
               /\ s(v).validation = state.validation
    BY <1>1 DEF State
  <2>2. r \in State /\ r.review = state.review /\ r.validation = state.validation
    BY <1>1 DEF State
  <2>3. \/ /\ Running(Artifact)
           /\ Succeed(Artifact, s("collected")) \/ Fail(Artifact, s("failed"))
        \/ Running(Report) /\ Succeed(Report, r)
    BY <1>10 DEF RunArtifact, RunReport
  <2> HIDE DEF s, r
  <2>4. /\ s("collected") \in State /\ s("collected").review = state.review
        /\ s("collected").validation = state.validation
        /\ s("failed") \in State /\ s("failed").review = state.review
        /\ s("failed").validation = state.validation
    BY <2>1
  <2> QED BY <1>2, <2>2, <2>3, <2>4, PhaseNumbers
<1>11. CASE PhaseRaises
  BY <1>1, <1>2, <1>11 DEF PhaseRaises
<1> QED BY <1>3, <1>4, <1>5, <1>6, <1>7, <1>8, <1>9, <1>10, <1>11 DEF RunPhase

\* How far a phase moves the job, and what it leaves as it was.
LEMMA PhaseMoves ==
    ASSUME RInv, RunPhase
    PROVE  /\ idx \in Phases /\ idx' \in {idx, idx + 1}
           /\ idx # RequirementsReview => state'.review = state.review
           /\ idx # Gate => state'.validation = state.validation
           /\ ctl \notin {"new", "down"} /\ ctl' \notin {"new", "down"}
<1>1. state \in State
  BY DEF RInv, IInv, TypeOK
<1>2. PICK p \in Phases, s \in State :
         /\ Running(p)
         /\ Succeed(p, s) \/ Fail(p, s) \/ Pause(s)
         /\ p # RequirementsReview => s.review = state.review
         /\ p # Gate => s.validation = state.validation
  BY <1>1, PhaseShape
<1> QED BY <1>2 DEF Running, Succeed, Fail, Pause, State

\* The same for routing, and for a user's decisions.
LEMMA OtherMoves ==
    ASSUME RInv,
           \/ RouteFailedPatch \/ RouteFailedGate
           \/ ApproveRepair \/ RejectRepair \/ AnswerReview \/ RejectReview
    PROVE  /\ state'.validation = state.validation
           /\ \/ idx = RequirementsReview /\ idx' = idx
              \/ /\ state'.review = state.review
                 /\ \/ idx' = idx
                    \/ idx = Patch /\ idx' = Codegen
                    \/ idx = Gate /\ idx' \in (0..Patch) \cup {Artifact}
<1>1. state \in State /\ Consistent(state, idx, completed)
  BY DEF RInv, IInv, TypeOK
<1>2. CASE RouteFailedPatch
  BY <1>1, <1>2 DEF RouteFailedPatch, RouteTo, StopRouting, State
<1>3. CASE RouteFailedGate
  <2>1. GateRoute(state) \in {Context, TaskPlanning, RequirementsReview, Modeling, Codegen,
                             Patch, Artifact, Report}
    BY DEF GateRoute, GateRetryTarget
  <2>2. /\ idx = Gate
        /\ \/ StopRouting
           \/ GateRoute(state) # Report /\ RouteTo(GateRoute(state), [state EXCEPT !.failed = FALSE])
    BY <1>3 DEF RouteFailedGate
  <2>3. \/ state' = state /\ idx' = idx
        \/ state' = [state EXCEPT !.failed = FALSE] /\ idx' \in (0..Patch) \cup {Artifact}
    BY <2>1, <2>2 DEF RouteTo, StopRouting, Context, TaskPlanning, RequirementsReview,
       Modeling, Codegen, Patch
  <2> QED BY <1>1, <2>2, <2>3 DEF State
<1>4. CASE ApproveRepair
  BY <1>1, <1>4 DEF ApproveRepair, Consistent, State
<1>5. CASE RejectRepair
  BY <1>1, <1>5 DEF RejectRepair, State
<1>6. CASE AnswerReview
  BY <1>1, <1>6 DEF AnswerReview, Consistent, State
<1>7. CASE RejectReview
  BY <1>1, <1>7 DEF RejectReview, Consistent, State
<1> QED BY <1>2, <1>3, <1>4, <1>5, <1>6, <1>7

LEMMA StepFulfils ==
    ASSUME GuardedFrontEnd, RInv, [Next]_vars
    PROVE  [Contract!Next]_(Contract!job)
<1>1. RInv'
  BY StepRInv
<1>2. /\ idx \in 0..Finished /\ idx' \in 0..Finished
      /\ saved.idx \in 0..Finished /\ saved'.idx \in 0..Finished
      /\ AgreedFor(state', idx')
  BY <1>1 DEF RInv, IInv, TypeOK, Snapshot, Consistent
<1> DEFINE Like(t, s, i) == /\ t.idx = i /\ t.state.review = s.review
                            /\ t.state.validation = s.validation
<1>3. ctl \notin {"new", "down"} => Like(saved, state, idx)
  BY DEF RInv, Live, Mirrors
<1>4. ctl' \notin {"new", "down"} => Like(saved', state', idx')
  BY <1>1 DEF RInv, Live, Mirrors
<1>5. ASSUME ctl \notin {"new", "down"}, ctl' \notin {"new", "down"},
             Moves(idx, idx', state.review = "approved", state'.review = "approved",
                   state.validation = "passed", state'.validation = "passed")
      PROVE  [Contract!Next]_(Contract!job)
  BY <1>2, <1>3, <1>4, <1>5, MovesFulfil
<1>6. CASE UNCHANGED saved
  BY <1>6 DEF Contract!job
<1>7. CASE RunPhase
  <2>1. ctl \notin {"new", "down"} /\ ctl' \notin {"new", "down"}
    BY <1>7, PhaseMoves
  <2>2. Moves(idx, idx', state.review = "approved", state'.review = "approved",
              state.validation = "passed", state'.validation = "passed")
    BY <1>2, <1>7, PhaseMoves DEF Moves, AgreedFor, Phases, PrepareWorkspace,
       RequirementsReview, Modeling, Codegen, Patch, Gate, Artifact, Report, Finished
  <2> QED BY <1>5, <2>1, <2>2
<1>8. CASE \/ RouteFailedPatch \/ RouteFailedGate
           \/ ApproveRepair \/ RejectRepair \/ AnswerReview \/ RejectReview
  <2>1. ctl \notin {"new", "down"} /\ ctl' \notin {"new", "down"}
    BY <1>8 DEF RouteFailedPatch, RouteFailedGate, RouteTo, StopRouting, ApproveRepair,
       RejectRepair, AnswerReview, RejectReview
  <2>2. Moves(idx, idx', state.review = "approved", state'.review = "approved",
              state.validation = "passed", state'.validation = "passed")
    BY <1>2, <1>8, OtherMoves DEF Moves, PrepareWorkspace, RequirementsReview, Modeling,
       Codegen, Patch, Gate, Artifact, Report, Finished
  <2> QED BY <1>5, <2>1, <2>2
<1>9. CASE LoopReturns \/ StartJob \/ Step \/ ResumeJob \/ RetryJob
  BY <1>6, <1>9 DEF LoopReturns, StartJob, Step, ResumeJob, RetryJob, Load
<1>10. CASE Crash
  <2>1. CASE saved.status = "none"
             /\ saved' = [NoSnapshot EXCEPT !.state.job = TRUE, !.status = "running"]
    <3>1. saved = NoSnapshot
      BY <2>1 DEF RInv, Stored
    <3>2. /\ saved'.idx = 0 /\ saved.idx = 0
          /\ saved'.state.review = "none" /\ saved.state.review = "none"
      BY <2>1, <3>1 DEF NoSnapshot, Fresh
    <3> QED BY <3>2 DEF Contract!job, PrepareWorkspace, RequirementsReview, Gate
  <2> QED BY <1>6, <1>10, <2>1 DEF Crash
<1>11. CASE ApproveAfterFailedModeling \/ LegacyConfirmation
  BY <1>11 DEF ApproveAfterFailedModeling, LegacyConfirmation, Unsolicited
<1>12. CASE UNCHANGED vars
  BY <1>6, <1>12 DEF vars
<1> QED BY <1>7, <1>8, <1>9, <1>10, <1>11, <1>12 DEF Next, Progress, Operation

\* The stored job implements the contract of module JobContract for all limits and failing
\* gates: crashes, resumes, retries and re-routings included, it is never built without an
\* agreement, nor counts as validated but by passing the gates after its last change.
THEOREM StoredFulfilsContract == GuardedFrontEnd /\ Spec => FulfilsContract
<1> SUFFICES ASSUME GuardedFrontEnd PROVE Spec => FulfilsContract
  OBVIOUS
<1>1. Init => Contract!Init
  <2> SUFFICES ASSUME Init PROVE Contract!Init
    OBVIOUS
  <2>1. saved.idx = 0 /\ saved.state.review = "none"
    BY DEF Init, NoSnapshot, Fresh
  <2> QED BY <2>1 DEF Contract!Init, PrepareWorkspace, RequirementsReview, Modeling, Codegen,
          Patch, Gate, Artifact, Report, Finished
<1>2. RInv /\ [Next]_vars => [Contract!Next]_(Contract!job)
  BY StepFulfils
<1> QED BY <1>1, <1>2, StoreInvariant, PTL DEF Spec, FulfilsContract, Contract!Spec

-------------------------------------------------------------------------------
(* Every front end in turn, guarded or not: the REPL, the TUI, the web server.  Nothing *)
(* of the above is assumed here; a REPL that goes on after a failed phase leaves the    *)
(* prefix, the agreement and the validation of the job open.                            *)

\* The store has the counters, what is completed, and the place a resume comes to.
Agrees(sv, s, i, c) ==
    /\ sv.state.retry = s.retry
    /\ sv.state.patchRetry = s.patchRetry
    /\ sv.completed = c
    /\ ResumeIdx(sv.idx, sv.completed) = ResumeIdx(i, c)

\* Where a front end may let the job rest with nothing stored in between.  The loop may
\* return from the review, or from the end, without a phase; the REPL's phase may raise.
MayRest(control, i) ==
    \/ control \in {"idle", "routing", "repl rest", "repl step", "repl auto"}
    \/ control = "loop" /\ i \in {RequirementsReview, Finished}

SurvivalInv ==
    /\ state \in State
    /\ idx \in 0..Finished
    /\ completed \in SUBSET Phases
    /\ saved \in Snapshot
    /\ MayRest(ctl, idx) /\ state.job /\ saved.status # "none"
           => Agrees(saved, state, idx, completed)

\* What is completed has a last phase, so there is a place to resume at.
LEMMA ResumePlace ==
    ASSUME NEW i \in 0..Finished, NEW c \in SUBSET Phases
    PROVE  /\ ResumeIdx(i, c) \in 0..Finished
           /\ ResumeIdx(i, c) >= i
           /\ \A p \in c : ResumeIdx(i, c) > p
           /\ ResumeIdx(i, c) = i \/ ResumeIdx(i, c) - 1 \in c
<1> DEFINE Place(n) == /\ n >= i
                       /\ \A p \in c : n > p
                       /\ n = i \/ n - 1 \in c
<1>1. c \subseteq 0..9 /\ Finished = 10
  BY DEF Phases, PrepareWorkspace, Report, Finished
<1>2. ASSUME ~(\A p \in c : i > p)
      PROVE  \E m \in c : m >= i /\ \A p \in c : p <= m
  <2>1. PICK q \in c : q >= i
    BY <1>1, <1>2
  <2> DEFINE Top(m) == m \in c /\ \A p \in c : p <= m
  <2>2. \/ Top(0) \/ Top(1) \/ Top(2) \/ Top(3) \/ Top(4)
        \/ Top(5) \/ Top(6) \/ Top(7) \/ Top(8) \/ Top(9)
    BY <1>1, <2>1
  <2>3. PICK m \in 0..9 : Top(m)
    BY <2>2
  <2> QED BY <1>1, <2>1, <2>3
<1>3. \E n \in 0..Finished : Place(n)
  <2>1. CASE ~(\A p \in c : i > p)
    <3>1. PICK m \in c : m >= i /\ \A p \in c : p <= m
      BY <1>2, <2>1
    <3>2. m + 1 \in 0..Finished /\ Place(m + 1)
      BY <1>1, <3>1
    <3> QED BY <3>2
  <2>2. CASE \A p \in c : i > p
    BY <1>1, <2>2
  <2> QED BY <2>1, <2>2
<1>4. ResumeIdx(i, c) = CHOOSE n \in 0..Finished : Place(n)
  BY DEF ResumeIdx
<1>5. ResumeIdx(i, c) \in 0..Finished /\ Place(ResumeIdx(i, c))
  <2> HIDE DEF Place
  <2> QED BY <1>3, <1>4
<1> QED BY <1>5

\* A job resumed twice is where it was resumed once.
LEMMA ResumedOnce ==
    ASSUME NEW i \in 0..Finished, NEW c \in SUBSET Phases
    PROVE  /\ ResumeIdx(i, c) \in 0..Finished
           /\ ResumeIdx(ResumeIdx(i, c), c) = ResumeIdx(i, c)
<1> DEFINE n == ResumeIdx(i, c)
           m == ResumeIdx(n, c)
<1>1. /\ n \in 0..Finished
      /\ \A p \in c : n > p
  BY ResumePlace
<1> HIDE DEF n
<1>2. /\ m \in 0..Finished /\ m >= n
      /\ m = n \/ m - 1 \in c
  BY <1>1, ResumePlace
<1>3. m = n
  <2> HIDE DEF m
  <2> QED BY <1>1, <1>2 DEF Phases, PrepareWorkspace, Report, Finished
<1> QED BY <1>1, <1>3 DEF n

-------------------------------------------------------------------------------
\* Whatever is persisted is what the job is; a job that has no id yet is not persisted.
LEMMA StoredSurvives ==
    ASSUME saved \in Snapshot,
           NEW s \in State, NEW i \in 0..Finished, NEW c \in SUBSET Phases,
           NEW status \in {"none", "running", "paused", "failed", "completed"},
           state' = s, idx' = i, completed' = c,
           saved' = IF s.job THEN [state |-> s, idx |-> i, completed |-> c, status |-> status]
                    ELSE saved
    PROVE  SurvivalInv'
<1>1. CASE s.job
  <2>1. saved' = [state |-> s, idx |-> i, completed |-> c, status |-> status]
    BY <1>1
  <2>2. saved' \in Snapshot
    BY <2>1 DEF Snapshot
  <2>3. Agrees(saved', s, i, c)
    BY <2>1 DEF Agrees
  <2> QED BY <2>2, <2>3 DEF SurvivalInv
<1>2. CASE ~s.job
  BY <1>2 DEF SurvivalInv
<1> QED BY <1>1, <1>2

LEMMA PersistSurvives ==
    ASSUME saved \in Snapshot,
           NEW s \in State, NEW i \in 0..Finished, NEW c \in SUBSET Phases,
           NEW asked \in {"running", "paused", "failed", "completed"},
           state' = s, idx' = i, completed' = c, Persist(s, i, c, asked)
    PROVE  SurvivalInv'
<1>1. PersistedStatus(s, asked) \in {"none", "running", "paused", "failed", "completed"}
  BY DEF PersistedStatus
<1> QED BY <1>1, StoredSurvives DEF Persist

LEMMA ReplPersistSurvives ==
    ASSUME saved \in Snapshot,
           NEW s \in State, NEW i \in 0..Finished, NEW c \in SUBSET Phases,
           NEW asked \in {"running", "paused", "failed", "completed"},
           state' = s, idx' = i, completed' = c, ReplPersist(s, i, c, asked)
    PROVE  SurvivalInv'
<1> DEFINE status == IF s.conf = "pending" THEN "paused" ELSE asked
<1>1. status \in {"none", "running", "paused", "failed", "completed"}
  OBVIOUS
<1>2. saved' = IF s.job THEN [state |-> s, idx |-> i, completed |-> c, status |-> status]
               ELSE saved
  BY DEF ReplPersist
<1> HIDE DEF status
<1> QED BY <1>1, <1>2, StoredSurvives

\* Each way a phase of the service ends is stored.
LEMMA PhaseSurvives ==
    ASSUME SurvivalInv, RunPhase
    PROVE  SurvivalInv'
<1>1. PICK p \in Phases, s \in State :
         Running(p) /\ (Succeed(p, s) \/ Fail(p, s) \/ Pause(s))
  BY PhaseShape DEF SurvivalInv
<1>2. CASE Succeed(p, s)
  <2> DEFINE c == completed \cup {p}
             asked == IF p = Report THEN "completed" ELSE "running"
  <2>1. p + 1 \in 0..Finished /\ c \in SUBSET Phases
    BY DEF SurvivalInv, Phases, PrepareWorkspace, Report, Finished
  <2>2. asked \in {"running", "paused", "failed", "completed"}
    OBVIOUS
  <2>3. /\ state' = s /\ idx' = p + 1 /\ completed' = c
        /\ Persist(s, p + 1, c, asked)
    BY <1>2 DEF Succeed
  <2> HIDE DEF c, asked
  <2> QED BY <2>1, <2>2, <2>3, PersistSurvives DEF SurvivalInv
<1>3. CASE Fail(p, s)
  <2> DEFINE t == [s EXCEPT !.failed = TRUE]
  <2>1. t \in State
    BY FieldTypes
  <2>2. state' = t /\ idx' = idx /\ completed' = completed /\ Persist(t, idx, completed, "failed")
    BY <1>3 DEF Fail
  <2> HIDE DEF t
  <2> QED BY <2>1, <2>2, PersistSurvives DEF SurvivalInv
<1>4. CASE Pause(s)
  <2>1. state' = s /\ idx' = idx /\ completed' = completed /\ Persist(s, idx, completed, "paused")
    BY <1>4 DEF Pause
  <2> QED BY <2>1, PersistSurvives DEF SurvivalInv
<1> QED BY <1>1, <1>2, <1>3, <1>4

\* Routing stores what it leads back to, or leaves the job where its failure was stored.
LEMMA RoutingSurvives ==
    ASSUME SurvivalInv, RouteFailedPatch \/ RouteFailedGate \/ LoopReturns
    PROVE  SurvivalInv'
<1>1. state \in State /\ saved \in Snapshot
  BY DEF SurvivalInv
<1>2. ASSUME NEW p \in 0..Finished, NEW s \in State, RouteTo(p, s)
      PROVE  SurvivalInv'
  <2> DEFINE c == {q \in completed : q < p}
  <2>1. c \in SUBSET Phases
    BY DEF SurvivalInv
  <2>2. state' = s /\ idx' = p /\ completed' = c /\ Persist(s, p, c, "running")
    BY <1>2 DEF RouteTo
  <2> HIDE DEF c
  <2> QED BY <1>1, <2>1, <2>2, PersistSurvives
<1>3. ASSUME StopRouting, ctl = "routing" PROVE SurvivalInv'
  BY <1>3 DEF StopRouting, SurvivalInv, MayRest
<1>4. CASE RouteFailedPatch
  <2>1. [[state EXCEPT !.failed = FALSE] EXCEPT !.codegen = "failed"] \in State
    BY <1>1, FieldTypes
  <2>2. Codegen \in 0..Finished
    BY DEF Codegen, Finished, Report
  <2> QED BY <1>2, <1>3, <1>4, <2>1, <2>2 DEF RouteFailedPatch
<1>5. CASE RouteFailedGate
  <2>1. [state EXCEPT !.failed = FALSE] \in State
    BY <1>1, FieldTypes
  <2>2. GateRoute(state) \in 0..Finished
    BY DEF GateRoute, GateRetryTarget, Context, TaskPlanning, RequirementsReview, Modeling,
           Codegen, Patch, Artifact, Report, Finished
  <2> QED BY <1>2, <1>3, <1>5, <2>1, <2>2 DEF RouteFailedGate
<1>6. CASE LoopReturns
  BY <1>6 DEF LoopReturns, SurvivalInv, MayRest
<1> QED BY <1>4, <1>5, <1>6

\* What a user decides is stored, or has the job run on; approving a repair takes
\* the code's phase out of what is completed, and puts the job at it.
LEMMA DecidedSurvives ==
    ASSUME SurvivalInv,
           \/ Step \/ ApproveRepair \/ RejectRepair \/ AnswerReview \/ RejectReview
           \/ ApproveAfterFailedModeling \/ LegacyConfirmation
    PROVE  SurvivalInv'
<1>1. /\ state \in State /\ saved \in Snapshot
      /\ idx \in 0..Finished /\ completed \in SUBSET Phases
  BY DEF SurvivalInv
<1>2. /\ RequirementsReview \in 0..Finished /\ Codegen \in 0..Finished
      /\ Codegen \notin {RequirementsReview, Finished}
  BY DEF RequirementsReview, Codegen, Finished, Report
<1>3. CASE Step
  BY <1>3 DEF Step, SurvivalInv, MayRest
<1>4. CASE ApproveRepair
  <2>1. [[[[state EXCEPT !.answer = "approved"] EXCEPT !.request = "approved"]
             EXCEPT !.codegen = "none"] EXCEPT !.failed = FALSE] \in State
    BY <1>1, FieldTypes
  <2>2. state' \in State /\ completed' \in SUBSET Phases /\ idx' = Codegen /\ ctl' = "loop"
    BY <1>1, <1>4, <2>1 DEF ApproveRepair
  <2>3. ~MayRest(ctl', idx')
    BY <1>2, <2>2 DEF MayRest
  <2> QED BY <1>1, <1>2, <1>4, <2>2, <2>3 DEF ApproveRepair, SurvivalInv
<1>5. CASE RejectRepair
  <2> DEFINE s == [state EXCEPT !.answer = "rejected", !.failed = TRUE]
  <2>1. [[state EXCEPT !.answer = "rejected"] EXCEPT !.failed = TRUE] \in State
    BY <1>1, FieldTypes
  <2>2. /\ state' = s /\ idx' = idx /\ completed' = completed
        /\ Persist(s, idx, completed, "failed")
    BY <1>5 DEF RejectRepair
  <2>3. s \in State
    BY <2>1
  <2> HIDE DEF s
  <2> QED BY <1>1, <2>2, <2>3, PersistSurvives
<1>6. CASE AnswerReview
  <2>1. [[[[state EXCEPT !.review = "needs_user_input"] EXCEPT !.conf = "pending"]
             EXCEPT !.hc = TRUE] EXCEPT !.failed = FALSE] \in State
    BY <1>1, FieldTypes
  <2>2. state' \in State /\ idx' = RequirementsReview /\ ctl' = "supplement"
    BY <1>6, <2>1 DEF AnswerReview
  <2> QED BY <1>1, <1>2, <1>6, <2>2 DEF AnswerReview, SurvivalInv, MayRest
<1>7. CASE RejectReview
  <2> DEFINE s == [state EXCEPT !.review = "rejected", !.conf = "rejected",
                                !.hc = FALSE, !.failed = TRUE]
  <2>1. [[[[state EXCEPT !.review = "rejected"] EXCEPT !.conf = "rejected"]
             EXCEPT !.hc = FALSE] EXCEPT !.failed = TRUE] \in State
    BY <1>1, FieldTypes
  <2>2. /\ state' = s /\ idx' = idx /\ completed' = completed
        /\ Persist(s, idx, completed, "failed")
    BY <1>7 DEF RejectReview
  <2>3. s \in State
    BY <2>1
  <2> HIDE DEF s
  <2> QED BY <1>1, <2>2, <2>3, PersistSurvives
<1>8. [state EXCEPT !.failed = TRUE] \in State
  BY <1>1, FieldTypes
<1>9. CASE ApproveAfterFailedModeling
  <2> DEFINE s == [state EXCEPT !.failed = TRUE]
  <2>1. /\ state' = s /\ idx' = RequirementsReview /\ completed' = completed
        /\ Persist(s, RequirementsReview, completed, "failed")
    BY <1>9 DEF ApproveAfterFailedModeling
  <2> HIDE DEF s
  <2> QED BY <1>1, <1>2, <1>8, <2>1, PersistSurvives DEF s
<1>10. CASE LegacyConfirmation
  <2>1. CASE \E conf \in {"approved", "pending", "rejected", "failed"}, required \in BOOLEAN :
               LET s == [state EXCEPT !.conf = conf, !.hc = required] IN
               /\ state' = s /\ idx' = Codegen /\ completed' = completed
               /\ Persist(s, Codegen, completed, "running")
    <3>1. PICK conf \in {"approved", "pending", "rejected", "failed"}, required \in BOOLEAN :
             LET s == [state EXCEPT !.conf = conf, !.hc = required] IN
             /\ state' = s /\ idx' = Codegen /\ completed' = completed
             /\ Persist(s, Codegen, completed, "running")
      BY <2>1
    <3> DEFINE s == [state EXCEPT !.conf = conf, !.hc = required]
    <3>2. [[state EXCEPT !.conf = conf] EXCEPT !.hc = required] \in State
      BY <1>1, FieldTypes
    <3>3. s \in State
      BY <3>2
    <3>4. /\ state' = s /\ idx' = Codegen /\ completed' = completed
          /\ Persist(s, Codegen, completed, "running")
      BY <3>1
    <3> HIDE DEF s
    <3> QED BY <1>1, <1>2, <3>3, <3>4, PersistSurvives
  <2>2. CASE LET s == [state EXCEPT !.failed = TRUE] IN
             /\ state' = s /\ idx' = idx /\ completed' = completed
             /\ Persist(s, idx, completed, "failed")
    BY <1>1, <1>8, <2>2, PersistSurvives
  <2> QED BY <1>10, <2>1, <2>2 DEF LegacyConfirmation
<1> QED BY <1>3, <1>4, <1>5, <1>6, <1>7, <1>9, <1>10

\* What a restart or a resume puts in memory is what is stored: both retry counters, and
\* the place a second resume would come to again.
LEMMA LoadSurvives ==
    ASSUME SurvivalInv, NEW s \in State, Load(s),
           s.retry = saved.state.retry, s.patchRetry = saved.state.patchRetry
    PROVE  SurvivalInv'
<1>1. /\ saved \in Snapshot /\ saved.idx \in 0..Finished /\ saved.completed \in SUBSET Phases
  BY DEF SurvivalInv, Snapshot
<1>2. /\ state' = s /\ idx' = ResumeIdx(saved.idx, saved.completed)
      /\ completed' = saved.completed /\ saved' = saved
  BY DEF Load
<1>3. /\ ResumeIdx(saved.idx, saved.completed) \in 0..Finished
      /\ ResumeIdx(ResumeIdx(saved.idx, saved.completed), saved.completed)
             = ResumeIdx(saved.idx, saved.completed)
  BY <1>1, ResumedOnce
<1>4. Agrees(saved', state', idx', completed')
  BY <1>2, <1>3 DEF Agrees
<1> QED BY <1>1, <1>2, <1>3, <1>4 DEF SurvivalInv

\* ResumeState, field by field.
LEMMA ResumeTyped ==
    ASSUME NEW s \in State, NEW c \in SUBSET Phases, NEW b \in BOOLEAN
    PROVE  LET r == [ResumeState(s, c) EXCEPT !.failed = b] IN
           /\ ResumeState(s, c) \in State /\ r \in State
           /\ ResumeState(s, c).retry = s.retry
           /\ ResumeState(s, c).patchRetry = s.patchRetry
           /\ r.retry = s.retry /\ r.patchRetry = s.patchRetry
<1> DEFINE cg == IF Codegen \in c THEN "passed" ELSE s.codegen
           pt == IF Patch \in c THEN "applied" ELSE s.patch
           vl == IF Gate \in c THEN "passed" ELSE s.validation
           ar == IF Artifact \in c THEN "collected" ELSE s.artifact
           q1 == [s EXCEPT !.codegen = cg]
           q2 == [q1 EXCEPT !.patch = pt]
           q3 == [q2 EXCEPT !.validation = vl]
           q4 == [q3 EXCEPT !.artifact = ar]
           Same(t) == t \in State /\ t.retry = s.retry /\ t.patchRetry = s.patchRetry
<1>1. /\ cg \in {"none", "passed", "failed", "needs_user_input"}
      /\ pt \in {"none", "applied", "failed"}
      /\ vl \in {"none", "passed", "failed"}
      /\ ar \in {"none", "collected", "failed"}
  BY DEF State
<1>2. q4 = ResumeState(s, c)
  BY DEF ResumeState
<1> HIDE DEF cg, pt, vl, ar
<1>3. Same(q1)
  BY <1>1 DEF State
<1> HIDE DEF q1
<1>4. Same(q2)
  BY <1>1, <1>3 DEF State
<1> HIDE DEF q2
<1>5. Same(q3)
  BY <1>1, <1>4 DEF State
<1> HIDE DEF q3
<1>6. Same(q4)
  BY <1>1, <1>5 DEF State
<1> HIDE DEF q4
<1>7. Same([q4 EXCEPT !.failed = b])
  BY <1>6 DEF State
<1> QED BY <1>2, <1>6, <1>7

LEMMA RestartsSurvive ==
    ASSUME SurvivalInv, StartJob \/ ResumeJob \/ RetryJob \/ Crash \/ ReplRun \/ ReplEnds
    PROVE  SurvivalInv'
<1>1. /\ state \in State /\ saved \in Snapshot
      /\ saved.state \in State /\ saved.completed \in SUBSET Phases
  BY DEF SurvivalInv, Snapshot
<1>2. Fresh \in State /\ ~Fresh.job
  BY FreshConsistent DEF Fresh
<1>3. /\ 0 \in 0..Finished /\ PrepareWorkspace = 0 /\ {} \in SUBSET Phases
  BY DEF Finished, Report, PrepareWorkspace
<1>4. CASE StartJob \/ ReplRun
  BY <1>1, <1>2, <1>3, <1>4 DEF StartJob, ReplRun, SurvivalInv
<1>5. CASE ResumeJob
  BY <1>1, <1>5, ResumeTyped, LoadSurvives DEF ResumeJob
<1>6. CASE RetryJob
  BY <1>1, <1>6, ResumeTyped, LoadSurvives DEF RetryJob
<1>7. CASE Crash \/ ReplEnds
  <2>1. ASSUME saved' = [NoSnapshot EXCEPT !.state.job = TRUE, !.status = "running"]
        PROVE  saved' \in Snapshot
    <3> DEFINE t == [Fresh EXCEPT !.job = TRUE]
    <3>1. t \in State
      BY FreshConsistent
    <3>2. saved' = [state |-> t, idx |-> 0, completed |-> {}, status |-> "running"]
      BY <2>1 DEF NoSnapshot
    <3> HIDE DEF t
    <3> QED BY <1>3, <3>1, <3>2 DEF Snapshot
  <2>2. saved' \in Snapshot
    BY <1>1, <1>7, <2>1 DEF Crash, ReplEnds
  <2>3. state' = Fresh /\ idx' = 0 /\ completed' = {}
    BY <1>7 DEF Crash, ReplEnds
  <2> QED BY <1>2, <1>3, <2>2, <2>3 DEF SurvivalInv
<1> QED BY <1>4, <1>5, <1>6, <1>7

-------------------------------------------------------------------------------
\* What the nodes of the REPL answer keeps the state typed.
LEMMA NodesTyped ==
    ASSUME state \in State, NEW p \in Phases, NEW s \in NodeResults(p)
    PROVE  s \in State
<1> USE DEF PrepareWorkspace, Context, TaskPlanning, RequirementsReview, Modeling,
            Codegen, Patch, Gate, Artifact, Report
<1>1. CASE p = PrepareWorkspace
  <2>1. NodeResults(p) = {[state EXCEPT !.job = TRUE, !.retry = 0]}
    BY <1>1 DEF NodeResults
  <2>2. [state EXCEPT !.job = TRUE] \in State
    BY DEF State
  <2>3. [[state EXCEPT !.job = TRUE] EXCEPT !.retry = 0] \in State
    BY <2>2, FieldTypes
  <2> QED BY <2>1, <2>3
<1>2. CASE p = Context
  BY <1>2 DEF NodeResults
<1>3. CASE p = TaskPlanning
  <2>1. NodeResults(p) = {[state EXCEPT !.failed = f] : f \in BOOLEAN}
    BY <1>3 DEF NodeResults
  <2> QED BY <2>1, FieldTypes
<1>4. CASE p = RequirementsReview
  <2>1. NodeResults(p) =
           {[state EXCEPT !.review = "approved", !.conf = "approved", !.hc = FALSE],
            [state EXCEPT !.review = "needs_user_input", !.conf = "pending", !.hc = TRUE]}
    BY <1>4 DEF NodeResults
  <2>2. /\ [[[state EXCEPT !.review = "approved"] EXCEPT !.conf = "approved"]
               EXCEPT !.hc = FALSE] \in State
        /\ [[[state EXCEPT !.review = "needs_user_input"] EXCEPT !.conf = "pending"]
               EXCEPT !.hc = TRUE] \in State
    BY FieldTypes
  <2> QED BY <2>1, <2>2
<1>5. CASE p = Modeling
  <2> DEFINE result(m, required) == [state EXCEPT !.modeling = m, !.hc = required]
  <2>1. s \in ModelingAnswers
    BY <1>5 DEF NodeResults
  <2>2. ASSUME NEW m \in {"passed", "failed"}, NEW required \in BOOLEAN
        PROVE  result(m, required) \in State
    BY DEF State
  <2>3. \E required \in BOOLEAN :
           s = result("passed", required) \/ s = result("failed", required)
    BY <2>1 DEF ModelingAnswers
  <2> HIDE DEF result
  <2> QED BY <2>2, <2>3
<1>6. CASE p = Codegen
  <2> DEFINE answers == {<<"passed", FALSE>>, <<"passed", TRUE>>, <<"failed", FALSE>>,
                         <<"failed", TRUE>>, <<"needs_user_input", TRUE>>}
  <2>1. NodeResults(p) = {CodegenResult(r[1], r[2]) : r \in answers}
    BY <1>6 DEF NodeResults
  <2>2. ASSUME NEW r \in answers
        PROVE  r[1] \in {"passed", "failed", "needs_user_input"} /\ r[2] \in BOOLEAN
    <3>1. \E status \in {"passed", "failed", "needs_user_input"}, raised \in BOOLEAN :
             r = <<status, raised>>
      BY <2>2
    <3> QED BY <3>1
  <2> HIDE DEF answers
  <2>3. PICK r \in answers : s = CodegenResult(r[1], r[2])
    BY <2>1
  <2> QED BY <2>2, <2>3, CodegenTyped
<1>7. CASE p = Patch
  <2>1. NodeResults(p) =
           {[state EXCEPT !.patch = "applied"],
            [state EXCEPT !.patch = "failed", !.codegen = "failed", !.patchRetry = @ + 1]}
    BY <1>7 DEF NodeResults
  <2>2. state.patchRetry + 1 \in Nat
    BY DEF State
  <2>3. /\ [state EXCEPT !.patch = "applied"] \in State
        /\ [[[state EXCEPT !.patch = "failed"] EXCEPT !.codegen = "failed"]
               EXCEPT !.patchRetry = state.patchRetry + 1] \in State
    BY <2>2, FieldTypes
  <2>4. [state EXCEPT !.patch = "failed", !.codegen = "failed", !.patchRetry = @ + 1] \in State
    BY <2>3
  <2> QED BY <2>1, <2>3, <2>4
<1>8. CASE p = Gate
  <2> DEFINE bad(g) == [state EXCEPT !.validation = "failed", !.gate = g, !.retry = @ + 1]
  <2>1. s \in GateAnswers
    BY <1>8 DEF NodeResults
  <2>2. state.retry + 1 \in Nat /\ NoGate \in 0..20 \cup {NoGate}
    BY DEF State
  <2>3. [[state EXCEPT !.validation = "passed"] EXCEPT !.gate = NoGate] \in State
    BY <2>2, FieldTypes
  <2>4. ASSUME NEW g \in FailingGates PROVE bad(g) \in State
    <3>1. g \in 0..20 \cup {NoGate}
      BY LimitsAssumption
    <3>2. [[[state EXCEPT !.validation = "failed"] EXCEPT !.gate = g]
              EXCEPT !.retry = state.retry + 1] \in State
      BY <2>2, <3>1, FieldTypes
    <3> QED BY <3>2
  <2>5. \/ s = [state EXCEPT !.validation = "passed", !.gate = NoGate]
        \/ \E g \in FailingGates : s = bad(g)
    BY <2>1 DEF GateAnswers
  <2> HIDE DEF bad
  <2> QED BY <2>3, <2>4, <2>5
<1>9. CASE p = Artifact
  <2>1. NodeResults(p) = {[state EXCEPT !.artifact = a] : a \in {"collected", "failed"}}
    BY <1>9 DEF NodeResults
  <2>2. \A a \in {"collected", "failed"} : [state EXCEPT !.artifact = a] \in State
    BY DEF State
  <2> QED BY <2>1, <2>2
<1>10. CASE p = Report
  <2>1. NodeResults(p) = {[state EXCEPT !.failed = (state.validation # "passed")]}
    BY <1>10 DEF NodeResults
  <2> QED BY <2>1, FieldTypes
<1> QED BY <1>1, <1>2, <1>3, <1>4, <1>5, <1>6, <1>7, <1>8, <1>9, <1>10 DEF Phases

\* The REPL stores each phase that answers; one that raises leaves memory and store alone.
LEMMA ReplSurvives ==
    ASSUME SurvivalInv,
           \/ ReplPhase \/ ReplPhaseRaises \/ ReplStep \/ ReplApprove
           \/ ReplLegacyConfirm \/ ReplResume
    PROVE  SurvivalInv'
<1>1. /\ state \in State /\ saved \in Snapshot
      /\ idx \in 0..Finished /\ completed \in SUBSET Phases
      /\ saved.state \in State /\ saved.idx \in 0..Finished
      /\ saved.completed \in SUBSET Phases
  BY DEF SurvivalInv, Snapshot
<1>2. CASE ReplPhase
  <2>0. idx < Finished
    BY <1>2 DEF ReplPhase
  <2>1. idx \in Phases
    BY <1>1, <2>0 DEF Phases, PrepareWorkspace, Report, Finished
  <2>2. PICK s \in NodeResults(idx) :
          LET waits == idx = RequirementsReview /\ s.review = "needs_user_input"
              c == IF waits THEN completed ELSE completed \cup {idx}
              i == IF waits THEN idx ELSE idx + 1
          IN  /\ state' = s /\ idx' = i /\ completed' = c
              /\ ReplPersist(s, i, c, IF idx = Report THEN "completed" ELSE "running")
    BY <1>2 DEF ReplPhase
  <2> DEFINE waits == idx = RequirementsReview /\ s.review = "needs_user_input"
             c == IF waits THEN completed ELSE completed \cup {idx}
             i == IF waits THEN idx ELSE idx + 1
             asked == IF idx = Report THEN "completed" ELSE "running"
  <2>3. s \in State
    BY <1>1, <2>1, NodesTyped
  <2>4. i \in 0..Finished /\ c \in SUBSET Phases
    BY <1>1, <2>1 DEF Phases, PrepareWorkspace, Report, Finished
  <2>5. asked \in {"running", "paused", "failed", "completed"}
    OBVIOUS
  <2>6. state' = s /\ idx' = i /\ completed' = c /\ ReplPersist(s, i, c, asked)
    BY <2>2
  <2> HIDE DEF c, i, asked
  <2> QED BY <1>1, <2>3, <2>4, <2>5, <2>6, ReplPersistSurvives
<1>3. CASE ReplPhaseRaises \/ ReplStep
  BY <1>3 DEF ReplPhaseRaises, ReplStep, AtRest, SurvivalInv, MayRest
<1>4. CASE ReplApprove
  <2> DEFINE s == [state EXCEPT !.review = "approved", !.conf = "approved", !.hc = FALSE]
  <2>1. [[[state EXCEPT !.review = "approved"] EXCEPT !.conf = "approved"]
           EXCEPT !.hc = FALSE] \in State
    BY <1>1, FieldTypes
  <2>2. s \in State
    BY <2>1
  <2>3. /\ RequirementsReview \in Phases /\ Modeling \in 0..Finished
    BY DEF RequirementsReview, Modeling, Phases, PrepareWorkspace, Report, Finished
  <2>4. /\ state' = s /\ idx' = Modeling /\ completed' = completed \cup {RequirementsReview}
        /\ ReplPersist(state', Modeling, completed', "running")
    BY <1>4 DEF ReplApprove
  <2>5. ReplPersist(s, Modeling, completed \cup {RequirementsReview}, "running")
    BY <2>4
  <2> HIDE DEF s
  <2> QED BY <1>1, <2>2, <2>3, <2>4, <2>5, ReplPersistSurvives
<1>5. CASE ReplLegacyConfirm
  <2>1. PICK conf \in {"approved", "pending", "rejected", "failed"}, required \in BOOLEAN :
           state' = [[state EXCEPT !.conf = conf] EXCEPT !.hc = required]
    BY <1>5 DEF ReplLegacyConfirm
  <2>2. [[state EXCEPT !.conf = conf] EXCEPT !.hc = required] \in State
    BY <1>1, FieldTypes
  <2>3. /\ state' \in State /\ state'.job = state.job
        /\ state'.retry = state.retry /\ state'.patchRetry = state.patchRetry
    BY <1>1, <2>1, <2>2 DEF State
  <2>4. idx' = idx /\ completed' = completed /\ saved' = saved /\ ctl' = ctl
    BY <1>5 DEF ReplLegacyConfirm
  <2> QED BY <2>3, <2>4 DEF SurvivalInv, MayRest, Agrees
<1>6. CASE ReplResume
  BY <1>1, <1>6 DEF ReplResume, SurvivalInv, Agrees
<1> QED BY <1>2, <1>3, <1>4, <1>5, <1>6

LEMMA InitSurvivalInv == Init => SurvivalInv
BY FreshConsistent DEF Init, SurvivalInv, NoSnapshot, Snapshot, Finished, Report, Fresh

LEMMA StepSurvivalInv ==
    ASSUME SurvivalInv, [Next \/ ReplNext]_vars
    PROVE  SurvivalInv'
<1>1. CASE Next
  BY <1>1, PhaseSurvives, RoutingSurvives, DecidedSurvives, RestartsSurvive
     DEF Next, Progress, Operation
<1>2. CASE ReplNext
  BY <1>2, ReplSurvives, RestartsSurvive DEF ReplNext
<1>3. CASE UNCHANGED vars
  BY <1>3 DEF vars, SurvivalInv
<1> QED BY <1>1, <1>2, <1>3

\* Whatever front ends drive a job in turn, and wherever they crash, no retry is given back
\* and no phase is run again that was completed: for every retry limit and failing gate.
THEOREM NoRetryIsGivenBack == AnyFrontEnd => []RetriesSurvive
<1>1. SurvivalInv => RetriesSurvive
  BY DEF SurvivalInv, RetriesSurvive, Resting, MayRest, Agrees
<1> QED BY <1>1, InitSurvivalInv, StepSurvivalInv, PTL DEF AnyFrontEnd
===============================================================================
