------------------------------ MODULE Revisions -------------------------------
(* Revision sandboxes of the generated projects of module JobStore: a copy of the *)
(* project with a patch applied to it, judged by gates, accepted in place of the  *)
(* project.  A process that dies leaves each of these steps half done.           *)
EXTENDS JobStore

CONSTANTS
    Revs,    \* revision ids
    Files    \* the files of a generated project

VARIABLES
    code,    \* the generated project of each job
    rev,     \* revision directories
    op       \* the revision command that is being carried out

revVars == <<code, rev, op>>
vars == <<db, disk, svc, imp, code, rev, op>>

\* Which version of a file a directory holds: the generated one, a revision's, none.
Tree == [Files -> {"none", "generated"} \cup Revs]
Empty == [f \in Files |-> "none"]
Generated == [f \in Files |-> "generated"]

\* A patch as the nodes of patching see it: its review turns it down, or its entries
\* are written, except one that is skipped (new_content is null, the path leaves the
\* project).
Rejected == [f \in Files |-> "rejected"]
Patch == [Files -> {"absent", "written", "skipped"}] \cup {Rejected}

\* gate: what gate_results.json says; judged: of the candidate as it is now.
Revision ==
    [job : Jobs, status : {"created", "running", "completed", "failed"},
     patch : Patch \cup {None}, ran : Patch \cup {None},
     base : Tree, candidate : Tree, gate : {"missing", "passed", "refused"},
     judged : BOOLEAN]

ASSUME NoneIsNoRevision == None \notin Revision \cup Revs

Idle == [at |-> "idle", rev |-> None, job |-> None, errors |-> FALSE, left |-> {}]

RevTypeOK ==
    /\ TypeOK
    /\ code \in [Jobs -> Tree]
    /\ rev \in [Revs -> Revision \cup {None}]
    /\ op \in [at : {"idle", "reset", "copied", "patched", "copying"},
               rev : Revs \cup {None}, job : Jobs \cup {None},
               errors : BOOLEAN, left : SUBSET Files]

-------------------------------------------------------------------------------
\* review_patch and apply_patch: what becomes of a tree.
Written(p) == {f \in Files : p[f] = "written"}

PatchStatus(p) ==
    IF p = Rejected THEN "rejected" ELSE IF Written(p) = {} THEN "failed" ELSE "applied"

PatchErrors(p) ==
    PatchStatus(p) # "applied" \/ \E f \in Files : p[f] = "skipped"

Patched(t, p, r) ==
    IF PatchStatus(p) = "applied"
    THEN [f \in Files |-> IF f \in Written(p) THEN r ELSE t[f]]
    ELSE t

-------------------------------------------------------------------------------
\* The terminal refuses these commands while a phase runs, and no other request is
\* served meanwhile: they are carried out without giving up the event loop.
Free == op = Idle /\ imp = NoImport /\ svc.at = "idle"

\* create_revision, from the active job and its project.
CreateRevision ==
    /\ Free /\ svc.job # None
    /\ \E r \in Revs :
          /\ rev[r] = None
          /\ rev' = [rev EXCEPT ![r] =
                       [job |-> svc.job, status |-> "created", patch |-> None,
                        ran |-> None, base |-> Empty, candidate |-> Empty,
                        gate |-> "missing", judged |-> FALSE]]
    /\ UNCHANGED <<storeVars, code, op>>

\* Whoever answers the request leaves a patch in the revision's directory.
ProposePatch ==
    /\ Free
    /\ \E r \in Revs, p \in Patch :
          /\ rev[r] # None /\ rev[r].patch = None
          /\ rev' = [rev EXCEPT ![r].patch = p]
    /\ UNCHANGED <<storeVars, code, op>>

\* arun_revision: the status is written and both directories are emptied ...
RunBegin ==
    /\ Free
    /\ \E r \in Revs :
          /\ rev[r] # None
          /\ rev' = [rev EXCEPT ![r].status = "running", ![r].base = Empty,
                                ![r].candidate = Empty, ![r].judged = FALSE]
          /\ op' = [Idle EXCEPT !.at = "reset", !.rev = r]
    /\ UNCHANGED <<storeVars, code>>

\* ... the project is copied into both, if there is one ...
RunCopy ==
    LET r == op.rev
        t == code[rev[r].job] IN
    /\ op.at = "reset"
    /\ rev' = [rev EXCEPT ![r].base = t, ![r].candidate = t]
    /\ op' = [op EXCEPT !.at = "copied", !.errors = t = Empty]
    /\ UNCHANGED <<storeVars, code>>

\* Variant: only the status of the patch counts, as it does in the pipeline.
RunPatch_StatusOnly ==
    LET r == op.rev
        p == rev[r].patch IN
    /\ op.at = "copied"
    /\ rev' = [rev EXCEPT ![r].ran = p,
                          ![r].candidate = IF p = None THEN @ ELSE Patched(@, p, r)]
    /\ op' = [op EXCEPT !.at = "patched",
                        !.errors = @ \/ (p # None /\ PatchStatus(p) # "applied")]
    /\ UNCHANGED <<storeVars, code>>

\* ... the patch, if there is one, is applied to the candidate ...
RunPatch ==
    LET r == op.rev
        p == rev[r].patch IN
    /\ op.at = "copied"
    /\ rev' = [rev EXCEPT ![r].ran = p,
                          ![r].candidate = IF p = None THEN @ ELSE Patched(@, p, r)]
    /\ op' = [op EXCEPT !.at = "patched", !.errors = @ \/ (p # None /\ PatchErrors(p))]
    /\ UNCHANGED <<storeVars, code>>

\* ... and the outcome is written.
RunEnd ==
    /\ op.at = "patched"
    /\ rev' = [rev EXCEPT ![op.rev].status = IF op.errors THEN "failed" ELSE "completed"]
    /\ op' = Idle
    /\ UNCHANGED <<storeVars, code>>

\* External: gates run on a candidate and leave gate_results.json beside it.  A
\* project that lacks a file does not pass them.
Judge ==
    /\ Free
    /\ \E r \in Revs, verdict \in {"passed", "refused"} :
          /\ rev[r] # None /\ rev[r].status \in {"completed", "failed"}
          /\ verdict = "passed" => \A f \in Files : rev[r].candidate[f] # "none"
          /\ rev' = [rev EXCEPT ![r].gate = verdict, ![r].judged = TRUE]
    /\ UNCHANGED <<storeVars, code, op>>

\* check_accept_preconditions on _revision_gate_state.
Acceptable(r) == rev[r] # None /\ rev[r].gate = "passed"

\* Variant: the candidate is copied over the project.
AcceptBegin_Overlays ==
    /\ Free /\ svc.code
    /\ \E r \in Revs :
          /\ Acceptable(r)
          /\ op' = [Idle EXCEPT !.at = "copying", !.rev = r, !.job = svc.job,
                                !.left = {f \in Files : rev[r].candidate[f] \in Revs}]
    /\ UNCHANGED <<storeVars, code, rev>>

\* accept_revision: the active job's project is removed ...
AcceptBegin ==
    /\ Free /\ svc.code
    /\ \E r \in Revs :
          /\ Acceptable(r)
          /\ op' = [Idle EXCEPT !.at = "copying", !.rev = r, !.job = svc.job,
                                !.left = Files]
    /\ code' = [code EXCEPT ![svc.job] = Empty]
    /\ UNCHANGED <<storeVars, rev>>

\* ... and the candidate copied in its place, file by file.
AcceptCopy ==
    /\ op.at = "copying"
    /\ \E f \in op.left :
          /\ code' = [code EXCEPT ![op.job][f] = rev[op.rev].candidate[f]]
          /\ op' = [op EXCEPT !.left = @ \ {f}]
    /\ UNCHANGED <<storeVars, rev>>

AcceptEnd ==
    /\ op.at = "copying" /\ op.left = {}
    /\ op' = Idle
    /\ UNCHANGED <<storeVars, code, rev>>

-------------------------------------------------------------------------------
\* The phase that generates the project writes it anew.
Generates == svc.at = "begun" /\ svc.idx = Code

WorkflowStep ==
    /\ op = Idle
    /\ \/ /\ RunNode
          /\ code' = IF Generates THEN [code EXCEPT ![svc.job] = Generated] ELSE code
       \/ /\ Start \/ Begin \/ CreateDirs \/ StoreRow \/ PersistDone \/ PersistStopped
          /\ UNCHANGED code
       \/ Resume /\ UNCHANGED code
    /\ UNCHANGED <<rev, op>>

Metadata ==
    /\ op = Idle
    /\ CreateProject \/ SwitchProject \/ Import
    /\ UNCHANGED <<code, rev, op>>

Dies ==
    /\ Crash
    /\ op' = Idle
    /\ UNCHANGED <<code, rev>>

RevInit ==
    /\ Init
    /\ code = [j \in Jobs |-> Empty]
    /\ rev = [r \in Revs |-> None]
    /\ op = Idle

RunRevision == RunBegin \/ RunCopy \/ RunPatch \/ RunEnd
AcceptRevision == AcceptBegin \/ AcceptCopy \/ AcceptEnd

RevNext ==
    \/ WorkflowStep \/ Metadata \/ Dies
    \/ CreateRevision \/ ProposePatch \/ RunRevision \/ Judge \/ AcceptRevision

RevSpec == RevInit /\ [][RevNext]_vars

-------------------------------------------------------------------------------
(* What the store and the revision sandboxes promise.                            *)

\* A job that would be resumed as finished, or is listed as completed, has its
\* final report on disk: crashes and imports never turn a job that stopped halfway
\* into a finished one (repositories.py import_existing_jobs, service.py
\* _persist_phase_state).
FinishedIsReported ==
    \A j \in Jobs :
        /\ Known(j)
        /\ Resumed(j).idx = Last + 1 \/ db.rows[j].status = "completed"
        => disk[j] = "reported"

\* Between two phases everything the service knows of its job is in the store: a
\* process that dies there, with imports and switches of the project before and
\* after, resumes exactly where it was (service.py resume_job).
BoundariesAreDurable ==
    svc.at = "idle" /\ svc.job # None => Resumed(svc.job) = svc

\* What a resumed job starts from is what was done, neither more nor less.
ResumedIsTrue == FinishedIsReported /\ BoundariesAreDurable

\* A revision whose status says "completed" holds the project it was copied from
\* with every entry of its patch written, whatever died in between
\* (manager.py arun_revision).
CompletedIsWhole ==
    \A r \in {x \in Revs : rev[x] # None} :
        LET p == rev[r].ran IN
        rev[r].status = "completed" =>
            /\ rev[r].base # Empty
            /\ p # None => \A f \in Files : p[f] # "skipped"
            /\ \A f \in Files :
                  rev[r].candidate[f] = IF p # None /\ p[f] = "written"
                                        THEN r ELSE rev[r].base[f]

\* The project an acceptance leaves is the candidate and nothing else: no file of the
\* replaced project stays, whatever died or was run again before
\* (service.py accept_revision).
AcceptedIsTheCandidate ==
    [][ AcceptEnd => code[op.job] = rev[op.rev].candidate ]_vars

===============================================================================
