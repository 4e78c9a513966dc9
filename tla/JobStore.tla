------------------------------- MODULE JobStore -------------------------------
(* What outlives the process: the rows and snapshots RadAgentStore keeps in      *)
(* SQLite and the directories of the jobs, with the service that writes both, the *)
(* import that rebuilds rows from directories, and crashes between any two steps. *)
(*                                                                               *)
(* A job goes through prepare_workspace, a few phases and the report; module      *)
(* Pipeline has all phases and the re-routing between them.                      *)
EXTENDS Naturals

CONSTANTS
    Jobs,       \* job ids
    Projects,   \* project ids
    Default,    \* the default project
    Code,       \* the phase that writes the generated project
    Last,       \* the last phase, which writes final_report.md
    None

ASSUME StoreAssumption ==
    /\ Default \in Projects
    /\ Last \in Nat
    /\ Code \in 1..Last - 1
    /\ None \notin Jobs \cup Projects

VARIABLES
    db,     \* committed: current project, projects, job rows, newest snapshots
    disk,   \* what of each job is on disk
    svc,    \* the service: its job, project, phase and the step within the phase
    imp     \* import_existing_jobs: the directories to go, what it read of one

storeVars == <<db, disk, svc, imp>>

\* "failed" and "paused" are one: nothing here tells them apart.
Statuses == {"running", "paused", "completed"}
Entry == [project : Projects, status : Statuses, idx : 0..Last + 1]
Saved == [project : Projects, idx : 0..Last + 1, code : BOOLEAN]

ASSUME NoneIsNoRow == None \notin Entry \cup Saved

NoService == [job |-> None, project |-> None, idx |-> 0, code |-> FALSE,
              at |-> "idle"]
NoImport == [todo |-> {}, project |-> None, on |-> None, finished |-> FALSE]

TypeOK ==
    /\ db \in [current : Projects, projects : SUBSET Projects,
               rows : [Jobs -> Entry \cup {None}], snaps : [Jobs -> Saved \cup {None}]]
    /\ disk \in [Jobs -> {"absent", "created", "reported"}]
    /\ svc \in [job : Jobs \cup {None}, project : Projects \cup {None},
                idx : 0..Last + 1, code : BOOLEAN,
                at : {"idle", "begun", "created", "ran"}]
    /\ imp \in [todo : SUBSET Jobs, project : Projects \cup {None},
                on : Jobs \cup {None}, finished : BOOLEAN]

-------------------------------------------------------------------------------
\* upsert_job: one statement and a commit; without a project the current one.
Upserted(d, j, project, status, idx) ==
    [d EXCEPT !.rows[j] = [project |-> IF project = None THEN d.current ELSE project,
                           status |-> status, idx |-> idx]]

\* save_state_snapshot: the snapshot is inserted in the transaction that the row's
\* upsert commits.
SnapshotSaved(d, s, status, idx) ==
    [Upserted(d, s.job, s.project, status, idx) EXCEPT
        !.snaps[s.job] = [project |-> s.project, idx |-> idx, code |-> s.code]]

\* latest_state_snapshot, and the row when there is none: what resume_job goes by.
Resumed(j) ==
    IF db.snaps[j] # None
    THEN [job |-> j, project |-> db.snaps[j].project, idx |-> db.snaps[j].idx,
          code |-> db.snaps[j].code, at |-> "idle"]
    ELSE [NoService EXCEPT !.job = j, !.idx = db.rows[j].idx]

Known(j) == db.rows[j] # None

-------------------------------------------------------------------------------
\* start_job: a fresh state; prepare_workspace comes next.
Start ==
    /\ svc.at = "idle"
    /\ svc' = [NoService EXCEPT !.at = "begun"]
    /\ UNCHANGED <<db, disk, imp>>

\* prepare_workspace names the job and makes its directories ...
CreateDirs ==
    /\ svc.at = "begun" /\ svc.idx = 0
    /\ \E j \in Jobs :
          /\ IF svc.job = None THEN disk[j] = "absent" ELSE j = svc.job
          /\ svc' = [svc EXCEPT !.job = j, !.at = "created"]
          /\ disk' = [disk EXCEPT ![j] = IF @ = "absent" THEN "created" ELSE @]
    /\ UNCHANGED <<db, imp>>

\* ... and then enters it in the current project, which its state remembers.
StoreRow ==
    /\ svc.at = "created"
    /\ svc' = [svc EXCEPT !.project = db.current, !.at = "ran"]
    /\ db' = Upserted(db, svc.job, db.current, "running", 0)
    /\ UNCHANGED <<disk, imp>>

\* run_phase and step: the next phase of the job is begun.
Begin ==
    /\ svc.at = "idle" /\ svc.job # None /\ svc.idx \in 0..Last
    /\ svc' = [svc EXCEPT !.at = "begun"]
    /\ UNCHANGED <<db, disk, imp>>

\* A later phase's node.  The state then names the generated project; the report's
\* node writes the final report.
RunNode ==
    /\ svc.at = "begun" /\ svc.idx \in 1..Last
    /\ svc' = [svc EXCEPT !.at = "ran", !.code = @ \/ svc.idx = Code]
    /\ disk' = [disk EXCEPT ![svc.job] = IF svc.idx = Last THEN "reported" ELSE @]
    /\ UNCHANGED <<db, imp>>

\* _persist_phase_state after a phase that went through.
PersistDone ==
    LET next == svc.idx + 1 IN
    /\ svc.at = "ran"
    /\ svc' = [svc EXCEPT !.idx = next, !.at = "idle"]
    /\ db' = SnapshotSaved(db, svc, IF svc.idx = Last THEN "completed" ELSE "running", next)
    /\ UNCHANGED <<disk, imp>>

\* _persist_phase_state after one that failed or asks the user.
PersistStopped ==
    /\ svc.at = "ran" /\ svc.idx # 0
    /\ svc' = [svc EXCEPT !.at = "idle"]
    /\ db' = SnapshotSaved(db, svc, "paused", svc.idx)
    /\ UNCHANGED <<disk, imp>>

\* resume_job.
Resume ==
    /\ svc.at = "idle"
    /\ \E j \in Jobs : Known(j) /\ svc' = Resumed(j)
    /\ UNCHANGED <<db, disk, imp>>

-------------------------------------------------------------------------------
\* create_project enters a project and makes it the current one.
CreateProject ==
    /\ \E p \in Projects \ db.projects :
          db' = [db EXCEPT !.projects = @ \cup {p}, !.current = p]
    /\ UNCHANGED <<disk, svc, imp>>

SwitchProject ==
    /\ \E p \in db.projects : p # db.current /\ db' = [db EXCEPT !.current = p]
    /\ UNCHANGED <<disk, svc, imp>>

\* list_jobs, get_job and the details of a job without a snapshot import first:
\* the directories are listed, then read and entered one after the other.
ImportStart ==
    /\ imp = NoImport
    /\ imp' = [NoImport EXCEPT !.todo = {j \in Jobs : disk[j] # "absent"},
                               !.project = db.current]
    /\ imp'.todo # {}
    /\ UNCHANGED <<db, disk, svc>>

ImportRead ==
    /\ imp.on = None
    /\ \E j \in imp.todo :
          imp' = [imp EXCEPT !.todo = @ \ {j}, !.on = j,
                             !.finished = disk[j] = "reported"]
    /\ UNCHANGED <<db, disk, svc>>

\* Variant: any directory counts as a finished job.
ImportRow_AllFinished ==
    /\ imp.on # None
    /\ db' = Upserted(db, imp.on, imp.project, "completed", Last + 1)
    /\ imp' = IF imp.todo = {} THEN NoImport ELSE [imp EXCEPT !.on = None]
    /\ UNCHANGED <<disk, svc>>

\* The row says what the directory said, in the project that was current.
ImportRow ==
    /\ imp.on # None
    /\ db' = IF imp.finished
             THEN Upserted(db, imp.on, imp.project, "completed", Last + 1)
             ELSE Upserted(db, imp.on, imp.project, "paused", 0)
    /\ imp' = IF imp.todo = {} THEN NoImport ELSE [imp EXCEPT !.on = None]
    /\ UNCHANGED <<disk, svc>>

\* The process dies; what was committed or written stays.
Crash ==
    /\ svc' = NoService
    /\ imp' = NoImport
    /\ UNCHANGED <<db, disk>>

Init ==
    /\ db = [current |-> Default, projects |-> {Default},
             rows |-> [j \in Jobs |-> None], snaps |-> [j \in Jobs |-> None]]
    /\ disk = [j \in Jobs |-> "absent"]
    /\ svc = NoService
    /\ imp = NoImport

Work == Begin \/ CreateDirs \/ StoreRow \/ RunNode \/ PersistDone \/ PersistStopped
Import == ImportStart \/ ImportRead \/ ImportRow

Next == Start \/ Work \/ Resume \/ CreateProject \/ SwitchProject \/ Import \/ Crash

Spec == Init /\ [][Next]_storeVars
===============================================================================
