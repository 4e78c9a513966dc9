----------------------------- MODULE StoreProofs -----------------------------
(* ResumedIsTrue, CompletedIsWhole and AcceptedIsTheCandidate for any jobs,        *)
(* projects, phases, revisions and files, with crashes, imports and switches of    *)
(* the project between any two steps.                                              *)
EXTENDS Revisions, TLAPS

Store == [current : Projects, projects : SUBSET Projects,
          rows : [Jobs -> Entry \cup {None}], snaps : [Jobs -> Saved \cup {None}]]

Service == [job : Jobs \cup {None}, project : Projects \cup {None},
            idx : 0..Last + 1, code : BOOLEAN,
            at : {"idle", "begun", "created", "ran"}]

\* A job without a snapshot has not got past its first phase, and the service has a
\* project and a snapshot for one that has.
Unsaved ==
    \A j \in Jobs :
        /\ db.rows[j] # None /\ db.snaps[j] = None => db.rows[j].idx = 0
        /\ disk[j] = "reported" => db.snaps[j] # None

Serving ==
    /\ svc.job = None => svc.idx = 0 /\ ~svc.code
    /\ svc.idx # 0 => svc.project # None /\ db.snaps[svc.job] # None
    /\ svc.at = "ran" => svc.project # None
    /\ svc.at \in {"created", "ran"} => svc.job # None
    /\ svc.at = "created" => svc.idx = 0
    /\ svc.at # "idle" => svc.idx \in 0 .. Last
    /\ svc.at = "ran" /\ svc.idx = Last => disk[svc.job] = "reported"

\* What says of a job that it is finished, or will say it, says it of a reported one.
Reported ==
    /\ \A j \in Jobs :
          /\ db.snaps[j] # None /\ db.snaps[j].idx = Last + 1 => disk[j] = "reported"
          /\ db.rows[j] # None /\ (db.rows[j].idx = Last + 1 \/ db.rows[j].status = "completed")
                => disk[j] = "reported"
    /\ imp.on # None /\ imp.finished => disk[imp.on] = "reported"

SInv == TypeOK /\ Unsaved /\ Serving /\ Reported /\ BoundariesAreDurable

-------------------------------------------------------------------------------
LEMMA Phases == /\ Last \in Nat /\ Last >= 2 /\ Last # 0 /\ Last + 1 # 0 /\ Last # Last + 1
                /\ 0 \in 0 .. Last + 1 /\ Last + 1 \in 0 .. Last + 1
                /\ \A i \in 0 .. Last : i + 1 \in 0 .. Last + 1 /\ (i + 1 = Last + 1 <=> i = Last)
                                        /\ i + 1 # 0
BY StoreAssumption

\* An upsert changes one row; a snapshot, one row and one snapshot.
LEMMA Upserts ==
    ASSUME NEW d \in Store, NEW j \in Jobs, NEW p \in Projects \cup {None},
           NEW status \in Statuses, NEW i \in 0 .. Last + 1
    PROVE  LET u == Upserted(d, j, p, status, i) IN
           /\ u \in Store /\ u.snaps = d.snaps
           /\ u.rows = [d.rows EXCEPT ![j] = u.rows[j]]
           /\ u.rows[j] \in Entry /\ u.rows[j] # None
           /\ u.rows[j].idx = i /\ u.rows[j].status = status
<1> DEFINE e == [project |-> IF p = None THEN d.current ELSE p, status |-> status, idx |-> i]
           u == Upserted(d, j, p, status, i)
<1>1. e \in Entry /\ e # None /\ e.idx = i /\ e.status = status
  <2>1. d.current \in Projects
    BY DEF Store
  <2>2. e \in Entry
    BY <2>1 DEF Entry
  <2> QED BY <2>2, NoneIsNoRow
<1>2. u = [d EXCEPT !.rows[j] = e]
  BY DEF Upserted
<1> HIDE DEF e
<1>3. /\ u \in Store /\ u.snaps = d.snaps /\ u.rows = [d.rows EXCEPT ![j] = e] /\ u.rows[j] = e
  BY <1>1, <1>2 DEF Store
<1> QED BY <1>1, <1>3

LEMMA Snapshots ==
    ASSUME NEW d \in Store, NEW s \in Service, s.job # None, s.project # None,
           NEW status \in Statuses, NEW i \in 0 .. Last + 1
    PROVE  LET u == SnapshotSaved(d, s, status, i) IN
           /\ u \in Store /\ s.job \in Jobs
           /\ u.rows = [d.rows EXCEPT ![s.job] = u.rows[s.job]]
           /\ u.rows[s.job] \in Entry /\ u.rows[s.job] # None
           /\ u.rows[s.job].idx = i /\ u.rows[s.job].status = status
           /\ u.snaps = [d.snaps EXCEPT ![s.job] = u.snaps[s.job]] /\ u.snaps[s.job] # None
           /\ u.snaps[s.job] = [project |-> s.project, idx |-> i, code |-> s.code]
<1> DEFINE e == [project |-> s.project, idx |-> i, code |-> s.code]
           v == Upserted(d, s.job, s.project, status, i)
           u == SnapshotSaved(d, s, status, i)
<1>1. s.job \in Jobs /\ s.project \in Projects /\ s.code \in BOOLEAN
  BY DEF Service
<1>2. e \in Saved /\ e # None
  BY <1>1, NoneIsNoRow DEF Saved
<1>3. u = [v EXCEPT !.snaps[s.job] = e]
  BY DEF SnapshotSaved
<1>4. /\ v \in Store /\ v.snaps = d.snaps
      /\ v.rows = [d.rows EXCEPT ![s.job] = v.rows[s.job]]
      /\ v.rows[s.job] \in Entry /\ v.rows[s.job] # None
      /\ v.rows[s.job].idx = i /\ v.rows[s.job].status = status
  BY <1>1, Upserts
<1> HIDE DEF e, v
<1>5. /\ u \in Store /\ u.rows = v.rows /\ u.snaps = [d.snaps EXCEPT ![s.job] = e]
      /\ u.snaps[s.job] = e
  BY <1>1, <1>2, <1>3, <1>4 DEF Store
<1> QED BY <1>1, <1>2, <1>4, <1>5 DEF e

LEMMA Resumption ==
    ASSUME TypeOK, Unsaved, NEW j \in Jobs, Known(j)
    PROVE  /\ Resumed(j) \in Service /\ Resumed(j).at = "idle" /\ Resumed(j).job = j
           /\ Resumed(j).idx # 0 => Resumed(j).project # None /\ db.snaps[j] # None
<1>1. /\ db.snaps[j] \in Saved \cup {None} /\ db.rows[j] \in Entry \cup {None}
  BY DEF TypeOK
<1>2. CASE db.snaps[j] # None
  <2>1. /\ db.snaps[j].project \in Projects /\ db.snaps[j].idx \in 0 .. Last + 1
        /\ db.snaps[j].code \in BOOLEAN
    BY <1>1, <1>2 DEF Saved
  <2>2. Resumed(j) = [job |-> j, project |-> db.snaps[j].project, idx |-> db.snaps[j].idx,
                      code |-> db.snaps[j].code, at |-> "idle"]
    BY <1>2 DEF Resumed
  <2> QED BY <1>2, <2>1, <2>2, StoreAssumption DEF Service
<1>3. CASE db.snaps[j] = None
  <2>1. db.rows[j].idx = 0
    BY <1>3 DEF Unsaved, Known
  <2>2. Resumed(j) = [NoService EXCEPT !.job = j, !.idx = 0]
    BY <1>3, <2>1 DEF Resumed
  <2> QED BY <2>2, Phases DEF NoService, Service
<1> QED BY <1>2, <1>3

LEMMA StoreInit == Init => SInv
<1> SUFFICES ASSUME Init PROVE SInv
  OBVIOUS
<1>1. NoService \in Service /\ NoImport.on = None
  BY Phases DEF NoService, Service, NoImport
<1>2. TypeOK
  BY <1>1, StoreAssumption DEF Init, TypeOK, Service, NoImport
<1>3. /\ \A j \in Jobs : db.rows[j] = None /\ db.snaps[j] = None /\ disk[j] = "absent"
      /\ svc = NoService /\ imp.on = None
  BY <1>1 DEF Init
<1> QED BY <1>2, <1>3 DEF SInv, Unsaved, Serving, Reported, BoundariesAreDurable, NoService

\* Steps of the service that leave the store and the directories alone.
LEMMA ServiceStep ==
    ASSUME SInv, UNCHANGED <<db, disk, imp>>, svc' \in Service, Serving', BoundariesAreDurable'
    PROVE  SInv'
BY DEF SInv, TypeOK, Service, Unsaved, Reported

\* A phase's end: its snapshot and row are saved, and the service stands where they say.
LEMMA PhaseSaved ==
    ASSUME SInv, svc.at = "ran", NEW i \in 0 .. Last + 1, NEW status \in Statuses,
           i # 0, i = Last + 1 => svc.idx = Last, status = "completed" => svc.idx = Last,
           svc' = [svc EXCEPT !.idx = i, !.at = "idle"],
           db' = SnapshotSaved(db, svc, status, i), UNCHANGED <<disk, imp>>
    PROVE  SInv'
<1> DEFINE j == svc.job
<1>1. /\ svc \in Service /\ db \in Store /\ svc.project # None /\ svc.job # None
      /\ svc.idx = Last => disk[j] = "reported"
  BY DEF SInv, TypeOK, Service, Store, Serving
<1>2. /\ db' \in Store /\ svc.job \in Jobs
      /\ db'.rows = [db.rows EXCEPT ![svc.job] = db'.rows[svc.job]]
      /\ db'.rows[svc.job] \in Entry /\ db'.rows[svc.job] # None
      /\ db'.rows[svc.job].idx = i /\ db'.rows[svc.job].status = status
      /\ db'.snaps = [db.snaps EXCEPT ![svc.job] = db'.snaps[svc.job]]
      /\ db'.snaps[svc.job] # None
      /\ db'.snaps[svc.job] = [project |-> svc.project, idx |-> i, code |-> svc.code]
  BY <1>1, Snapshots
<1>3. /\ svc' \in Service /\ svc'.job = j /\ svc'.idx = i /\ svc'.at = "idle"
      /\ svc'.project = svc.project /\ svc'.code = svc.code
  BY <1>1 DEF Service
<1>4. TypeOK'
  BY <1>2, <1>3 DEF SInv, TypeOK, Store, Service
<1>5. \A k \in Jobs : k # j => db'.rows[k] = db.rows[k] /\ db'.snaps[k] = db.snaps[k]
  BY <1>1, <1>2 DEF Store
<1>6. Unsaved'
  BY <1>2, <1>5 DEF SInv, Unsaved
<1>7. Serving'
  BY <1>1, <1>2, <1>3 DEF SInv, Serving
<1>8. Reported'
  BY <1>1, <1>2, <1>5 DEF SInv, Reported
<1>9. BoundariesAreDurable'
  <2>1. Resumed(j)' = [job |-> j, project |-> svc.project, idx |-> i, code |-> svc.code,
                       at |-> "idle"]
    BY <1>2, <1>3 DEF Resumed
  <2>2. svc' = [job |-> j, project |-> svc.project, idx |-> i, code |-> svc.code, at |-> "idle"]
    BY <1>1, <1>3 DEF Service
  <2> QED BY <1>3, <2>1, <2>2 DEF BoundariesAreDurable, Resumed
<1> QED BY <1>4, <1>6, <1>7, <1>8, <1>9 DEF SInv

LEMMA StoreStep == SInv /\ [Next]_storeVars => SInv'
<1> SUFFICES ASSUME SInv, [Next]_storeVars PROVE SInv'
  OBVIOUS
<1>t. /\ svc \in Service /\ db \in Store /\ disk \in [Jobs -> {"absent", "created", "reported"}]
      /\ imp \in [todo : SUBSET Jobs, project : Projects \cup {None},
                  on : Jobs \cup {None}, finished : BOOLEAN]
  BY DEF SInv, TypeOK, Service, Store
<1>1. CASE Start
  <2>1. svc' = [NoService EXCEPT !.at = "begun"] /\ UNCHANGED <<db, disk, imp>>
    BY <1>1 DEF Start
  <2>2. /\ svc' \in Service /\ svc'.job = None /\ svc'.idx = 0 /\ ~svc'.code /\ svc'.at = "begun"
    BY <2>1, Phases DEF NoService, Service
  <2>3. 0 \in 0 .. Last
    BY StoreAssumption
  <2> QED BY <2>1, <2>2, <2>3, ServiceStep DEF Serving, BoundariesAreDurable
<1>2. CASE Begin
  <2>1. svc' = [svc EXCEPT !.at = "begun"] /\ svc.job # None /\ svc.idx \in 0 .. Last
        /\ UNCHANGED <<db, disk, imp>>
    BY <1>2 DEF Begin
  <2>2. /\ svc' \in Service /\ svc'.job = svc.job /\ svc'.idx = svc.idx /\ svc'.code = svc.code
        /\ svc'.at = "begun" /\ svc'.project = svc.project
    BY <1>t, <2>1 DEF Service
  <2> QED BY <2>1, <2>2, ServiceStep DEF SInv, Serving, BoundariesAreDurable
<1>3. CASE CreateDirs
  <2>1. PICK j \in Jobs :
            /\ IF svc.job = None THEN disk[j] = "absent" ELSE j = svc.job
            /\ svc' = [svc EXCEPT !.job = j, !.at = "created"]
            /\ disk' = [disk EXCEPT ![j] = IF @ = "absent" THEN "created" ELSE @]
    BY <1>3 DEF CreateDirs
  <2>2. svc.at = "begun" /\ svc.idx = 0 /\ UNCHANGED <<db, imp>> /\ j # None
    BY <1>3, StoreAssumption DEF CreateDirs
  <2>3. /\ svc' \in Service /\ svc'.job = j /\ svc'.idx = 0 /\ svc'.at = "created"
    BY <1>t, <2>1, <2>2 DEF Service
  <2>4. /\ disk' \in [Jobs -> {"absent", "created", "reported"}]
        /\ \A k \in Jobs : disk'[k] = "reported" <=> disk[k] = "reported"
    BY <1>t, <2>1
  <2>5. 0 \in 0 .. Last
    BY StoreAssumption
  <2>6. TypeOK'
    BY <2>2, <2>3, <2>4 DEF SInv, TypeOK, Service
  <2>7. Unsaved' /\ Serving' /\ BoundariesAreDurable'
    BY <2>2, <2>3, <2>4, <2>5 DEF SInv, Unsaved, Serving, BoundariesAreDurable
  <2>8. Reported'
    BY <1>t, <2>2, <2>4 DEF SInv, Reported
  <2> QED BY <2>6, <2>7, <2>8 DEF SInv
<1>4. CASE StoreRow
  <2> DEFINE j == svc.job
  <2>1. /\ svc.at = "created" /\ svc' = [svc EXCEPT !.project = db.current, !.at = "ran"]
        /\ db' = Upserted(db, j, db.current, "running", 0) /\ UNCHANGED <<disk, imp>>
    BY <1>4 DEF StoreRow
  <2>2. j \in Jobs /\ db.current \in Projects /\ "running" \in Statuses /\ db.current # None
        /\ svc.idx \in 0 .. Last
    BY <1>t, <2>1, StoreAssumption DEF SInv, Serving, Service, Store, Statuses
  <2>3. /\ db' \in Store /\ db'.snaps = db.snaps
        /\ db'.rows = [db.rows EXCEPT ![j] = db'.rows[j]]
        /\ db'.rows[j] \in Entry /\ db'.rows[j] # None
        /\ db'.rows[j].idx = 0 /\ db'.rows[j].status = "running"
    <3>1. j \in Jobs /\ db.current \in Projects \cup {None} /\ 0 \in 0 .. Last + 1
      BY <2>2, Phases
    <3> HIDE DEF j
    <3>2. db' = Upserted(db, j, db.current, "running", 0)
      BY <2>1
    <3> QED BY <1>t, <2>2, <3>1, <3>2, Upserts
  <2>4. /\ svc' \in Service /\ svc'.job = j /\ svc'.idx = svc.idx /\ svc'.at = "ran"
        /\ svc'.project = db.current
    BY <1>t, <2>1, <2>2 DEF Service
  <2>5. svc.idx = 0
    BY <2>1 DEF SInv, Serving
  <2>6. TypeOK'
    BY <2>1, <2>3, <2>4 DEF SInv, TypeOK, Service, Store
  <2>7. \A k \in Jobs : k # j => db'.rows[k] = db.rows[k]
    BY <1>t, <2>3 DEF Store
  <2>8. Unsaved' /\ Serving' /\ BoundariesAreDurable'
    BY <2>1, <2>2, <2>3, <2>4, <2>5, <2>7, Phases
       DEF SInv, Unsaved, Serving, BoundariesAreDurable
  <2>9. Reported'
    BY <2>1, <2>3, <2>7, Phases DEF SInv, Reported
  <2> QED BY <2>6, <2>8, <2>9 DEF SInv
<1>5. CASE RunNode
  <2> DEFINE j == svc.job
  <2>1. /\ svc.at = "begun" /\ svc.idx \in 1 .. Last
        /\ svc' = [svc EXCEPT !.at = "ran", !.code = @ \/ svc.idx = Code]
        /\ disk' = [disk EXCEPT ![j] = IF svc.idx = Last THEN "reported" ELSE @]
        /\ UNCHANGED <<db, imp>>
    BY <1>5 DEF RunNode
  <2>2. svc.idx # 0 /\ svc.idx \in 0 .. Last
    BY <2>1, StoreAssumption
  <2>3. j \in Jobs /\ db.snaps[j] # None /\ svc.project # None
    BY <1>t, <2>2 DEF SInv, Serving, Service
  <2>4. /\ svc' \in Service /\ svc'.job = j /\ svc'.idx = svc.idx /\ svc'.at = "ran"
        /\ svc'.project = svc.project
    BY <1>t, <2>1 DEF Service
  <2>5. /\ disk' \in [Jobs -> {"absent", "created", "reported"}]
        /\ \A k \in Jobs : disk[k] = "reported" => disk'[k] = "reported"
        /\ \A k \in Jobs : disk'[k] = "reported" => disk[k] = "reported" \/ k = j
        /\ svc.idx = Last => disk'[j] = "reported"
    BY <1>t, <2>1, <2>3
  <2>6. TypeOK'
    BY <2>1, <2>4, <2>5 DEF SInv, TypeOK, Service
  <2>7. Unsaved' /\ Serving' /\ BoundariesAreDurable'
    BY <2>1, <2>2, <2>3, <2>4, <2>5, StoreAssumption
       DEF SInv, Unsaved, Serving, BoundariesAreDurable
  <2>8. Reported'
    BY <1>t, <2>1, <2>5 DEF SInv, Reported
  <2> QED BY <2>6, <2>7, <2>8 DEF SInv
<1>6. CASE PersistDone
  <2> DEFINE i == svc.idx + 1
             status == IF svc.idx = Last THEN "completed" ELSE "running"
  <2>1. /\ svc.at = "ran" /\ svc' = [svc EXCEPT !.idx = i, !.at = "idle"]
        /\ db' = SnapshotSaved(db, svc, status, i) /\ UNCHANGED <<disk, imp>>
    BY <1>6 DEF PersistDone
  <2>2. svc.idx \in 0 .. Last
    BY <2>1 DEF SInv, Serving
  <2>3. i \in 0 .. Last + 1 /\ i # 0 /\ (i = Last + 1 => svc.idx = Last)
    BY <2>2, Phases
  <2>4. status \in Statuses /\ (status = "completed" => svc.idx = Last)
    BY DEF Statuses
  <2> HIDE DEF i, status
  <2> QED BY <2>1, <2>3, <2>4, PhaseSaved
<1>7. CASE PersistStopped
  <2>1. /\ svc.at = "ran" /\ svc' = [svc EXCEPT !.at = "idle"] /\ svc.idx # 0
        /\ db' = SnapshotSaved(db, svc, "paused", svc.idx) /\ UNCHANGED <<disk, imp>>
    BY <1>7 DEF PersistStopped
  <2>2. svc.idx \in 0 .. Last /\ svc.idx \in 0 .. Last + 1 /\ svc.idx # Last + 1
    BY <1>t, <2>1, StoreAssumption DEF SInv, Serving
  <2>3. svc' = [svc EXCEPT !.idx = svc.idx, !.at = "idle"]
    BY <1>t, <2>1 DEF Service
  <2>4. "paused" \in Statuses
    BY DEF Statuses
  <2> QED BY <2>1, <2>2, <2>3, <2>4, PhaseSaved
<1>8. CASE Resume
  <2>1. PICK j \in Jobs : Known(j) /\ svc' = Resumed(j)
    BY <1>8 DEF Resume
  <2>2. UNCHANGED <<db, disk, imp>>
    BY <1>8 DEF Resume
  <2>3. /\ Resumed(j) \in Service /\ Resumed(j).at = "idle" /\ Resumed(j).job = j
        /\ Resumed(j).idx # 0 => Resumed(j).project # None /\ db.snaps[j] # None
    BY <2>1, Resumption DEF SInv
  <2>4. j # None /\ Resumed(j)' = Resumed(j)
    BY <2>2, StoreAssumption DEF Resumed
  <2> QED BY <2>1, <2>2, <2>3, <2>4, ServiceStep DEF Serving, BoundariesAreDurable
<1>9. CASE CreateProject \/ SwitchProject
  <2>1. PICK p \in Projects : \/ db' = [db EXCEPT !.projects = @ \cup {p}, !.current = p]
                             \/ db' = [db EXCEPT !.current = p]
    BY <1>t, <1>9 DEF CreateProject, SwitchProject, Store
  <2>2. UNCHANGED <<disk, svc, imp>>
    BY <1>9 DEF CreateProject, SwitchProject
  <2>3. db' \in Store /\ db'.rows = db.rows /\ db'.snaps = db.snaps
    <3>1. CASE db' = [db EXCEPT !.projects = @ \cup {p}, !.current = p]
      <4>1. db.projects \cup {p} \in SUBSET Projects
        BY <1>t DEF Store
      <4> QED BY <1>t, <3>1, <4>1 DEF Store
    <3>2. CASE db' = [db EXCEPT !.current = p]
      BY <1>t, <3>2 DEF Store
    <3> QED BY <2>1, <3>1, <3>2
  <2>4. TypeOK'
    BY <2>2, <2>3 DEF SInv, TypeOK, Store
  <2>5. \A j : Resumed(j)' = Resumed(j)
    BY <2>3 DEF Resumed
  <2> QED BY <2>2, <2>3, <2>4, <2>5 DEF SInv, Unsaved, Serving, Reported, BoundariesAreDurable
<1>10. CASE ImportStart \/ ImportRead \/ Crash
  <2>1. db' = db /\ disk' = disk /\ (svc' = svc \/ svc' = NoService)
    BY <1>10 DEF ImportStart, ImportRead, Crash
  <2>2. /\ imp' \in [todo : SUBSET Jobs, project : Projects \cup {None},
                     on : Jobs \cup {None}, finished : BOOLEAN]
        /\ imp'.on # None /\ imp'.finished => disk[imp'.on] = "reported"
    <3>1. CASE ImportStart
      <4>1. imp' = [NoImport EXCEPT !.todo = {j \in Jobs : disk[j] # "absent"},
                                    !.project = db.current]
        BY <3>1 DEF ImportStart
      <4>2. db.current \in Projects
        BY <1>t DEF Store
      <4> QED BY <4>1, <4>2 DEF NoImport
    <3>2. CASE ImportRead
      <4>1. PICK j \in imp.todo : imp' = [imp EXCEPT !.todo = @ \ {j}, !.on = j,
                                                    !.finished = disk[j] = "reported"]
        BY <3>2 DEF ImportRead
      <4>2. j \in Jobs
        BY <1>t
      <4> QED BY <1>t, <4>1, <4>2
    <3>3. CASE Crash
      BY <3>3 DEF Crash, NoImport
    <3> QED BY <1>10, <3>1, <3>2, <3>3
  <2>3. /\ NoService \in Service /\ NoService.job = None /\ NoService.idx = 0
        /\ ~NoService.code /\ NoService.at = "idle"
    BY Phases DEF NoService, Service
  <2>4. TypeOK'
    BY <1>t, <2>1, <2>2, <2>3 DEF SInv, TypeOK, Service
  <2>5. \A j : Resumed(j)' = Resumed(j)
    BY <2>1 DEF Resumed
  <2>6. Serving' /\ BoundariesAreDurable'
    BY <2>1, <2>3, <2>5 DEF SInv, Serving, BoundariesAreDurable
  <2> QED BY <2>1, <2>2, <2>4, <2>6 DEF SInv, Unsaved, Reported
<1>11. CASE ImportRow
  <2> DEFINE j == imp.on
  <2>1. j \in Jobs /\ imp.project \in Projects \cup {None} /\ UNCHANGED <<disk, svc>>
    BY <1>t, <1>11 DEF ImportRow
  <2>2. /\ db' \in Store /\ db'.snaps = db.snaps
        /\ db'.rows = [db.rows EXCEPT ![j] = db'.rows[j]]
        /\ db'.rows[j] \in Entry /\ db'.rows[j] # None
        /\ imp.finished => db'.rows[j].idx = Last + 1
        /\ ~imp.finished => db'.rows[j].idx = 0 /\ db'.rows[j].status = "paused"
    <3>1. "completed" \in Statuses /\ "paused" \in Statuses
      BY DEF Statuses
    <3>2. CASE imp.finished
      <4>1. db' = Upserted(db, j, imp.project, "completed", Last + 1)
        BY <1>11, <3>2 DEF ImportRow
      <4> QED BY <1>t, <2>1, <3>1, <3>2, <4>1, Upserts, Phases
    <3>3. CASE ~imp.finished
      <4>1. db' = Upserted(db, j, imp.project, "paused", 0)
        BY <1>11, <3>3 DEF ImportRow
      <4> QED BY <1>t, <2>1, <3>1, <3>3, <4>1, Upserts, Phases
    <3> QED BY <3>2, <3>3
  <2>3. /\ imp' \in [todo : SUBSET Jobs, project : Projects \cup {None},
                     on : Jobs \cup {None}, finished : BOOLEAN]
        /\ imp'.on = None
    <3>1. imp' = NoImport \/ imp' = [imp EXCEPT !.on = None]
      BY <1>11 DEF ImportRow
    <3>2. CASE imp' = NoImport
      BY <3>2 DEF NoImport
    <3>3. CASE imp' = [imp EXCEPT !.on = None]
      BY <1>t, <3>3
    <3> QED BY <3>1, <3>2, <3>3
  <2>4. imp.finished => disk[j] = "reported" /\ db.snaps[j] # None
    BY <2>1, <1>11 DEF SInv, Reported, Unsaved, ImportRow
  <2>5. \A k \in Jobs : k # j => db'.rows[k] = db.rows[k]
    BY <1>t, <2>2 DEF Store
  <2>6. TypeOK'
    BY <2>1, <2>2, <2>3 DEF SInv, TypeOK, Store
  <2>7. Unsaved' /\ Serving'
    BY <2>1, <2>2, <2>4, <2>5 DEF SInv, Unsaved, Serving
  <2>8. Reported'
    BY <2>1, <2>2, <2>3, <2>4, <2>5, Phases DEF SInv, Reported
  <2>9. BoundariesAreDurable'
    <3> SUFFICES ASSUME svc.at = "idle", svc.job # None PROVE Resumed(svc.job)' = svc
      BY <2>1 DEF BoundariesAreDurable, Resumed
    <3>1. Resumed(svc.job) = svc /\ svc.job \in Jobs
      BY <1>t DEF SInv, BoundariesAreDurable, Service
    <3>2. CASE db.snaps[svc.job] # None
      BY <2>1, <2>2, <3>1, <3>2 DEF Resumed
    <3>3. CASE db.snaps[svc.job] = None
      <4>1. svc.idx = 0
        BY <3>1, <3>3 DEF SInv, Serving
      <4>2. svc = [NoService EXCEPT !.job = svc.job, !.idx = db.rows[svc.job].idx]
        BY <3>1, <3>3 DEF Resumed
      <4>3. svc.idx = db.rows[svc.job].idx
        BY <4>2 DEF NoService
      <4>4. db'.rows[svc.job].idx = 0
        BY <2>2, <2>4, <2>5, <3>1, <3>3, <4>1, <4>3
      <4>5. Resumed(svc.job)' = [NoService EXCEPT !.job = svc.job, !.idx = 0]
        BY <2>1, <2>2, <3>3, <4>4 DEF Resumed
      <4> QED BY <4>1, <4>2, <4>3, <4>5
    <3> QED BY <3>2, <3>3
  <2> QED BY <2>6, <2>7, <2>8, <2>9 DEF SInv
<1>12. CASE UNCHANGED storeVars
  BY <1>12 DEF storeVars, SInv, TypeOK, Unsaved, Serving, Reported, BoundariesAreDurable, Resumed
<1> QED BY <1>1, <1>2, <1>3, <1>4, <1>5, <1>6, <1>7, <1>8, <1>9, <1>10, <1>11, <1>12
        DEF Next, Work, Import

-------------------------------------------------------------------------------
(* Revisions.                                                                     *)

Typed ==
    /\ code \in [Jobs -> Tree]
    /\ rev \in [Revs -> Revision \cup {None}]
    /\ op \in [at : {"idle", "reset", "copied", "patched", "copying"},
               rev : Revs \cup {None}, job : Jobs \cup {None},
               errors : BOOLEAN, left : SUBSET Files]

\* A whole revision: its project, with every entry of its patch written.
WholeOf(x, r) ==
    /\ x.base # Empty
    /\ x.ran # None => \A f \in Files : x.ran[f] # "skipped"
    /\ \A f \in Files : x.candidate[f] = IF x.ran # None /\ x.ran[f] = "written"
                                         THEN r ELSE x.base[f]

\* The run of a revision has marked it as running before it touches its directories, and
\* has noted an error by the time that it is not whole.
Running ==
    /\ op.at \in {"reset", "copied", "patched"} =>
          op.rev \in Revs /\ rev[op.rev] # None /\ rev[op.rev].status = "running"
    /\ op.at = "copied" =>
          /\ rev[op.rev].candidate = rev[op.rev].base
          /\ rev[op.rev].base = Empty => op.errors
    /\ op.at = "patched" /\ ~op.errors => WholeOf(rev[op.rev], op.rev)

\* An acceptance has put in place what it has not left to do.
Accepting ==
    op.at = "copying" =>
        /\ op.rev \in Revs /\ op.job \in Jobs /\ rev[op.rev] # None
        /\ \A f \in Files \ op.left : code[op.job][f] = rev[op.rev].candidate[f]

Whole == \A r \in Revs : rev[r] # None /\ rev[r].status = "completed" => WholeOf(rev[r], r)

IInv == SInv /\ Typed /\ Running /\ Accepting /\ Whole

LEMMA Idles == /\ Idle \in [at : {"idle", "reset", "copied", "patched", "copying"},
                           rev : Revs \cup {None}, job : Jobs \cup {None},
                           errors : BOOLEAN, left : SUBSET Files]
               /\ Idle.at = "idle" /\ Empty \in Tree /\ Generated \in Tree
BY DEF Idle, Empty, Generated, Tree

LEMMA RevInitOK == RevInit => IInv
<1> SUFFICES ASSUME RevInit PROVE IInv
  OBVIOUS
<1>1. Typed
  BY Idles DEF RevInit, Typed
<1>2. Running /\ Accepting
  BY Idles DEF RevInit, Running, Accepting
<1>3. Whole
  BY DEF RevInit, Whole
<1> QED BY <1>1, <1>2, <1>3, StoreInit DEF RevInit, IInv

\* Patching what a revision was copied from makes it whole, unless an error is noted.
LEMMA PatchedIsWhole ==
    ASSUME NEW x \in Revision, NEW y \in Revision, NEW r \in Revs,
           x.candidate = x.base, y.base = x.base, x.base # Empty, y.ran = x.patch,
           y.candidate = IF x.patch = None THEN x.candidate ELSE Patched(x.candidate, x.patch, r),
           x.patch # None => ~PatchErrors(x.patch)
    PROVE  WholeOf(y, r)
<1>1. CASE x.patch = None
  BY <1>1 DEF WholeOf
<1>2. CASE x.patch # None
  <2>1. PatchStatus(x.patch) = "applied" /\ \A f \in Files : x.patch[f] # "skipped"
    BY <1>2 DEF PatchErrors
  <2>2. y.candidate = [f \in Files |-> IF f \in Written(x.patch) THEN r ELSE x.base[f]]
    BY <1>2, <2>1 DEF Patched
  <2>3. \A f \in Files : y.candidate[f] = IF y.ran[f] = "written" THEN r ELSE y.base[f]
    BY <2>2 DEF Written
  <2> QED BY <1>2, <2>1, <2>3 DEF WholeOf
<1> QED BY <1>1, <1>2

LEMMA PatchedIsTree ==
    ASSUME NEW t \in Tree, NEW p, NEW r \in Revs PROVE Patched(t, p, r) \in Tree
BY DEF Patched, Tree

\* A step that changes one revision while no command is at work on one.
LEMMA OneRevision ==
    ASSUME IInv, op = Idle, UNCHANGED <<storeVars, code>>, NEW r \in Revs, NEW x \in Revision,
           rev' = [rev EXCEPT ![r] = x], x.status = "completed" => WholeOf(x, r),
           \/ op' = Idle
           \/ op' = [Idle EXCEPT !.at = "reset", !.rev = r] /\ x.status = "running"
    PROVE  IInv'
<1>1. SInv'
  BY DEF IInv, SInv, storeVars, TypeOK, Unsaved, Serving, Reported, BoundariesAreDurable, Resumed
<1>2. /\ op'.at \in {"idle", "reset"} /\ (op'.at = "reset" => op'.rev = r /\ x.status = "running")
      /\ op' \in [at : {"idle", "reset", "copied", "patched", "copying"},
                  rev : Revs \cup {None}, job : Jobs \cup {None},
                  errors : BOOLEAN, left : SUBSET Files]
  BY Idles DEF Idle
<1>3. rev'[r] = x /\ x # None /\ (\A q \in Revs : q # r => rev'[q] = rev[q])
      /\ rev' \in [Revs -> Revision \cup {None}]
  BY NoneIsNoRevision DEF IInv, Typed
<1>4. Typed'
  BY <1>2, <1>3 DEF IInv, Typed
<1>5. Running' /\ Accepting'
  BY <1>2, <1>3 DEF Running, Accepting
<1>6. Whole'
  BY <1>3 DEF IInv, Whole
<1> QED BY <1>1, <1>4, <1>5, <1>6 DEF IInv

\* A step of a run in hand: it changes the revision it is about, and how far it is.
LEMMA RunGoesOn ==
    ASSUME IInv, op.at \in {"reset", "copied", "patched"}, UNCHANGED <<storeVars, code>>,
           NEW x \in Revision, rev' = [rev EXCEPT ![op.rev] = x],
           x.status = "completed" => WholeOf(x, op.rev),
           op' \in [at : {"idle", "copied", "patched"}, rev : {op.rev, None},
                    job : Jobs \cup {None}, errors : BOOLEAN, left : SUBSET Files],
           op'.at # "idle" => op'.rev = op.rev /\ x.status = "running",
           op'.at = "copied" => x.candidate = x.base /\ (x.base = Empty => op'.errors),
           op'.at = "patched" /\ ~op'.errors => WholeOf(x, op.rev)
    PROVE  IInv'
<1>1. SInv'
  BY DEF IInv, SInv, storeVars, TypeOK, Unsaved, Serving, Reported, BoundariesAreDurable, Resumed
<1>2. op.rev \in Revs
  BY DEF IInv, Running
<1>3. /\ rev'[op.rev] = x /\ x # None /\ (\A q \in Revs : q # op.rev => rev'[q] = rev[q])
      /\ rev' \in [Revs -> Revision \cup {None}]
  BY <1>2, NoneIsNoRevision DEF IInv, Typed
<1>4. Typed'
  BY <1>2, <1>3 DEF IInv, Typed
<1>5. Accepting'
  BY DEF Accepting
<1>6. Running'
  BY <1>2, <1>3 DEF Running
<1>7. Whole'
  BY <1>2, <1>3 DEF IInv, Whole
<1> QED BY <1>1, <1>4, <1>5, <1>6, <1>7 DEF IInv

LEMMA RevStepOK == IInv /\ [RevNext]_vars => IInv'
<1> SUFFICES ASSUME IInv, [RevNext]_vars PROVE IInv'
  OBVIOUS
<1>t. /\ SInv /\ code \in [Jobs -> Tree] /\ rev \in [Revs -> Revision \cup {None}]
      /\ op \in [at : {"idle", "reset", "copied", "patched", "copying"},
                 rev : Revs \cup {None}, job : Jobs \cup {None},
                 errors : BOOLEAN, left : SUBSET Files]
      /\ svc \in Service
  BY DEF IInv, Typed, SInv, TypeOK, Service
<1>s. ASSUME UNCHANGED storeVars PROVE SInv'
  BY <1>t, <1>s DEF SInv, storeVars, TypeOK, Unsaved, Serving, Reported, BoundariesAreDurable,
                    Resumed
<1>1. CASE WorkflowStep
  <2>1. op = Idle /\ op' = Idle /\ rev' = rev /\ [Next]_storeVars
    BY <1>1 DEF WorkflowStep, Next, Work
  <2>2. SInv'
    BY <1>t, <2>1, StoreStep
  <2>3. code' \in [Jobs -> Tree]
    BY <1>1, <1>t, Idles DEF WorkflowStep
  <2>4. Typed'
    BY <1>t, <2>1, <2>3 DEF Typed
  <2> QED BY <2>1, <2>2, <2>4, Idles DEF IInv, Running, Accepting, Whole
<1>2. CASE Metadata \/ Dies
  <2>1. op' = Idle /\ rev' = rev /\ code' = code /\ [Next]_storeVars
    BY <1>2 DEF Metadata, Dies, Next
  <2>2. SInv'
    BY <1>t, <2>1, StoreStep
  <2>3. Typed'
    BY <1>t, <2>1, Idles DEF Typed
  <2> QED BY <2>1, <2>2, <2>3, Idles DEF IInv, Running, Accepting, Whole
<1>3. CASE CreateRevision
  <2> DEFINE x == [job |-> svc.job, status |-> "created", patch |-> None,
                   ran |-> None, base |-> Empty, candidate |-> Empty,
                   gate |-> "missing", judged |-> FALSE]
  <2>1. PICK r \in Revs : rev' = [rev EXCEPT ![r] = x]
    BY <1>3 DEF CreateRevision
  <2>2. svc.job \in Jobs /\ op = Idle /\ op' = Idle /\ UNCHANGED <<storeVars, code>>
    BY <1>t, <1>3 DEF CreateRevision, Free, Service
  <2>3. x \in Revision /\ x.status # "completed"
    BY <2>2, Idles DEF Revision
  <2> HIDE DEF x
  <2> QED BY <2>1, <2>2, <2>3, OneRevision
<1>4. CASE ProposePatch
  <2>1. PICK r \in Revs, p \in Patch : rev[r] # None /\ rev' = [rev EXCEPT ![r].patch = p]
    BY <1>4 DEF ProposePatch
  <2> DEFINE x == [rev[r] EXCEPT !.patch = p]
  <2>2. rev[r] \in Revision /\ rev' = [rev EXCEPT ![r] = x]
    BY <1>t, <2>1
  <2>3. /\ x \in Revision /\ x.status = rev[r].status /\ x.base = rev[r].base /\ x.ran = rev[r].ran
        /\ x.candidate = rev[r].candidate
    BY <2>2 DEF Revision
  <2>4. op = Idle /\ op' = Idle /\ UNCHANGED <<storeVars, code>>
    BY <1>4 DEF ProposePatch, Free
  <2> HIDE DEF x
  <2>5. x.status = "completed" => WholeOf(x, r)
    BY <2>1, <2>3 DEF IInv, Whole, WholeOf
  <2> QED BY <2>2, <2>3, <2>4, <2>5, OneRevision
<1>5. CASE RunBegin
  <2>1. PICK r \in Revs :
            /\ rev[r] # None
            /\ rev' = [rev EXCEPT ![r].status = "running", ![r].base = Empty,
                                  ![r].candidate = Empty, ![r].judged = FALSE]
            /\ op' = [Idle EXCEPT !.at = "reset", !.rev = r]
    BY <1>5 DEF RunBegin
  <2> DEFINE x == [rev[r] EXCEPT !.status = "running", !.base = Empty,
                                 !.candidate = Empty, !.judged = FALSE]
  <2>2. rev[r] \in Revision /\ rev' = [rev EXCEPT ![r] = x]
    BY <1>t, <2>1
  <2>3. x \in Revision /\ x.status = "running"
    BY <2>2, Idles DEF Revision
  <2>4. op = Idle /\ UNCHANGED <<storeVars, code>>
    BY <1>5 DEF RunBegin, Free
  <2> HIDE DEF x
  <2> QED BY <2>1, <2>2, <2>3, <2>4, OneRevision
<1>6. CASE RunCopy
  <2> DEFINE r == op.rev
             t == code[rev[r].job]
             x == [rev[r] EXCEPT !.base = t, !.candidate = t]
  <2>1. /\ op.at = "reset" /\ rev' = [rev EXCEPT ![r].base = t, ![r].candidate = t]
        /\ op' = [op EXCEPT !.at = "copied", !.errors = t = Empty]
        /\ UNCHANGED <<storeVars, code>>
    BY <1>6 DEF RunCopy
  <2>2. r \in Revs /\ rev[r] # None /\ rev[r].status = "running"
    BY <2>1 DEF IInv, Running
  <2>3. rev[r] \in Revision /\ rev' = [rev EXCEPT ![r] = x]
    BY <1>t, <2>1, <2>2
  <2>4. t \in Tree
    BY <1>t, <2>3 DEF Revision
  <2> HIDE DEF t
  <2>5. x \in Revision /\ x.status = "running" /\ x.base = t /\ x.candidate = t
    BY <2>2, <2>3, <2>4 DEF Revision
  <2>6. /\ op' \in [at : {"idle", "copied", "patched"}, rev : {op.rev, None},
                    job : Jobs \cup {None}, errors : BOOLEAN, left : SUBSET Files]
        /\ op'.at = "copied" /\ op'.rev = op.rev /\ (t = Empty => op'.errors)
    BY <1>t, <2>1
  <2> HIDE DEF x
  <2> QED BY <2>1, <2>3, <2>5, <2>6, RunGoesOn
<1>7. CASE RunPatch
  <2> DEFINE r == op.rev
             p == rev[r].patch
             c == IF p = None THEN rev[r].candidate ELSE Patched(rev[r].candidate, p, r)
             x == [rev[r] EXCEPT !.ran = p, !.candidate = c]
  <2>1. /\ op.at = "copied"
        /\ rev' = [rev EXCEPT ![r].ran = p,
                              ![r].candidate = IF p = None THEN @ ELSE Patched(@, p, r)]
        /\ op' = [op EXCEPT !.at = "patched", !.errors = @ \/ (p # None /\ PatchErrors(p))]
        /\ UNCHANGED <<storeVars, code>>
    BY <1>7 DEF RunPatch
  <2>2. /\ r \in Revs /\ rev[r] # None /\ rev[r].status = "running"
        /\ rev[r].candidate = rev[r].base /\ (rev[r].base = Empty => op.errors)
    BY <2>1 DEF IInv, Running
  <2>3. rev[r] \in Revision /\ rev' = [rev EXCEPT ![r] = x]
    BY <1>t, <2>1, <2>2
  <2>4. p \in Patch \cup {None} /\ c \in Tree
    BY <2>2, <2>3, PatchedIsTree DEF Revision
  <2> HIDE DEF p, c
  <2>5. /\ x \in Revision /\ x.status = "running" /\ x.base = rev[r].base /\ x.candidate = c
        /\ x.ran = p
    BY <2>2, <2>3, <2>4 DEF Revision
  <2>6. /\ op' \in [at : {"idle", "copied", "patched"}, rev : {op.rev, None},
                    job : Jobs \cup {None}, errors : BOOLEAN, left : SUBSET Files]
        /\ op'.at = "patched" /\ op'.rev = op.rev
        /\ op'.errors = (op.errors \/ (p # None /\ PatchErrors(p)))
    <3>1. PatchErrors(p) \in BOOLEAN
      BY DEF PatchErrors
    <3> QED BY <1>t, <2>1, <3>1
  <2> HIDE DEF x
  <2>7. ~op'.errors => WholeOf(x, r)
    BY <2>2, <2>3, <2>5, <2>6, PatchedIsWhole DEF p, c
  <2> QED BY <2>1, <2>3, <2>5, <2>6, <2>7, RunGoesOn
<1>8. CASE RunEnd
  <2> DEFINE r == op.rev
             s == IF op.errors THEN "failed" ELSE "completed"
             x == [rev[r] EXCEPT !.status = s]
  <2>1. /\ op.at = "patched" /\ rev' = [rev EXCEPT ![r].status = s]
        /\ op' = Idle /\ UNCHANGED <<storeVars, code>>
    BY <1>8 DEF RunEnd
  <2>2. /\ r \in Revs /\ rev[r] # None /\ (~op.errors => WholeOf(rev[r], r))
    BY <2>1 DEF IInv, Running
  <2>3. rev[r] \in Revision /\ rev' = [rev EXCEPT ![r] = x]
    BY <1>t, <2>1, <2>2
  <2>4. /\ x \in Revision /\ x.status = s /\ x.base = rev[r].base /\ x.ran = rev[r].ran
        /\ x.candidate = rev[r].candidate
    BY <2>3 DEF Revision
  <2>5. op' \in [at : {"idle", "copied", "patched"}, rev : {op.rev, None},
                 job : Jobs \cup {None}, errors : BOOLEAN, left : SUBSET Files]
        /\ op'.at = "idle"
    BY <2>1 DEF Idle
  <2>6. x.status = "completed" => WholeOf(x, r)
    BY <2>2, <2>4 DEF WholeOf
  <2> HIDE DEF x, s
  <2> QED BY <2>1, <2>3, <2>4, <2>5, <2>6, RunGoesOn
<1>9. CASE Judge
  <2>1. PICK r \in Revs, verdict \in {"passed", "refused"} :
            rev[r] # None /\ rev' = [rev EXCEPT ![r].gate = verdict, ![r].judged = TRUE]
    BY <1>9 DEF Judge
  <2> DEFINE x == [rev[r] EXCEPT !.gate = verdict, !.judged = TRUE]
  <2>2. rev[r] \in Revision /\ rev' = [rev EXCEPT ![r] = x]
    BY <1>t, <2>1
  <2>3. /\ x \in Revision /\ x.status = rev[r].status /\ x.base = rev[r].base /\ x.ran = rev[r].ran
        /\ x.candidate = rev[r].candidate
    BY <2>2 DEF Revision
  <2>4. op = Idle /\ op' = Idle /\ UNCHANGED <<storeVars, code>>
    BY <1>9 DEF Judge, Free
  <2> HIDE DEF x
  <2>5. x.status = "completed" => WholeOf(x, r)
    BY <2>1, <2>3 DEF IInv, Whole, WholeOf
  <2> QED BY <2>2, <2>3, <2>4, <2>5, OneRevision
<1>10. CASE AcceptBegin
  <2>1. PICK r \in Revs : /\ Acceptable(r)
                          /\ op' = [Idle EXCEPT !.at = "copying", !.rev = r, !.job = svc.job,
                                                !.left = Files]
    BY <1>10 DEF AcceptBegin
  <2>2. /\ svc.code /\ code' = [code EXCEPT ![svc.job] = Empty] /\ rev' = rev
        /\ UNCHANGED storeVars
    BY <1>10 DEF AcceptBegin
  <2>3. svc.job \in Jobs /\ rev[r] # None
    BY <1>t, <2>1, <2>2 DEF SInv, Serving, Service, Acceptable
  <2>4. code' \in [Jobs -> Tree]
    BY <1>t, <2>2, <2>3, Idles
  <2>5. /\ op'.at = "copying" /\ op'.rev = r /\ op'.job = svc.job /\ op'.left = Files
        /\ op' \in [at : {"idle", "reset", "copied", "patched", "copying"},
                    rev : Revs \cup {None}, job : Jobs \cup {None},
                    errors : BOOLEAN, left : SUBSET Files]
    BY <2>1, <2>3 DEF Idle
  <2>6. Accepting' /\ Running'
    BY <2>2, <2>3, <2>5 DEF Accepting, Running
  <2> QED BY <1>t, <1>s, <2>2, <2>4, <2>5, <2>6 DEF IInv, Typed, Whole
<1>11. CASE AcceptCopy
  <2>1. PICK f \in op.left :
            /\ code' = [code EXCEPT ![op.job][f] = rev[op.rev].candidate[f]]
            /\ op' = [op EXCEPT !.left = @ \ {f}]
    BY <1>11 DEF AcceptCopy
  <2>2. op.at = "copying" /\ rev' = rev /\ UNCHANGED storeVars
    BY <1>11 DEF AcceptCopy
  <2>3. /\ op.rev \in Revs /\ op.job \in Jobs /\ rev[op.rev] # None /\ f \in Files
        /\ \A g \in Files \ op.left : code[op.job][g] = rev[op.rev].candidate[g]
    BY <1>t, <2>2 DEF IInv, Accepting
  <2>4. rev[op.rev].candidate \in Tree /\ code[op.job] \in Tree
    BY <1>t, <2>3 DEF Revision
  <2>5. /\ op'.at = "copying" /\ op'.rev = op.rev /\ op'.job = op.job /\ op'.left = op.left \ {f}
        /\ op' \in [at : {"idle", "reset", "copied", "patched", "copying"},
                    rev : Revs \cup {None}, job : Jobs \cup {None},
                    errors : BOOLEAN, left : SUBSET Files]
    BY <1>t, <2>1, <2>2
  <2> DEFINE t == [code[op.job] EXCEPT ![f] = rev[op.rev].candidate[f]]
  <2>6. t \in Tree /\ t[f] = rev[op.rev].candidate[f]
        /\ \A g \in Files : g # f => t[g] = code[op.job][g]
    BY <2>3, <2>4 DEF Tree
  <2>7. code' = [code EXCEPT ![op.job] = t]
    BY <1>t, <2>1, <2>3
  <2> HIDE DEF t
  <2>8. code' \in [Jobs -> Tree] /\ code'[op.job] = t
    BY <1>t, <2>3, <2>6, <2>7
  <2>9. Accepting' /\ Running'
    BY <2>2, <2>3, <2>5, <2>6, <2>8 DEF Accepting, Running
  <2> QED BY <1>t, <1>s, <2>2, <2>5, <2>8, <2>9 DEF IInv, Typed, Whole
<1>12. CASE AcceptEnd
  <2>1. op' = Idle /\ rev' = rev /\ code' = code /\ UNCHANGED storeVars
    BY <1>12 DEF AcceptEnd
  <2> QED BY <1>t, <1>s, <2>1, Idles DEF IInv, Typed, Running, Accepting, Whole
<1>13. CASE UNCHANGED vars
  <2>1. UNCHANGED <<storeVars, code, rev, op>>
    BY <1>13 DEF vars, storeVars
  <2> QED BY <1>s, <2>1 DEF IInv, Typed, Running, Accepting, Whole
<1> QED BY <1>1, <1>2, <1>3, <1>4, <1>5, <1>6, <1>7, <1>8, <1>9, <1>10, <1>11, <1>12, <1>13
        DEF RevNext, RunRevision, AcceptRevision

-------------------------------------------------------------------------------
\* Whatever dies in between, and whoever imports or switches projects meanwhile: a job is
\* taken up exactly where it was, and is finished only if its report was written.
THEOREM WhatIsResumedIsTrue == RevSpec => []ResumedIsTrue
<1>1. SInv => ResumedIsTrue
  <2> SUFFICES ASSUME SInv PROVE FinishedIsReported
    BY DEF SInv, ResumedIsTrue
  <2> SUFFICES ASSUME NEW j \in Jobs, Known(j),
                      Resumed(j).idx = Last + 1 \/ db.rows[j].status = "completed"
               PROVE  disk[j] = "reported"
    BY DEF FinishedIsReported
  <2>1. db.rows[j] # None
    BY DEF Known
  <2>2. CASE db.rows[j].status = "completed"
    BY <2>1, <2>2 DEF SInv, Reported
  <2>3. CASE Resumed(j).idx = Last + 1 /\ db.snaps[j] # None
    <3>1. Resumed(j).idx = db.snaps[j].idx
      BY <2>3 DEF Resumed
    <3> QED BY <2>3, <3>1 DEF SInv, Reported
  <2>4. CASE Resumed(j).idx = Last + 1 /\ db.snaps[j] = None
    <3>1. Resumed(j).idx = db.rows[j].idx
      BY <2>4 DEF Resumed, NoService
    <3> QED BY <2>1, <2>4, <3>1 DEF SInv, Reported
  <2> QED BY <2>2, <2>3, <2>4
<1>2. IInv => SInv
  BY DEF IInv
<1> QED BY <1>1, <1>2, RevInitOK, RevStepOK, PTL DEF RevSpec

\* A revision that says it is completed has been copied and patched to the last entry.
THEOREM CompletedRevisions == RevSpec => []CompletedIsWhole
<1>1. IInv => CompletedIsWhole
  BY DEF IInv, Whole, WholeOf, CompletedIsWhole
<1> QED BY <1>1, RevInitOK, RevStepOK, PTL DEF RevSpec

\* An acceptance that comes to its end leaves the candidate and nothing of what was there.
THEOREM AcceptedRevisions == RevSpec => AcceptedIsTheCandidate
<1>1. IInv /\ [RevNext]_vars => [AcceptEnd => code[op.job] = rev[op.rev].candidate]_vars
  <2> SUFFICES ASSUME IInv, AcceptEnd PROVE code[op.job] = rev[op.rev].candidate
    OBVIOUS
  <2>1. /\ op.rev \in Revs /\ op.job \in Jobs /\ rev[op.rev] # None
        /\ \A f \in Files : code[op.job][f] = rev[op.rev].candidate[f]
    BY DEF IInv, Accepting, AcceptEnd
  <2>2. code[op.job] \in Tree /\ rev[op.rev].candidate \in Tree
    BY <2>1 DEF IInv, Typed, Revision
  <2> QED BY <2>1, <2>2 DEF Tree
<1> QED BY <1>1, RevInitOK, RevStepOK, PTL DEF RevSpec, AcceptedIsTheCandidate
===============================================================================
