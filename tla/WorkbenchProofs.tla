---------------------------- MODULE WorkbenchProofs ----------------------------
(* For any number of jobs, workers and phases, and commands at any moment: a job *)
(* that no command takes up or steps beside a worker never holds another job's    *)
(* results or a skipped phase, no work goes on past its decision, and there is    *)
(* one worker at most.  The invariant says where each thread stands in the active *)
(* job, as long as that job is not crossed.                                       *)
EXTENDS Workbench, WellFoundedInduction, TLAPS

\* A job's state w is in order: its completed phases are those before its index,
\* each done for job j, no result is another job's, and a pending decision holds it
\* at code generation.
InOrder(w, j) ==
    /\ \A p \in Phases : p \in w.done <=> p < w.idx
    /\ \A p \in w.done : w.made[p] = j
    /\ \A p \in Phases : w.made[p] \in {j, None}
    /\ w.ask = "pending" => w.idx = Codegen

\* A thread in a phase is in the active job's current one.
InPlace(t) ==
    /\ th[t].pc \in {"node", "merged"} => th[t].phase = svc.work.idx
    /\ th[t].pc = "node" => th[t].on = svc.job
    /\ th[t].pc = "merged" => svc.job # None /\ svc.work.made[svc.work.idx] = svc.job
    /\ th[t].pc = "check" /\ svc.work.ask = "pending" => th[t].phase = Codegen

Alone == \A t, u \in Threads : AtWork(t) /\ AtWork(u) => t = u

\* The active job, if no command ever crossed it: one thread at most works on it.
Orderly ==
    /\ InOrder(svc.work, svc.job)
    /\ svc.job = None => svc.work.idx = 0
    /\ Alone
    /\ \A t \in Threads : InPlace(t)

StoredInOrder == \A j \in Jobs \ crossed : stored[j] # None => InOrder(stored[j], j)

IInv ==
    /\ TypeOK
    /\ OneWorker
    /\ svc.job \notin crossed => Orderly
    /\ StoredInOrder

-------------------------------------------------------------------------------
\* A set of phases that is not empty has a last one: the least distance from Last.
LEMMA LastPhase ==
    ASSUME NEW S \in SUBSET Phases, S # {}
    PROVE  \E p \in S : \A q \in S : q <= p
<1>0. Last \in Nat /\ S \subseteq 0 .. Last
  BY WorkbenchAssumption DEF Phases
<1> DEFINE D == {Last - p : p \in S}
<1>1. D \subseteq Nat /\ D # {}
  <2>1. \A p \in S : Last - p \in Nat
    BY <1>0
  <2>2. PICK p \in S : TRUE
    OBVIOUS
  <2>3. Last - p \in D
    OBVIOUS
  <2> QED BY <2>1, <2>3
<1>2. PICK d \in D : \A e \in D : ~(<<e, d>> \in OpToRel(<, Nat))
  BY <1>1, WFMin, NatLessThanWellFounded
<1>3. PICK p \in S : d = Last - p
  OBVIOUS
<1>4. ASSUME NEW q \in S PROVE q <= p
  <2>1. Last - q \in D /\ Last - q \in Nat /\ d \in Nat
    BY <1>1
  <2>2. ~(Last - q < d)
    BY <1>2, <2>1 DEF OpToRel
  <2> QED BY <1>0, <1>3, <2>2
<1> QED BY <1>4

\* Whatever was stored, what is taken up is a state of the service.
LEMMA LoadTyped ==
    ASSUME TypeOK, NEW j \in Jobs, stored[j] # None
    PROVE  /\ Load(j) \in [job : Jobs \cup {None}, work : Progress]
           /\ Load(j).job = j
<1>1. stored[j] \in Progress
  BY DEF TypeOK
<1> DEFINE later == \E p \in stored[j].done : p >= stored[j].idx
<1> DEFINE n == IF later THEN 1 + CHOOSE p \in stored[j].done : \A q \in stored[j].done : q <= p
                ELSE stored[j].idx
<1>2. n \in 0 .. Last + 1
  <2>1. CASE ~later
    BY <1>1, <2>1 DEF Progress
  <2>2. CASE later
    <3>1. stored[j].done \in SUBSET Phases /\ stored[j].done # {}
      BY <1>1, <2>2 DEF Progress
    <3>2. \E p \in stored[j].done : \A q \in stored[j].done : q <= p
      BY <3>1, LastPhase
    <3>3. (CHOOSE p \in stored[j].done : \A q \in stored[j].done : q <= p) \in Phases
      BY <3>1, <3>2
    <3> QED BY <2>2, <3>3, WorkbenchAssumption DEF Phases
  <2> QED BY <2>1, <2>2
<1>3. Restored(stored[j]) = [stored[j] EXCEPT !.idx = n]
  BY <1>1 DEF Restored, Progress
<1> HIDE DEF n
<1>4. Restored(stored[j]) \in Progress
  BY <1>1, <1>2, <1>3 DEF Progress
<1> QED BY <1>4 DEF Load

LEMMA SelectedTyped ==
    ASSUME TypeOK, NEW s \in Selected
    PROVE  s \in [job : Jobs \cup {None}, work : Progress]
<1>1. CASE s = svc
  BY <1>1 DEF TypeOK
<1>2. CASE s \in Named
  BY <1>2, LoadTyped DEF Named
<1> QED BY <1>1, <1>2 DEF Selected

\* A snapshot that is in order is restored as it is.
LEMMA RestoredInOrder ==
    ASSUME IInv, NEW j \in Jobs \ crossed, stored[j] # None
    PROVE  Load(j) = [job |-> j, work |-> stored[j]] /\ InOrder(stored[j], j)
<1>1. stored[j] \in Progress /\ InOrder(stored[j], j)
  BY DEF IInv, TypeOK, StoredInOrder
<1>2. ~ \E p \in stored[j].done : p >= stored[j].idx
  BY <1>1, WorkbenchAssumption DEF InOrder, Progress, Phases
<1>3. Restored(stored[j]) = [stored[j] EXCEPT !.idx = stored[j].idx]
  BY <1>2 DEF Restored
<1>4. [stored[j] EXCEPT !.idx = stored[j].idx] = stored[j]
  BY <1>1 DEF Progress
<1> QED BY <1>1, <1>3, <1>4 DEF Load

\* A job that a command takes up without crossing it has no thread at work on it.
LEMMA TakenUpAlone ==
    ASSUME IInv, Command, NEW j \in Jobs \cup {None}, TakenUp(j)
    PROVE  /\ crossed' \subseteq Jobs \cup {None}
           /\ Jobs \ crossed' \subseteq Jobs \ crossed
           /\ j \notin crossed' => /\ \A t \in Threads : ~AtWork(t)
                                   /\ j # None => j \notin crossed
<1>1. crossed \subseteq Jobs \cup {None} /\ None \notin Jobs
  BY WorkbenchAssumption DEF IInv, TypeOK
<1>2. ~AtWork("request")
  BY DEF Command, Alive, AtWork
<1>3. j \notin crossed' => \A w \in Workers : ~AtWork(w)
  BY DEF TakenUp
<1> QED BY <1>1, <1>2, <1>3 DEF TakenUp, Threads

\* What a decision is about: the state in memory, or one that is in order and that no
\* thread works on.
LEMMA DecidedInOrder ==
    ASSUME IInv, Command, NEW s \in Selected, Decided(s)
    PROVE  /\ crossed' \subseteq Jobs \cup {None}
           /\ Jobs \ crossed' \subseteq Jobs \ crossed
           /\ s.job \notin crossed' =>
                 /\ InOrder(s.work, s.job)
                 /\ s.job = None => s.work.idx = 0
                 /\ s = svc => svc.job \notin crossed
                 /\ s # svc => \A t \in Threads : ~AtWork(t)
<1>1. CASE s = svc
  BY <1>1 DEF IInv, TypeOK, Decided, Orderly
<1>2. CASE s # svc
  <2>1. PICK j \in Jobs : stored[j] # None /\ s = Load(j)
    BY <1>2 DEF Selected, Named
  <2>2. s.job = j /\ j # None /\ TakenUp(j)
    BY <1>2, <2>1, LoadTyped, WorkbenchAssumption DEF IInv, Decided
  <2>3. /\ crossed' \subseteq Jobs \cup {None} /\ Jobs \ crossed' \subseteq Jobs \ crossed
        /\ j \notin crossed' => j \notin crossed /\ \A t \in Threads : ~AtWork(t)
    BY <2>2, TakenUpAlone
  <2>4. j \notin crossed' => InOrder(s.work, s.job)
    <3>1. SUFFICES ASSUME j \notin crossed PROVE InOrder(s.work, s.job)
      BY <2>3
    <3>2. s = [job |-> j, work |-> stored[j]] /\ InOrder(stored[j], j)
      BY <2>1, <3>1, RestoredInOrder
    <3> QED BY <3>2
  <2> QED BY <1>2, <2>2, <2>3, <2>4
<1> QED BY <1>1, <1>2

-------------------------------------------------------------------------------
LEMMA InitIInv == Init => IInv
<1> SUFFICES ASSUME Init PROVE IInv
  OBVIOUS
<1>1. Fresh \in Progress
  BY WorkbenchAssumption DEF Fresh, Progress, Phases
<1>2. IdleThread \in Thread
  BY WorkbenchAssumption DEF IdleThread, Thread, Phases
<1>3. TypeOK
  BY <1>1, <1>2 DEF Init, TypeOK
<1>4. InOrder(Fresh, None)
  BY WorkbenchAssumption DEF InOrder, Fresh, Phases
<1>5. \A t \in Threads : th[t].pc = "idle"
  BY DEF Init, IdleThread
<1>6. Alone /\ \A t \in Threads : InPlace(t)
  BY <1>5 DEF Alone, InPlace, AtWork
<1>7. OneWorker
  BY <1>5 DEF OneWorker, Alive, Threads
<1> QED
  BY <1>3, <1>4, <1>6, <1>7 DEF IInv, Orderly, StoredInOrder, Init, Fresh

\* A step of a running thread starts no other.
LEMMA ThreadMoves ==
    ASSUME IInv, NEW t \in Threads, Alive(t), NEW r \in Thread,
           th' = [th EXCEPT ![t] = r], UNCHANGED handle
    PROVE  th' \in [Threads -> Thread] /\ OneWorker'
<1>1. th \in [Threads -> Thread]
  BY DEF IInv, TypeOK
<1>2. \A w \in Workers : w \in Threads /\ (w # t => th'[w] = th[w])
  BY <1>1 DEF Threads
<1> QED BY <1>1, <1>2 DEF IInv, OneWorker, Alive

\* The only thread at work on the active job keeps it in order if it stays in place.
LEMMA OnlyThreadMoves ==
    ASSUME IInv, Orderly, NEW t \in Threads, AtWork(t), NEW r \in Thread,
           th' = [th EXCEPT ![t] = r],
           r.pc \in {"node", "merged"} => r.phase = svc'.work.idx,
           r.pc = "node" => r.on = svc'.job,
           r.pc = "merged" => svc'.job # None /\ svc'.work.made[svc'.work.idx] = svc'.job,
           r.pc = "check" /\ svc'.work.ask = "pending" => r.phase = Codegen
    PROVE  Alone' /\ \A u \in Threads : InPlace(u)'
<1>1. th \in [Threads -> Thread]
  BY DEF IInv, TypeOK
<1>2. \A u \in Threads : u # t => th'[u] = th[u] /\ ~AtWork(u)
  BY <1>1 DEF Orderly, Alone
<1>3. th'[t] = r
  BY <1>1
<1>5. Alone'
  BY <1>2 DEF Alone, AtWork
<1>6. ASSUME NEW u \in Threads PROVE InPlace(u)'
  <2>1. CASE u = t
    BY <1>3, <2>1 DEF InPlace
  <2>2. CASE u # t
    BY <1>2, <2>2 DEF InPlace, AtWork
  <2> QED
    BY <2>1, <2>2
<1> QED
  BY <1>5, <1>6

\* Storing the active job's state keeps the snapshots in order.
LEMMA PersistInOrder ==
    ASSUME IInv, NEW w \in Progress, svc.job \notin crossed => InOrder(w, svc.job),
           Persist(w), UNCHANGED crossed
    PROVE  stored' \in [Jobs -> Progress \cup {None}] /\ StoredInOrder'
<1>1. stored \in [Jobs -> Progress \cup {None}] /\ svc.job \in Jobs \cup {None}
  BY DEF IInv, TypeOK
<1>2. CASE svc.job = None
  BY <1>1, <1>2 DEF Persist, IInv, StoredInOrder
<1>3. CASE svc.job \in Jobs
  <2>1. stored' = [stored EXCEPT ![svc.job] = w]
    BY <1>3, WorkbenchAssumption DEF Persist
  <2>2. \A j \in Jobs : stored'[j] = IF j = svc.job THEN w ELSE stored[j]
    BY <1>1, <2>1
  <2>3. stored' \in [Jobs -> Progress \cup {None}]
    BY <1>1, <2>1
  <2> QED
    BY <2>2, <2>3 DEF IInv, StoredInOrder
<1> QED
  BY <1>1, <1>2, <1>3

\* Leave takes the thread out of every phase.
LEMMA LeaveMoves ==
    ASSUME NEW t \in Threads
    PROVE  \E r \in Thread : /\ Leave(t) = [th EXCEPT ![t] = r]
                             /\ r.pc \in {"idle", "exit"}
<1>1. IdleThread \in Thread /\ IdleThread.pc = "idle"
  BY WorkbenchAssumption DEF IdleThread, Thread, Phases
<1>2. /\ [IdleThread EXCEPT !.pc = "exit"] \in Thread
      /\ [IdleThread EXCEPT !.pc = "exit"].pc = "exit"
  BY <1>1 DEF Thread
<1>3. CASE t = "request"
  <2>1. Leave(t) = [th EXCEPT ![t] = IdleThread]
    BY <1>3 DEF Leave
  <2> QED
    BY <1>1, <2>1
<1>4. CASE t # "request"
  <2>1. Leave(t) = [th EXCEPT ![t] = [IdleThread EXCEPT !.pc = "exit"]]
    BY <1>4 DEF Leave
  <2> QED
    BY <1>2, <2>1
<1> QED
  BY <1>3, <1>4

-------------------------------------------------------------------------------
(* One lemma per action of a thread.                                             *)

LEMMA PickPhaseKeeps ==
    ASSUME IInv, NEW t \in Threads, PickPhase(t)
    PROVE  IInv'
<1>1. th[t].pc = "top" /\ UNCHANGED <<svc, stored, handle, asked>>
  BY DEF PickPhase
<1>2. \E r \in Thread : /\ th' = [th EXCEPT ![t] = r]
                        /\ r.pc \in {"node", "idle", "exit"}
                        /\ r.pc = "node" => r.phase = svc.work.idx /\ r.on = svc.job
  <2>1. CASE svc.work.idx \in Phases
    <3>1. th[t] \in Thread /\ svc.job \in Jobs \cup {None}
      BY DEF IInv, TypeOK
    <3> DEFINE r == [th[t] EXCEPT !.pc = "node", !.phase = svc.work.idx, !.on = svc.job]
    <3>2. r \in Thread /\ r.pc = "node" /\ r.phase = svc.work.idx /\ r.on = svc.job
      BY <2>1, <3>1 DEF Thread
    <3>3. th' = [th EXCEPT ![t] = r]
      BY <2>1 DEF PickPhase
    <3> HIDE DEF r
    <3> QED BY <3>2, <3>3
  <2>2. CASE svc.work.idx \notin Phases
    BY <2>2, LeaveMoves DEF PickPhase
  <2> QED BY <2>1, <2>2
<1>3. PICK r \in Thread : /\ th' = [th EXCEPT ![t] = r]
                          /\ r.pc \in {"node", "idle", "exit"}
                          /\ r.pc = "node" => r.phase = svc.work.idx /\ r.on = svc.job
  BY <1>2
<1>4. th' \in [Threads -> Thread] /\ OneWorker'
  BY <1>1, <1>3, ThreadMoves DEF Alive
<1>5. TypeOK'
  BY <1>1, <1>4 DEF IInv, TypeOK, asked
<1>6. ASSUME Orderly PROVE Orderly'
  <2>1. Alone' /\ \A u \in Threads : InPlace(u)'
    BY <1>1, <1>3, <1>6, OnlyThreadMoves DEF AtWork
  <2> QED BY <1>1, <1>6, <2>1 DEF Orderly, InOrder
<1> QED
  BY <1>1, <1>4, <1>5, <1>6 DEF IInv, StoredInOrder, InOrder, asked

LEMMA CheckKeeps ==
    ASSUME IInv, NEW t \in Threads, Check(t)
    PROVE  IInv'
<1>1. th[t].pc = "check" /\ UNCHANGED <<svc, stored, handle, asked>>
  BY DEF Check
<1>2. IdleThread \in Thread
  BY WorkbenchAssumption DEF IdleThread, Thread, Phases
<1>3. Loop \in Thread /\ Loop.pc = "top"
  BY <1>2 DEF Loop, Thread
<1>4. PICK r \in Thread : th' = [th EXCEPT ![t] = r] /\ r.pc \in {"idle", "exit", "top"}
  <2>1. CASE Asks(th[t].phase)
    BY <2>1, LeaveMoves DEF Check
  <2>2. CASE ~Asks(th[t].phase)
    BY <2>2, <1>3 DEF Check
  <2> QED
    BY <2>1, <2>2
<1>5. th' \in [Threads -> Thread] /\ OneWorker'
  BY <1>1, <1>4, ThreadMoves DEF Alive
<1>6. TypeOK'
  BY <1>1, <1>5 DEF IInv, TypeOK, asked
<1>7. ASSUME Orderly PROVE Orderly'
  <2>1. Alone' /\ \A u \in Threads : InPlace(u)'
    BY <1>1, <1>4, <1>7, OnlyThreadMoves DEF AtWork
  <2> QED BY <1>1, <1>7, <2>1 DEF Orderly, InOrder
<1> QED
  BY <1>1, <1>5, <1>6, <1>7 DEF IInv, StoredInOrder, InOrder, asked

LEMMA ExitKeeps ==
    ASSUME IInv, NEW w \in Workers, Exit(w)
    PROVE  IInv'
<1>1. /\ w \in Threads /\ th[w].pc = "exit" /\ UNCHANGED <<svc, stored, asked>>
      /\ th' = [th EXCEPT ![w] = IdleThread]
      /\ handle' = IF handle = w THEN None ELSE handle
  BY DEF Exit, Threads
<1>2. IdleThread \in Thread /\ IdleThread.pc = "idle"
  BY WorkbenchAssumption DEF IdleThread, Thread, Phases
<1>3. th \in [Threads -> Thread]
  BY DEF IInv, TypeOK
<1>4. \A u \in Threads : th'[u] = IF u = w THEN IdleThread ELSE th[u]
  BY <1>1, <1>3
<1>5. TypeOK'
  BY <1>1, <1>2, <1>3 DEF IInv, TypeOK, asked
<1>6. OneWorker'
  BY <1>1, <1>2, <1>4 DEF IInv, OneWorker, Alive, Threads
<1>7. ASSUME Orderly PROVE Orderly'
  <2>1. Alone' /\ \A u \in Threads : InPlace(u)'
    BY <1>1, <1>2, <1>4, <1>7 DEF Orderly, Alone, InPlace, AtWork
  <2> QED BY <1>1, <1>7, <2>1 DEF Orderly, InOrder
<1> QED
  BY <1>1, <1>5, <1>6, <1>7 DEF IInv, StoredInOrder, InOrder, asked

\* A job's state after phase p was run for job j.
Made(w, p, j) == [w EXCEPT !.made[p] = j]

LEMMA MadeTyped ==
    ASSUME NEW w \in Progress, NEW p \in Phases, NEW j \in Jobs \cup {None}
    PROVE  /\ Made(w, p, j) \in Progress
           /\ \A q \in Phases : Made(w, p, j).made[q] = IF q = p THEN j ELSE w.made[q]
           /\ Made(w, p, j).idx = w.idx
           /\ Made(w, p, j).done = w.done
           /\ Made(w, p, j).ask = w.ask
<1>1. w.made \in [Phases -> Jobs \cup {None}]
  BY DEF Progress
<1>2. [w.made EXCEPT ![p] = j] \in [Phases -> Jobs \cup {None}]
  BY <1>1
<1>3. Made(w, p, j) \in Progress
  BY <1>2 DEF Progress, Made
<1>4. Made(w, p, j).made = [w.made EXCEPT ![p] = j]
  BY DEF Progress, Made
<1>5. \A q \in Phases : Made(w, p, j).made[q] = IF q = p THEN j ELSE w.made[q]
  BY <1>1, <1>4
<1>6. Made(w, p, j).idx = w.idx /\ Made(w, p, j).done = w.done /\ Made(w, p, j).ask = w.ask
  BY DEF Progress, Made
<1> QED
  BY <1>3, <1>5, <1>6

\* What merging the result of phase p, called with job j's state, makes of the
\* service's state s.
Merged(s, p, j, ask) ==
    [s EXCEPT !.work.made[p] = j, !.work.ask = IF p = Codegen THEN ask ELSE @]

LEMMA MergedTyped ==
    ASSUME NEW s \in [job : Jobs \cup {None}, work : Progress], NEW p \in Phases,
           NEW j \in Jobs \cup {None}, NEW ask \in {"none", "pending"}
    PROVE  /\ Merged(s, p, j, ask) \in [job : Jobs \cup {None}, work : Progress]
           /\ Merged(s, p, j, ask).job = s.job
           /\ \A q \in Phases : Merged(s, p, j, ask).work.made[q]
                                  = IF q = p THEN j ELSE s.work.made[q]
           /\ Merged(s, p, j, ask).work.idx = s.work.idx
           /\ Merged(s, p, j, ask).work.done = s.work.done
           /\ Merged(s, p, j, ask).work.ask = "pending" =>
                  p = Codegen \/ s.work.ask = "pending"
<1> DEFINE a == IF p = Codegen THEN ask ELSE s.work.ask
<1> DEFINE w == [s.work EXCEPT !.made[p] = j, !.ask = a]
<1>1. s.work \in Progress
  OBVIOUS
<1>2. [s.work.made EXCEPT ![p] = j] \in [Phases -> Jobs \cup {None}]
  BY <1>1 DEF Progress
<1>3. a \in {"none", "pending", "approved", "rejected"}
  BY <1>1 DEF Progress
<1>4. a = "pending" => p = Codegen \/ s.work.ask = "pending"
  OBVIOUS
<1>5. Merged(s, p, j, ask) = [s EXCEPT !.work = w]
  BY <1>1 DEF Merged, Progress
<1> HIDE DEF a
<1>6. w \in Progress
  BY <1>1, <1>2, <1>3 DEF Progress
<1>7. w.made = [s.work.made EXCEPT ![p] = j]
  BY <1>1 DEF Progress
<1>8. w.idx = s.work.idx /\ w.done = s.work.done /\ w.ask = a
  BY <1>1 DEF Progress
<1>9. \A q \in Phases : w.made[q] = IF q = p THEN j ELSE s.work.made[q]
  BY <1>1, <1>7 DEF Progress
<1> HIDE DEF w
<1>10. /\ [s EXCEPT !.work = w] \in [job : Jobs \cup {None}, work : Progress]
       /\ [s EXCEPT !.work = w].job = s.job
       /\ [s EXCEPT !.work = w].work = w
  BY <1>6
<1> HIDE DEF Merged
<1> QED
  BY <1>4, <1>5, <1>8, <1>9, <1>10

-------------------------------------------------------------------------------
\* A preparation that leaves its job uncrossed is that of the active job.
LEMMA PrepareKeeps ==
    ASSUME IInv, NEW t \in Threads, Prepare(t)
    PROVE  IInv'
<1>1. PICK j \in Jobs :
          /\ IF th[t].on = None THEN stored[j] = None ELSE j = th[t].on
          /\ svc' = [svc EXCEPT !.job = j, !.work.made[0] = j]
          /\ stored' = [stored EXCEPT ![j] = IF @ = None THEN Fresh ELSE @]
  BY DEF Prepare
<1>2. /\ th[t].pc = "node" /\ th[t].phase = 0 /\ 0 \in Phases /\ j # None
      /\ UNCHANGED <<handle, refused>>
      /\ crossed' = IF svc.job \in crossed THEN crossed \cup {svc'.job} ELSE crossed
  BY WorkbenchAssumption DEF Prepare, Phases
<1>3. svc.work \in Progress /\ svc.job \in Jobs \cup {None}
  BY DEF IInv, TypeOK
<1> DEFINE w == Made(svc.work, 0, j)
<1>4. w \in Progress /\ \A q \in Phases : w.made[q] = IF q = 0 THEN j ELSE svc.work.made[q]
  BY <1>2, <1>3, MadeTyped
<1>5. w.idx = svc.work.idx /\ w.done = svc.work.done /\ w.ask = svc.work.ask
  BY <1>2, <1>3, MadeTyped
<1>6. svc' = [job |-> j, work |-> w]
  BY <1>1 DEF IInv, TypeOK, Made
<1> HIDE DEF w
<1> DEFINE r == [th[t] EXCEPT !.pc = "merged"]
<1>7. r \in Thread /\ r.pc = "merged" /\ r.phase = 0 /\ th' = [th EXCEPT ![t] = r]
  <2>1. th[t] \in Thread
    BY DEF IInv, TypeOK
  <2>2. th' = [th EXCEPT ![t] = r]
    BY DEF Prepare, At
  <2> QED BY <1>2, <2>1, <2>2 DEF Thread
<1> HIDE DEF r
<1>8. th' \in [Threads -> Thread] /\ OneWorker'
  BY <1>2, <1>7, ThreadMoves DEF Alive
<1>9. stored' \in [Jobs -> Progress \cup {None}] /\ StoredInOrder'
  <2>1. \A i \in Jobs : Fresh \in Progress /\ InOrder(Fresh, i)
    BY WorkbenchAssumption DEF Fresh, Progress, Phases, InOrder
  <2>2. stored \in [Jobs -> Progress \cup {None}]
    BY DEF IInv, TypeOK
  <2>3. \A i \in Jobs : stored'[i] = IF i = j /\ stored[i] = None THEN Fresh ELSE stored[i]
    BY <1>1, <2>2
  <2>4. stored' \in [Jobs -> Progress \cup {None}]
    BY <1>1, <2>1, <2>2
  <2>5. Jobs \ crossed' \subseteq Jobs \ crossed
    BY <1>2
  <2> QED BY <2>1, <2>3, <2>4, <2>5 DEF IInv, StoredInOrder
<1>10. crossed' \subseteq Jobs \cup {None}
  BY <1>2, <1>6 DEF IInv, TypeOK
<1>11. TypeOK'
  BY <1>2, <1>4, <1>6, <1>8, <1>9, <1>10 DEF IInv, TypeOK
<1>12. ASSUME svc'.job \notin crossed' PROVE Orderly'
  <2>1. Orderly
    BY <1>2, <1>12 DEF IInv
  <2>2. svc.work.idx = 0 /\ th[t].on = svc.job
    BY <1>2, <2>1 DEF Orderly, InPlace
  <2>3. svc.work.done = {} /\ svc.work.ask # "pending"
    BY <1>3, <2>1, <2>2, WorkbenchAssumption DEF Orderly, InOrder, Phases, Progress
  <2>4. InOrder(w, j)
    BY <1>1, <1>2, <1>4, <1>5, <2>1, <2>2, <2>3 DEF Orderly, InOrder
  <2>5. Alone' /\ \A u \in Threads : InPlace(u)'
    BY <1>2, <1>4, <1>5, <1>6, <1>7, <2>1, <2>2, OnlyThreadMoves DEF AtWork
  <2> QED BY <1>2, <1>6, <2>4, <2>5 DEF Orderly
<1> QED
  BY <1>8, <1>9, <1>11, <1>12 DEF IInv

LEMMA MergeKeeps ==
    ASSUME IInv, NEW t \in Threads, Merge(t)
    PROVE  IInv'
<1> DEFINE p == th[t].phase
<1>1. /\ th[t] \in Thread /\ th[t].pc = "node" /\ p # 0 /\ p \in Phases
      /\ th[t].on \in Jobs \cup {None} /\ UNCHANGED <<stored, handle, asked>>
      /\ th' = [th EXCEPT ![t] = [th[t] EXCEPT !.pc = "merged"]]
  BY DEF Merge, IInv, TypeOK, Thread, At
<1>2. PICK ask \in {"none", "pending"} : svc' = Merged(svc, p, th[t].on, ask)
  BY DEF Merge, Merged
<1> DEFINE r == [th[t] EXCEPT !.pc = "merged"]
<1>3. r \in Thread /\ r.pc = "merged" /\ r.phase = p /\ th' = [th EXCEPT ![t] = r]
  BY <1>1 DEF Thread
<1> HIDE DEF p, r
<1>4. svc \in [job : Jobs \cup {None}, work : Progress]
  BY DEF IInv, TypeOK
<1>5. /\ svc' \in [job : Jobs \cup {None}, work : Progress]
      /\ svc'.job = svc.job
      /\ \A q \in Phases : svc'.work.made[q] = IF q = p THEN th[t].on ELSE svc.work.made[q]
      /\ svc'.work.idx = svc.work.idx
      /\ svc'.work.done = svc.work.done
      /\ svc'.work.ask = "pending" => p = Codegen \/ svc.work.ask = "pending"
  BY <1>1, <1>2, <1>4, MergedTyped
<1>6. th' \in [Threads -> Thread] /\ OneWorker'
  BY <1>1, <1>3, ThreadMoves DEF Alive
<1>7. TypeOK'
  BY <1>1, <1>5, <1>6 DEF IInv, TypeOK, asked
<1>8. ASSUME Orderly PROVE Orderly'
  <2>1. p = svc.work.idx /\ th[t].on = svc.job /\ svc.job # None
    BY <1>1, <1>8 DEF Orderly, InPlace, p
  <2>2. InOrder(svc'.work, svc'.job)
    BY <1>1, <1>4, <1>5, <1>8, <2>1 DEF Orderly, InOrder, Progress
  <2>3. /\ AtWork(t) /\ r.phase = svc'.work.idx /\ svc'.job # None
        /\ svc'.work.made[svc'.work.idx] = svc'.job
    BY <1>1, <1>3, <1>5, <2>1 DEF AtWork
  <2>4. Alone' /\ \A u \in Threads : InPlace(u)'
    BY <1>3, <1>8, <2>3, OnlyThreadMoves
  <2> QED BY <1>5, <2>1, <2>2, <2>4 DEF Orderly
<1>9. StoredInOrder'
  BY <1>1 DEF IInv, StoredInOrder, InOrder, asked
<1> QED
  BY <1>1, <1>5, <1>6, <1>7, <1>8, <1>9 DEF IInv, asked

LEMMA TickedTyped ==
    ASSUME TypeOK, NEW p \in Phases
    PROVE  /\ Ticked(p) \in Progress
           /\ Ticked(p).done = svc.work.done \cup {p}
           /\ Ticked(p).idx = p + 1
           /\ Ticked(p).made = svc.work.made
           /\ Ticked(p).ask = svc.work.ask
<1>1. svc.work \in Progress
  BY DEF TypeOK
<1>2. svc.work.done \cup {p} \in SUBSET Phases /\ p + 1 \in 0..Last + 1
  BY <1>1, WorkbenchAssumption DEF Progress, Phases
<1> QED BY <1>1, <1>2 DEF Ticked, Progress

\* A phase is ticked off only when no decision is awaited, and by the thread in it.
LEMMA TickedInOrder ==
    ASSUME TypeOK, Orderly, NEW p \in Phases, p = svc.work.idx, ~Asks(p),
           svc.work.made[p] = svc.job
    PROVE  InOrder(Ticked(p), svc.job)
<1>1. svc.work \in Progress /\ InOrder(svc.work, svc.job)
  BY DEF Orderly, TypeOK
<1>2. svc.work.ask # "pending"
  BY <1>1 DEF InOrder, Asks
<1>3. \A q \in Phases : q \in svc.work.done \cup {p} <=> q < p + 1
  BY <1>1, WorkbenchAssumption DEF InOrder, Phases
<1>4. /\ \A q \in Ticked(p).done : Ticked(p).made[q] = svc.job
      /\ \A q \in Phases : Ticked(p).made[q] \in {svc.job, None}
  BY <1>1, TickedTyped DEF InOrder
<1> QED
  BY <1>2, <1>3, <1>4, TickedTyped DEF InOrder

LEMMA CommitKeeps ==
    ASSUME IInv, NEW t \in Threads, Commit(t)
    PROVE  IInv'
<1> DEFINE p == th[t].phase
<1> DEFINE w == Committed(p)
<1>1. /\ th[t] \in Thread /\ th[t].pc = "merged" /\ p \in Phases
      /\ UNCHANGED <<handle, asked>> /\ svc' = [svc EXCEPT !.work = w] /\ Persist(w)
  BY DEF Commit, IInv, TypeOK, Thread
<1>2. svc \in [job : Jobs \cup {None}, work : Progress]
  BY DEF IInv, TypeOK
<1>3. w \in Progress
  BY <1>1, <1>2, TickedTyped DEF IInv, Committed
<1>4. ASSUME Orderly
      PROVE  /\ p = svc.work.idx /\ svc.job # None /\ InOrder(w, svc.job)
             /\ w.ask = "pending" => p = Codegen
  <2>1. p = svc.work.idx /\ svc.job # None /\ svc.work.made[p] = svc.job
    BY <1>1, <1>4 DEF Orderly, InPlace
  <2>2. CASE Asks(p)
    BY <1>4, <2>1, <2>2 DEF Committed, Asks, Orderly
  <2>3. CASE ~Asks(p)
    <3>1. w = Ticked(p) /\ w.ask = svc.work.ask
      BY <1>1, <2>3, TickedTyped DEF Committed, IInv
    <3>2. svc.work.ask # "pending"
      BY <1>4, <2>1, <2>3 DEF Asks, Orderly, InOrder
    <3> QED BY <1>1, <1>4, <2>1, <2>3, <3>1, <3>2, TickedInOrder DEF IInv
  <2> QED BY <2>2, <2>3, <2>1
<1> HIDE DEF w
<1>5. /\ svc' \in [job : Jobs \cup {None}, work : Progress]
      /\ svc'.job = svc.job /\ svc'.work = w
  BY <1>1, <1>2, <1>3
<1>6. PICK r \in Thread : /\ th' = [th EXCEPT ![t] = r]
                          /\ r.pc \in {"idle", "exit", "check"}
                          /\ r.pc = "check" => r.phase = p
  <2>1. CASE th[t].once
    BY <2>1, LeaveMoves DEF Commit
  <2>2. CASE ~th[t].once
    <3>1. /\ [th[t] EXCEPT !.pc = "check"] \in Thread
          /\ [th[t] EXCEPT !.pc = "check"].pc = "check"
          /\ [th[t] EXCEPT !.pc = "check"].phase = p
      BY <1>1 DEF Thread
    <3>2. th' = [th EXCEPT ![t] = [th[t] EXCEPT !.pc = "check"]]
      BY <2>2 DEF Commit, At
    <3> QED BY <3>1, <3>2
  <2> QED BY <2>1, <2>2
<1> HIDE DEF p
<1>7. th' \in [Threads -> Thread] /\ OneWorker'
  BY <1>1, <1>6, ThreadMoves DEF Alive
<1>8. stored' \in [Jobs -> Progress \cup {None}] /\ StoredInOrder'
  BY <1>1, <1>3, <1>4, PersistInOrder DEF asked, IInv
<1>9. TypeOK'
  BY <1>1, <1>5, <1>7, <1>8 DEF IInv, TypeOK, asked
<1>10. ASSUME Orderly PROVE Orderly'
  <2>1. Alone' /\ \A u \in Threads : InPlace(u)'
    BY <1>1, <1>4, <1>5, <1>6, <1>10, OnlyThreadMoves DEF AtWork
  <2> QED BY <1>4, <1>5, <1>10, <2>1 DEF Orderly
<1> QED
  BY <1>1, <1>5, <1>7, <1>8, <1>9, <1>10 DEF IInv, asked

LEMMA PhaseFailsKeeps ==
    ASSUME IInv, NEW t \in Threads, PhaseFails(t)
    PROVE  IInv'
<1> DEFINE w == [svc.work EXCEPT !.failed = TRUE]
<1>1. /\ th[t].pc \in {"node", "merged"} /\ UNCHANGED <<handle, asked>>
      /\ svc' = [svc EXCEPT !.work = w] /\ Persist(w) /\ th' = Leave(t)
  BY DEF PhaseFails
<1>2. svc \in [job : Jobs \cup {None}, work : Progress]
  BY DEF IInv, TypeOK
<1>3. /\ w \in Progress /\ w.idx = svc.work.idx /\ w.done = svc.work.done
      /\ w.made = svc.work.made /\ w.ask = svc.work.ask
  BY <1>2 DEF Progress
<1> HIDE DEF w
<1>4. Orderly => InOrder(w, svc.job)
  BY <1>3 DEF Orderly, InOrder
<1>5. /\ svc' \in [job : Jobs \cup {None}, work : Progress]
      /\ svc'.job = svc.job /\ svc'.work = w
  BY <1>1, <1>2, <1>3
<1>6. PICK r \in Thread : th' = [th EXCEPT ![t] = r] /\ r.pc \in {"idle", "exit"}
  BY <1>1, LeaveMoves
<1>7. th' \in [Threads -> Thread] /\ OneWorker'
  BY <1>1, <1>6, ThreadMoves DEF Alive
<1>8. stored' \in [Jobs -> Progress \cup {None}] /\ StoredInOrder'
  BY <1>1, <1>3, <1>4, PersistInOrder DEF asked, IInv
<1>9. TypeOK'
  BY <1>1, <1>5, <1>7, <1>8 DEF IInv, TypeOK, asked
<1>10. ASSUME Orderly PROVE Orderly'
  <2>1. Alone' /\ \A u \in Threads : InPlace(u)'
    BY <1>1, <1>6, <1>10, OnlyThreadMoves DEF AtWork
  <2> QED BY <1>3, <1>4, <1>5, <1>10, <2>1 DEF Orderly
<1> QED
  BY <1>1, <1>5, <1>7, <1>8, <1>9, <1>10 DEF IInv, asked

-------------------------------------------------------------------------------
(* One lemma per command: the request thread starts to work on a job that no     *)
(* other thread works on, or the job is crossed.                                 *)

\* What the request thread does next disturbs no worker.
LEMMA RequestMoves ==
    ASSUME TypeOK, OneWorker, NEW r \in Thread, th' = [th EXCEPT !["request"] = r],
           UNCHANGED handle
    PROVE  th' \in [Threads -> Thread] /\ OneWorker'
<1>1. \A w \in Workers : w # "request" /\ w \in Threads
  BY WorkbenchAssumption DEF Threads
<1> QED BY <1>1 DEF TypeOK, OneWorker, Alive, Threads

\* With nobody else at work, the request thread may start at the top of the loop or in
\* the active job's current phase.
LEMMA FirstThreadStarts ==
    ASSUME TypeOK, \A t \in Threads : ~AtWork(t),
           NEW r \in Thread, th' = [th EXCEPT !["request"] = r],
           r.pc \in {"idle", "top", "node", "continue"},
           r.pc = "node" => r.phase = svc'.work.idx /\ r.on = svc'.job
    PROVE  Alone' /\ \A u \in Threads : InPlace(u)'
<1>1. \A u \in Threads : th'[u] = IF u = "request" THEN r ELSE th[u]
  BY DEF TypeOK
<1>2. Alone'
  BY <1>1 DEF Alone, AtWork
<1>3. \A u \in Threads : InPlace(u)'
  BY <1>1 DEF InPlace, AtWork
<1> QED BY <1>2, <1>3

\* With nobody at work, any state of any job is one the threads are in place for.
LEMMA RestIsInOrder ==
    ASSUME \A t \in Threads : ~AtWork(t), th' = th
    PROVE  Alone' /\ \A u \in Threads : InPlace(u)'
BY DEF Alone, InPlace, AtWork

\* The request goes on to continue_in_background with the job it has taken up.
LEMMA ContinuesTyped == Continues \in Thread /\ Continues.pc = "continue"
<1>1. IdleThread \in Thread
  BY WorkbenchAssumption DEF IdleThread, Thread, Phases
<1> QED BY <1>1 DEF Continues, Thread

LEMMA LoopTyped ==
    /\ IdleThread \in Thread /\ IdleThread.pc = "idle"
    /\ Loop \in Thread /\ Loop.pc = "top"
<1>1. IdleThread \in Thread /\ IdleThread.pc = "idle"
  BY WorkbenchAssumption DEF IdleThread, Thread, Phases
<1> QED BY <1>1 DEF Loop, Thread

LEMMA RunKeeps ==
    ASSUME IInv, Run
    PROVE  IInv'
<1>1. /\ svc' = [job |-> None, work |-> Fresh] /\ UNCHANGED <<stored, handle, refused>>
      /\ th' = [th EXCEPT !["request"] = Loop] /\ Command /\ TakenUp(None)
  BY DEF Run
<1>2. Fresh \in Progress /\ InOrder(Fresh, None) /\ Fresh.idx = 0
  BY WorkbenchAssumption DEF Fresh, Progress, Phases, InOrder
<1>3. /\ crossed' \subseteq Jobs \cup {None} /\ Jobs \ crossed' \subseteq Jobs \ crossed
      /\ None \notin crossed' => \A t \in Threads : ~AtWork(t)
  BY <1>1, TakenUpAlone
<1>4. th' \in [Threads -> Thread] /\ OneWorker'
  BY <1>1, LoopTyped, RequestMoves DEF IInv
<1>5. TypeOK'
  BY <1>1, <1>2, <1>3, <1>4 DEF IInv, TypeOK
<1>6. ASSUME None \notin crossed' PROVE Orderly'
  <2>1. Alone' /\ \A u \in Threads : InPlace(u)'
    BY <1>1, <1>3, <1>6, LoopTyped, FirstThreadStarts DEF IInv
  <2> QED BY <1>1, <1>2, <2>1 DEF Orderly
<1>7. StoredInOrder'
  BY <1>1, <1>3 DEF IInv, StoredInOrder, InOrder
<1> QED BY <1>1, <1>4, <1>5, <1>6, <1>7 DEF IInv

\* What taking up a stored job leaves behind, whether the request goes on or not.
LEMMA NamedIsTakenUp ==
    ASSUME IInv, Command, NEW s \in Named, TakenUp(s.job)
    PROVE  /\ s \in Selected /\ s \in [job : Jobs \cup {None}, work : Progress]
           /\ s.job # None
           /\ crossed' \subseteq Jobs \cup {None}
           /\ Jobs \ crossed' \subseteq Jobs \ crossed
           /\ s.job \notin crossed' =>
                 InOrder(s.work, s.job) /\ \A t \in Threads : ~AtWork(t)
<1>1. PICK j \in Jobs : stored[j] # None /\ s = Load(j)
  BY DEF Named
<1>2. /\ s \in [job : Jobs \cup {None}, work : Progress] /\ s.job = j /\ j # None
  BY <1>1, LoadTyped, WorkbenchAssumption DEF IInv
<1>3. /\ crossed' \subseteq Jobs \cup {None} /\ Jobs \ crossed' \subseteq Jobs \ crossed
      /\ j \notin crossed' => j \notin crossed /\ \A t \in Threads : ~AtWork(t)
  BY <1>2, TakenUpAlone
<1>4. ASSUME j \notin crossed' PROVE InOrder(s.work, s.job)
  <2>1. s = [job |-> j, work |-> stored[j]] /\ InOrder(stored[j], j)
    BY <1>1, <1>3, <1>4, RestoredInOrder
  <2> QED BY <2>1
<1> QED BY <1>2, <1>3, <1>4 DEF Selected

LEMMA ResumeKeeps ==
    ASSUME IInv, Resume
    PROVE  IInv'
<1>1. /\ svc' \in Named /\ UNCHANGED <<stored, th, handle, refused>>
      /\ Command /\ TakenUp(svc'.job)
  BY DEF Resume
<1>2. /\ svc' \in [job : Jobs \cup {None}, work : Progress] /\ svc'.job # None
      /\ crossed' \subseteq Jobs \cup {None} /\ Jobs \ crossed' \subseteq Jobs \ crossed
      /\ svc'.job \notin crossed' =>
            InOrder(svc'.work, svc'.job) /\ \A t \in Threads : ~AtWork(t)
  BY <1>1, NamedIsTakenUp
<1>3. TypeOK' /\ OneWorker'
  BY <1>1, <1>2 DEF IInv, TypeOK, OneWorker, Alive
<1>4. svc'.job \notin crossed' => Orderly'
  BY <1>1, <1>2, RestIsInOrder DEF Orderly
<1>5. StoredInOrder'
  BY <1>1, <1>2 DEF IInv, StoredInOrder, InOrder
<1> QED BY <1>3, <1>4, <1>5 DEF IInv

LEMMA RetryKeeps ==
    ASSUME IInv, Retry
    PROVE  IInv'
<1>1. PICK s \in Named : svc' = [s EXCEPT !.work.failed = FALSE]
  BY DEF Retry
<1>2. /\ Command /\ TakenUp(svc'.job) /\ UNCHANGED <<stored, handle, refused>>
      /\ th' = [th EXCEPT !["request"] = Continues]
  BY DEF Retry
<1>3. s \in [job : Jobs \cup {None}, work : Progress]
  BY SelectedTyped DEF Selected, IInv
<1> DEFINE w == [s.work EXCEPT !.failed = FALSE]
<1>4. /\ w \in Progress /\ w.idx = s.work.idx /\ w.done = s.work.done
      /\ w.made = s.work.made /\ w.ask = s.work.ask
  BY <1>3 DEF Progress
<1>5. svc' = [s EXCEPT !.work = w]
  BY <1>1
<1> HIDE DEF w
<1>6. /\ svc' \in [job : Jobs \cup {None}, work : Progress]
      /\ svc'.job = s.job /\ svc'.work = w
  BY <1>3, <1>4, <1>5
<1>7. /\ s.job # None
      /\ crossed' \subseteq Jobs \cup {None} /\ Jobs \ crossed' \subseteq Jobs \ crossed
      /\ s.job \notin crossed' => InOrder(s.work, s.job) /\ \A t \in Threads : ~AtWork(t)
  BY <1>2, <1>6, NamedIsTakenUp
<1>8. th' \in [Threads -> Thread] /\ OneWorker'
  BY <1>2, ContinuesTyped, RequestMoves DEF IInv
<1>9. TypeOK'
  BY <1>2, <1>6, <1>7, <1>8 DEF IInv, TypeOK
<1>10. ASSUME svc'.job \notin crossed' PROVE Orderly'
  <2>1. InOrder(w, s.job) /\ \A t \in Threads : ~AtWork(t)
    BY <1>4, <1>6, <1>7, <1>10 DEF InOrder
  <2>2. Alone' /\ \A u \in Threads : InPlace(u)'
    BY <1>2, <2>1, ContinuesTyped, FirstThreadStarts DEF IInv
  <2> QED BY <1>6, <1>7, <2>1, <2>2 DEF Orderly
<1>11. StoredInOrder'
  BY <1>2, <1>7 DEF IInv, StoredInOrder, InOrder
<1> QED BY <1>8, <1>9, <1>10, <1>11 DEF IInv

\* A decision keeps every thread in place: the job it is about stands at code
\* generation before and after it.
LEMMA DecisionKeepsPlaces ==
    ASSUME IInv, NEW s \in Selected, s.work.ask = "pending",
           InOrder(s.work, s.job), s = svc => svc.job \notin crossed,
           s # svc => \A t \in Threads : ~AtWork(t),
           svc'.job = s.job, svc'.work.idx = Codegen, svc'.work.made = s.work.made,
           svc'.work.ask # "pending",
           NEW r \in Thread, r.pc \in {"idle", "continue"},
           th' = [th EXCEPT !["request"] = r]
    PROVE  Alone' /\ \A u \in Threads : InPlace(u)'
<1>1. CASE s # svc
  <2>1. \A t \in Threads : ~AtWork(t)
    BY <1>1
  <2> QED BY <2>1, FirstThreadStarts DEF IInv
<1>2. CASE s = svc
  <2>1. Orderly /\ svc.work.idx = Codegen
    BY <1>2 DEF IInv, InOrder
  <2>2. \A u \in Threads : th'[u] = IF u = "request" THEN r ELSE th[u]
    BY DEF IInv, TypeOK
  <2>3. Alone'
    BY <2>1, <2>2 DEF Orderly, Alone, AtWork
  <2>4. ASSUME NEW u \in Threads PROVE InPlace(u)'
    BY <1>2, <2>1, <2>2 DEF Orderly, InPlace
  <2> QED BY <2>3, <2>4
<1> QED BY <1>1, <1>2

LEMMA ApproveKeeps ==
    ASSUME IInv, Approve
    PROVE  IInv'
<1>1. PICK s \in Selected :
          /\ s.work.ask = "pending"
          /\ svc' = [s EXCEPT !.work.ask = "approved", !.work.idx = Codegen,
                              !.work.done = @ \ {Codegen}, !.work.failed = FALSE]
          /\ Decided(s)
  BY DEF Approve
<1>2. /\ Command /\ UNCHANGED <<stored, handle, refused>>
      /\ th' = [th EXCEPT !["request"] = Continues]
  BY DEF Approve
<1>3. s \in [job : Jobs \cup {None}, work : Progress]
  BY SelectedTyped DEF IInv
<1> DEFINE w == [s.work EXCEPT !.ask = "approved", !.idx = Codegen,
                               !.done = @ \ {Codegen}, !.failed = FALSE]
<1>4. /\ s.work \in Progress /\ Codegen \in 0..Last + 1
      /\ s.work.done \ {Codegen} \in SUBSET Phases
  BY <1>3, WorkbenchAssumption DEF Progress
<1>5. w \in Progress
  BY <1>4 DEF Progress
<1>6. /\ w.idx = Codegen /\ w.done = s.work.done \ {Codegen}
      /\ w.made = s.work.made /\ w.ask = "approved"
  BY <1>3 DEF Progress
<1>7. svc' = [s EXCEPT !.work = w]
  BY <1>1, <1>3 DEF Progress
<1> HIDE DEF w
<1>8. /\ svc' \in [job : Jobs \cup {None}, work : Progress]
      /\ svc'.job = s.job /\ svc'.work = w
  BY <1>3, <1>5, <1>7
<1>9. /\ crossed' \subseteq Jobs \cup {None} /\ Jobs \ crossed' \subseteq Jobs \ crossed
      /\ s.job \notin crossed' =>
            /\ InOrder(s.work, s.job) /\ (s.job = None => s.work.idx = 0)
            /\ s = svc => svc.job \notin crossed
            /\ s # svc => \A t \in Threads : ~AtWork(t)
  BY <1>1, <1>2, DecidedInOrder
<1>10. th' \in [Threads -> Thread] /\ OneWorker'
  BY <1>2, ContinuesTyped, RequestMoves DEF IInv
<1>11. TypeOK'
  BY <1>2, <1>8, <1>9, <1>10 DEF IInv, TypeOK
<1>12. ASSUME svc'.job \notin crossed' PROVE Orderly'
  <2>1. s.work.idx = Codegen /\ s.job # None
    BY <1>1, <1>8, <1>9, <1>12, WorkbenchAssumption DEF InOrder
  <2>2. InOrder(w, s.job)
    BY <1>6, <1>8, <1>9, <1>12, <2>1, WorkbenchAssumption DEF InOrder, Phases
  <2>3. Alone' /\ \A u \in Threads : InPlace(u)'
    BY <1>1, <1>2, <1>6, <1>8, <1>9, <1>12, ContinuesTyped, DecisionKeepsPlaces
  <2> QED BY <1>8, <2>1, <2>2, <2>3 DEF Orderly
<1>13. StoredInOrder'
  BY <1>2, <1>9 DEF IInv, StoredInOrder, InOrder
<1> QED BY <1>10, <1>11, <1>12, <1>13 DEF IInv

LEMMA RejectKeeps ==
    ASSUME IInv, Reject
    PROVE  IInv'
<1>1. PICK s \in Selected :
          LET w == [s.work EXCEPT !.ask = "rejected", !.failed = TRUE] IN
          /\ s.work.ask = "pending"
          /\ svc' = [s EXCEPT !.work = w]
          /\ stored' = IF s.job = None THEN stored ELSE [stored EXCEPT ![s.job] = w]
          /\ Decided(s)
  BY DEF Reject
<1>2. Command /\ UNCHANGED <<th, handle, refused>>
  BY DEF Reject
<1>3. s \in [job : Jobs \cup {None}, work : Progress]
  BY SelectedTyped DEF IInv
<1> DEFINE w == [s.work EXCEPT !.ask = "rejected", !.failed = TRUE]
<1>4. /\ w \in Progress /\ w.idx = s.work.idx /\ w.done = s.work.done
      /\ w.made = s.work.made /\ w.ask = "rejected"
  BY <1>3 DEF Progress
<1>5. /\ svc' = [s EXCEPT !.work = w]
      /\ stored' = IF s.job = None THEN stored ELSE [stored EXCEPT ![s.job] = w]
  BY <1>1
<1> HIDE DEF w
<1>6. /\ svc' \in [job : Jobs \cup {None}, work : Progress]
      /\ svc'.job = s.job /\ svc'.work = w
  BY <1>3, <1>4, <1>5
<1>7. /\ crossed' \subseteq Jobs \cup {None} /\ Jobs \ crossed' \subseteq Jobs \ crossed
      /\ s.job \notin crossed' =>
            /\ InOrder(s.work, s.job) /\ (s.job = None => s.work.idx = 0)
            /\ s = svc => svc.job \notin crossed
            /\ s # svc => \A t \in Threads : ~AtWork(t)
  BY <1>1, <1>2, DecidedInOrder
<1>8. s.job \notin crossed' => InOrder(w, s.job)
  BY <1>4, <1>7 DEF InOrder
<1>9. stored' \in [Jobs -> Progress \cup {None}] /\ StoredInOrder'
  <2>1. stored \in [Jobs -> Progress \cup {None}]
    BY DEF IInv, TypeOK
  <2>2. \A j \in Jobs : stored'[j] = IF j = s.job THEN w ELSE stored[j]
    BY <1>3, <1>5, <2>1, WorkbenchAssumption
  <2>3. stored' \in [Jobs -> Progress \cup {None}]
    BY <1>4, <1>5, <2>1
  <2> QED BY <1>7, <1>8, <2>2, <2>3 DEF IInv, StoredInOrder
<1>10. TypeOK' /\ OneWorker'
  BY <1>2, <1>6, <1>7, <1>9 DEF IInv, TypeOK, OneWorker, Alive
<1>11. ASSUME svc'.job \notin crossed' PROVE Orderly'
  <2>1. th["request"] \in Thread /\ th["request"].pc = "idle"
        /\ th' = [th EXCEPT !["request"] = th["request"]]
    BY <1>2 DEF IInv, TypeOK, Command, Alive, Threads
  <2>2. s.work.idx = Codegen
    BY <1>1, <1>6, <1>7, <1>11 DEF InOrder
  <2>3. Alone' /\ \A u \in Threads : InPlace(u)'
    BY <1>1, <1>4, <1>6, <1>7, <1>11, <2>1, <2>2, DecisionKeepsPlaces
  <2> QED BY <1>4, <1>6, <1>7, <1>8, <1>11, <2>3 DEF Orderly
<1> QED BY <1>9, <1>10, <1>11 DEF IInv

LEMMA StepKeeps ==
    ASSUME IInv, Step
    PROVE  IInv'
<1> DEFINE r == [pc |-> "node", phase |-> svc.work.idx, on |-> svc.job, once |-> TRUE]
<1>1. /\ th' = [th EXCEPT !["request"] = r] /\ UNCHANGED <<svc, stored, handle, refused>>
      /\ svc.work.idx \in Phases /\ svc.job \in Jobs \cup {None} /\ svc.job # None
      /\ Command /\ TakenUp(svc.job)
  BY DEF Step, IInv, TypeOK
<1>2. r \in Thread
  BY <1>1 DEF Thread
<1>3. r.pc = "node" /\ r.phase = svc'.work.idx /\ r.on = svc'.job
  BY <1>1
<1> HIDE DEF r
<1>4. /\ crossed' \subseteq Jobs \cup {None} /\ Jobs \ crossed' \subseteq Jobs \ crossed
      /\ svc.job \notin crossed' => svc.job \notin crossed /\ \A t \in Threads : ~AtWork(t)
  BY <1>1, TakenUpAlone
<1>5. th' \in [Threads -> Thread] /\ OneWorker'
  BY <1>1, <1>2, RequestMoves DEF IInv
<1>6. TypeOK'
  BY <1>1, <1>4, <1>5 DEF IInv, TypeOK
<1>7. ASSUME svc'.job \notin crossed' PROVE Orderly'
  <2>1. Orderly /\ \A t \in Threads : ~AtWork(t)
    BY <1>1, <1>4, <1>7 DEF IInv
  <2>2. Alone' /\ \A u \in Threads : InPlace(u)'
    BY <1>1, <1>2, <1>3, <2>1, FirstThreadStarts DEF IInv
  <2> QED BY <1>1, <2>1, <2>2 DEF Orderly, InOrder
<1>8. StoredInOrder'
  BY <1>1, <1>4 DEF IInv, StoredInOrder, InOrder
<1> QED BY <1>5, <1>6, <1>7, <1>8 DEF IInv

-------------------------------------------------------------------------------
\* A continuation starts only if the worker before it has ended, and the request thread
\* does no work meanwhile.
LEMMA ContinueStartsKeeps ==
    ASSUME IInv, ContinueStarts
    PROVE  IInv'
<1>1. PICK v \in Workers :
          /\ ~Alive(v) /\ handle' = v
          /\ th' = [th EXCEPT ![v] = Loop, !["request"] = IdleThread]
  BY DEF ContinueStarts
<1>2. /\ th["request"].pc = "continue" /\ refused' = refused \ {svc.job}
      /\ UNCHANGED <<svc, stored, crossed>>
      /\ \A w \in Workers : handle = w => ~Alive(w)
  BY DEF ContinueStarts
<1>3. \A w \in Workers : ~Alive(w) /\ w # "request" /\ w \in Threads
  BY <1>2, WorkbenchAssumption DEF IInv, OneWorker, Threads
<1>4. \A t \in Threads : ~AtWork(t)
  BY <1>2, <1>3 DEF AtWork, Alive, Threads
<1>5. th \in [Threads -> Thread] /\ "request" \in Threads
  BY DEF IInv, TypeOK, Threads
<1>6. \A u \in Threads : th'[u] = IF u = "request" THEN IdleThread
                                  ELSE IF u = v THEN Loop ELSE th[u]
  BY <1>1, <1>3, <1>5
<1>7. th' \in [Threads -> Thread]
  BY <1>1, <1>5, LoopTyped
<1>8. OneWorker'
  BY <1>1, <1>3, <1>6 DEF OneWorker, Alive
<1>9. TypeOK'
  BY <1>1, <1>2, <1>7 DEF IInv, TypeOK
<1>10. ASSUME Orderly PROVE Orderly'
  <2>1. Alone' /\ \A u \in Threads : InPlace(u)'
    BY <1>4, <1>6, LoopTyped DEF Alone, InPlace, AtWork
  <2> QED BY <1>2, <1>10, <2>1 DEF Orderly, InOrder
<1>11. StoredInOrder'
  BY <1>2 DEF IInv, StoredInOrder, InOrder
<1> QED BY <1>2, <1>8, <1>9, <1>10, <1>11 DEF IInv

LEMMA ContinueRefusedKeeps ==
    ASSUME IInv, ContinueRefused
    PROVE  IInv'
<1>1. /\ th["request"].pc = "continue" /\ refused' = refused \cup {svc.job}
      /\ th' = [th EXCEPT !["request"] = IdleThread]
      /\ UNCHANGED <<svc, stored, handle, crossed>>
  BY DEF ContinueRefused
<1>2. th' \in [Threads -> Thread] /\ OneWorker'
  BY <1>1, LoopTyped, RequestMoves DEF IInv
<1>3. TypeOK'
  BY <1>1, <1>2 DEF IInv, TypeOK
<1>4. \A u \in Threads : th'[u] = IF u = "request" THEN IdleThread ELSE th[u]
  BY <1>1 DEF IInv, TypeOK
<1>5. ASSUME Orderly PROVE Orderly'
  <2>1. Alone' /\ \A u \in Threads : InPlace(u)'
    BY <1>1, <1>4, <1>5, LoopTyped DEF Orderly, Alone, InPlace, AtWork
  <2> QED BY <1>1, <1>5, <2>1 DEF Orderly, InOrder
<1>6. StoredInOrder'
  BY <1>1 DEF IInv, StoredInOrder, InOrder
<1> QED BY <1>1, <1>2, <1>3, <1>5, <1>6 DEF IInv

LEMMA StutterKeeps ==
    ASSUME IInv, UNCHANGED vars
    PROVE  IInv'
<1>1. UNCHANGED <<svc, stored, th, handle, refused, crossed>>
  BY DEF vars
<1>2. TypeOK' /\ OneWorker' /\ StoredInOrder'
  BY <1>1 DEF IInv, TypeOK, OneWorker, Alive, StoredInOrder, InOrder
<1>3. Orderly => Orderly'
  BY <1>1 DEF Orderly, InOrder, Alone, InPlace, AtWork
<1> QED BY <1>1, <1>2, <1>3 DEF IInv

LEMMA NextKeeps ==
    ASSUME IInv, [Next]_vars
    PROVE  IInv'
<1>1. CASE UNCHANGED vars
  BY <1>1, StutterKeeps
<1>2. ASSUME NEW t \in Threads, ThreadStep(t) PROVE IInv'
  BY <1>2, PickPhaseKeeps, PrepareKeeps, MergeKeeps, CommitKeeps, PhaseFailsKeeps,
     CheckKeeps DEF ThreadStep
<1>3. ASSUME NEW w \in Workers, Exit(w) PROVE IInv'
  BY <1>3, ExitKeeps
<1>4. CASE ContinueInBackground
  BY <1>4, ContinueStartsKeeps, ContinueRefusedKeeps DEF ContinueInBackground
<1>5. CASE UserCommand
  BY <1>5, RunKeeps, ResumeKeeps, RetryKeeps, ApproveKeeps, RejectKeeps, StepKeeps
     DEF UserCommand
<1> QED
  BY <1>1, <1>2, <1>3, <1>4, <1>5 DEF Next

LEMMA Invariance == Spec => []IInv
<1>1. Init => IInv
  BY InitIInv
<1>2. IInv /\ [Next]_vars => IInv'
  BY NextKeeps
<1> QED
  BY <1>1, <1>2, PTL DEF Spec

-------------------------------------------------------------------------------
\* Every variable keeps its type: a thread's phase, a job's index and the handle.
THEOREM TypeCorrect == Spec => []TypeOK
<1>1. IInv => TypeOK
  BY DEF IInv
<1> QED
  BY <1>1, Invariance, PTL

\* Whatever commands arrive while one ends, at most one worker runs, and the service
\* knows which (continue_in_background, _run_background_continue).
THEOREM AtMostOneWorker == Spec => []OneWorker
<1>1. IInv => OneWorker
  BY DEF IInv
<1> QED
  BY <1>1, Invariance, PTL

\* However many jobs and workers there are, the completed phases of a stored job that
\* was never crossed rest on results computed from its own state (run_phase's merge
\* against resume_job), though other jobs were crossed.
THEOREM ResultsAreOwn == Spec => []OwnResults
<1>1. IInv => OwnResults
  BY DEF IInv, StoredInOrder, InOrder, OwnResults
<1> QED
  BY <1>1, Invariance, PTL

\* What such a job restores is its own work, never another job's: the README's promise
\* of /resume, kept wherever the job is not taken up beside a worker.
THEOREM NothingForeign == Spec => []NoForeignResults
<1>1. IInv => NoForeignResults
  BY DEF IInv, StoredInOrder, InOrder, NoForeignResults
<1> QED
  BY <1>1, Invariance, PTL

\* No switch, retry, single step or decision makes such a job jump over a phase.
THEOREM NoJumps == Spec => []StoredIsPrefix
<1>1. ASSUME IInv PROVE StoredIsPrefix
  <2>1. SUFFICES ASSUME NEW j \in Jobs \ crossed, stored[j] # None
                 PROVE  stored[j].done = {p \in Phases : p < stored[j].idx}
    BY DEF StoredIsPrefix
  <2>2. InOrder(stored[j], j) /\ stored[j].done \subseteq Phases
    BY <1>1, <2>1 DEF IInv, StoredInOrder, TypeOK, Progress
  <2> QED
    BY <2>2 DEF InOrder
<1> QED
  BY <1>1, Invariance, PTL

\* While a repair decision is awaited, no thread is on its way past code generation,
\* however decisions race with the worker that merges, stores and checks.
THEOREM Awaited == Spec => []AwaitedMeansStopped
<1>1. ASSUME IInv PROVE AwaitedMeansStopped
  <2>1. SUFFICES ASSUME svc.work.ask = "pending", svc.job \notin crossed
                 PROVE  /\ svc.work.idx = Codegen
                        /\ \A t \in Threads : Busy(t) => th[t].phase = Codegen
    BY DEF AwaitedMeansStopped
  <2>2. Orderly
    BY <1>1, <2>1 DEF IInv
  <2>3. svc.work.idx = Codegen
    BY <2>1, <2>2 DEF Orderly, InOrder
  <2> QED BY <2>1, <2>2, <2>3 DEF Orderly, InPlace, Busy
<1> QED
  BY <1>1, Invariance, PTL

\* What a stored job may be taken up from: its own work, complete up to its index.
THEOREM JobsStayInOrder == Spec => []JobsInOrder
<1>1. TypeOK /\ OneWorker /\ OwnResults /\ NoForeignResults /\ StoredIsPrefix => JobsInOrder
  BY DEF JobsInOrder
<1> QED
  BY <1>1, TypeCorrect, AtMostOneWorker, ResultsAreOwn, NothingForeign, NoJumps, PTL
===============================================================================
