------------------------------ MODULE MCWorkbench ------------------------------
(* Workbench on TLC: two jobs, two identities for successive background threads. *)
EXTENDS Workbench, TLC, FiniteSets

CONSTANTS j1, j2, w1, w2

MCJobs == {j1, j2}
MCWorkers == {w1, w2}

NobodyWorks == \A w \in Workers : ~AtWork(w)

\* Jobs are alike, and so are workers: j1 is named first, w1 is taken first.
MCFirst ==
    /\ stored[j2] # None => stored[j1] # None
    /\ Alive(w2) => Alive(w1)

\* Bounds: one job is crossed and one refused; a crossed job is not worked on again
\* once the worker has ended.
MCLimit ==
    /\ MCFirst
    /\ Cardinality(crossed) <= 1
    /\ Cardinality(refused) <= 1
    /\ svc.job \in crossed /\ NobodyWorks => ~Alive("request")

\* Bound: one command takes a job up beside the same worker; decisions go on.
MCOneCrossing == crossed # {} /\ ~NobodyWorks => ~(Run \/ Resume \/ Retry \/ Step)
===============================================================================
