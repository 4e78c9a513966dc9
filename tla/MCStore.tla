------------------------------- MODULE MCStore --------------------------------
EXTENDS Revisions, TLC

CONSTANTS j1, j2, p1, p2, r1, f1, f2

MCJobs == {j1, j2}
MCProjects == {p1, p2}
MCRevs == {r1}
MCFiles == {f1, f2}
\* Bound: a second job, a second project and listings only while there are no
\* revisions.
MCBound ==
    (\E r \in Revs : rev[r] # None) =>
        imp = NoImport /\ db.projects = {Default} /\ \E j \in Jobs : disk[j] = "absent"

MCSymmetry == Permutations(MCJobs) \cup Permutations(MCFiles)
===============================================================================
