----------------------------- MODULE JobContract ------------------------------
(* What a stored job promises to whoever looks at it, with phases, retries and  *)
(* crashes left out: nothing is modelled or built before the requirements are   *)
(* agreed, a job counts as validated only by passing the gates after its last   *)
(* change, and any rework takes that back.                                      *)
VARIABLES stage, agreed, validated

job == <<stage, agreed, validated>>

Stages == {"intake", "model", "build", "test", "wrapup", "closed"}

Init == stage = "intake" /\ ~agreed /\ ~validated

\* The requirements are discussed, over and over, until they are agreed.
Discuss == stage = "intake" /\ stage' = "intake" /\ agreed' \in BOOLEAN /\ ~validated'

Agree == stage = "intake" /\ stage' = "model" /\ agreed' /\ ~validated'

Advance ==
    /\ <<stage, stage'>> \in {<<"model", "build">>, <<"build", "test">>, <<"wrapup", "closed">>}
    /\ UNCHANGED <<agreed, validated>>

Validate == stage = "test" /\ stage' = "wrapup" /\ validated' /\ UNCHANGED agreed

\* Testing that could not be done closes the job unvalidated.
GiveUp == stage = "test" /\ stage' = "wrapup" /\ UNCHANGED <<agreed, validated>>

Rework ==
    /\ stage = "test" /\ stage' \in {"intake", "model", "build"}
    /\ UNCHANGED <<agreed, validated>>

Next == Discuss \/ Agree \/ Advance \/ Validate \/ GiveUp \/ Rework

Spec == Init /\ [][Next]_job

\* Nothing past the intake exists without an agreement, and only a job that went
\* through the gates is validated.
Sound ==
    /\ stage # "intake" => agreed
    /\ validated => stage \in {"wrapup", "closed"}
===============================================================================
