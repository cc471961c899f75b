------------------------------ MODULE RunLife ------------------------------
(***************************************************************************)
(* The life of one CREATE run as its bundle and the target show it to the  *)
(* other commands: no step of the run, no lock and no other run.           *)
(* CreateRun implements it with the run's small steps, RunStore, run by    *)
(* run, with its large ones.                                               *)
(***************************************************************************)
VARIABLES
    stage,  \* what the run's journal says, "gone" once it is removed
    files   \* the target holds files the run published

vars == <<stage, files>>

\* "entered" is interrupted before all files are journaled, "applying" with all
\* of them journaled, "recovery" the same after a rollback that was incomplete.
Interrupted == {"entered", "applying", "recovery"}

TypeOK ==
    /\ stage \in Interrupted \union {"new", "ready", "failed", "finalized", "gone"}
    /\ files \in BOOLEAN

Init == stage \in {"new", "ready"} /\ files = FALSE

Store == stage = "new" /\ stage' = "ready" /\ UNCHANGED files
Enter == stage = "ready" /\ stage' = "entered" /\ UNCHANGED files

Journal == stage = "entered" /\ stage' = "applying" /\ UNCHANGED files

\* The rollback left some files or could not tell.
FallShort == stage \in Interrupted /\ stage' = "recovery" /\ UNCHANGED files

\* Files appear in the target while the run is applied and at no other time.
Publish ==
    /\ stage \in {"entered", "applying"}
    /\ stage' \in {stage, "applying", "recovery"}
    /\ files' = TRUE

Withdraw ==
    /\ stage \in Interrupted
    /\ stage' \in {stage, "recovery"}
    /\ files' = FALSE

\* A run fails without a file left, from wherever it was interrupted.
Fail     == stage \in Interrupted /\ stage' = "failed" /\ files' = FALSE
Finalize == stage = "applying" /\ stage' = "finalized" /\ UNCHANGED files

\* The journal of an interrupted run is not removed.
Forget ==
    /\ stage \in {"ready", "failed", "finalized"} /\ stage' = "gone"
    /\ UNCHANGED files

\* The user takes files away, or another run's rollback does.
Vanish == files' = FALSE /\ UNCHANGED stage

Next ==
    \/ Store \/ Enter \/ Journal \/ FallShort \/ Publish \/ Withdraw
    \/ Fail \/ Finalize \/ Forget \/ Vanish

Spec == Init /\ [][Next]_vars
=============================================================================
