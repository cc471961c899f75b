---------------------------- MODULE DraftRegistry ----------------------------
(***************************************************************************)
(* What `task plan --prepare` promises of a project's local drafts: a      *)
(* branch gets one Task ID, which is no other branch's, and a revision of  *)
(* its draft one plan; neither is given twice, changed or taken back.      *)
(***************************************************************************)
CONSTANTS Branches, TaskIDs, Specs, PlanIDs, None

VARIABLES
    ids,   \* each branch's Task ID
    filed  \* the plan of each revision

vars == <<ids, filed>>

Init ==
    /\ ids = [b \in Branches |-> None]
    /\ filed = [b \in Branches |-> [s \in Specs |-> None]]

Register(b, t) ==
    /\ ids[b] = None /\ \A a \in Branches : ids[a] # t
    /\ ids' = [ids EXCEPT ![b] = t]
    /\ UNCHANGED filed

File(b, s, i) ==
    /\ ids[b] # None /\ filed[b][s] = None
    /\ filed' = [filed EXCEPT ![b][s] = i]
    /\ UNCHANGED ids

Next == \E b \in Branches :
    \/ \E t \in TaskIDs : Register(b, t)
    \/ \E s \in Specs, i \in PlanIDs : File(b, s, i)

Spec == Init /\ [][Next]_vars
=============================================================================
