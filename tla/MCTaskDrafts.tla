----------------------------- MODULE MCTaskDrafts -----------------------------
(* TaskDrafts for TLC: none of its values is told from another of its kind. *)
EXTENDS TaskDrafts, TLC

Symmetry == Permutations(Commands) \union Permutations(Branches)
            \union Permutations(TaskIDs) \union Permutations(PlanIDs)
=============================================================================
