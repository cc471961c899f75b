------------------------------ MODULE MCRunStore ------------------------------
(* RunStore for TLC: commands are interchangeable, run IDs are ordered. *)
EXTENDS RunStore, TLC

Symmetry == Permutations(Commands)
=============================================================================
