---------------------------- MODULE CreateRunInv ----------------------------
(***************************************************************************)
(* The inductive invariants behind CreateRun's safety properties, which    *)
(* CreateRunProofs proves for all instances: IInv, and with it what a      *)
(* clean abort rests on.                                                   *)
(***************************************************************************)
EXTENDS CreateRun

LoopSteps == {"mark", "parent", "temp", "link", "drop", "applied"}
FileSteps == LoopSteps \union {"verify", "undo", "undo_dirs", "rollback_remove",
              "rollback_dirs", "preflight", "recover_remove", "recover_write"}
DoneSteps == {"verify", "validate", "validated", "finalize", "cleanup"}

Generated(p) == file[p] = "generated"

\* The loops stay inside the plan.
LoopInv ==
    /\ pc \in FileSteps => idx >= 1
    /\ pc \in {"idle", "approve", "enter"} => created = 0
    /\ pc \in LoopSteps => created <= idx

\* Which journals a command works on.
StatusInv ==
    /\ pc \in {"approve", "enter"} =>
        Appliable(journal) /\ Appliable(mem) /\ \A p \in Paths : mem.op[p] = "PENDING"
    /\ pc \notin {"idle", "approve", "enter", "cleanup"} =>
        Eligible(journal) /\ Eligible(mem)
    /\ pc = "cleanup" => journal.status = "FINALIZED"
    /\ Appliable(journal) => \A p \in Paths : journal.op[p] = "PENDING"

\* Both copies of the journal know every published file.
AheadInv ==
    /\ WriteAhead
    /\ pc # "idle" => \A p \in Paths : Generated(p) => mem.op[p] \in Live
    /\ pc \in {"parent", "temp", "link"} =>
        /\ journal.op[ApplyPath(idx)] \in Live
        /\ mem.op[ApplyPath(idx)] \in Live

\* Every published file is one the loops have yet to take back.
ReachInv ==
    /\ pc \in (ApplySteps \union {"undo", "undo_dirs"}) \ {"drop"} =>
        \A p \in Paths : Generated(p) => Pos(p) <= created
    /\ pc = "drop" => \A p \in Paths : Generated(p) => Pos(p) <= idx
    /\ pc \in {"rollback", "rollback_remove"} =>
        \A p \in Paths \ kept : Generated(p) => Pos(p) <= idx
    /\ pc = "rollback_dirs" =>
        \A p \in Paths \ kept : Generated(p) => Pos(p) <= idx - 1
    /\ pc \in {"recover", "recover_remove"} =>
        \A p \in Paths : Generated(p) => p <= idx
    /\ pc = "recover_write" => \A p \in Paths : Generated(p) => p <= idx - 1

\* The operations before the loop's are done, and so are their files.
Done(p) == mem.op[p] = "APPLIED" /\ (Untouched(p) => Generated(p))
ProgressInv ==
    /\ pc \in LoopSteps => \A p \in Paths : Pos(p) < idx => Done(p)
    /\ pc \in {"drop", "applied"} =>
        \A p \in Paths : Pos(p) = idx /\ Untouched(p) => Generated(p)
    /\ pc \in DoneSteps => \A p \in Paths : Done(p)

\* Bytes that are not the run's were put there by the user.
TouchInv == \A p \in Paths : file[p] \in {"foreign", "restored"} => ~Untouched(p)

SettledInv ==
    /\ journal.status = "FAILED" => \A p \in Paths : ~Generated(p)
    /\ FinalizedWhole
    /\ NoOrphans

IInv == /\ TypeOK /\ LoopInv /\ StatusInv /\ AheadInv /\ ReachInv
        /\ ProgressInv /\ TouchInv /\ SettledInv

-----------------------------------------------------------------------------
(* What a clean abort rests on: how far each loop has come with the files,  *)
(* the temporary files and the directories the user stayed away from.       *)

CountInv ==
    /\ pc \in (LoopSteps \ {"applied"}) \union {"undo", "undo_dirs"} =>
        created = idx - 1
    /\ pc = "applied" => created = idx
    /\ pc \in {"verify", "validate"} => created = NumPaths
    /\ pc = "idle" => kept = {}

\* The rollback finds each file it has yet to reach.
KeepInv ==
    \A p \in Paths : Untouched(p) =>
        /\ pc \in {"rollback", "rollback_remove"} /\ Pos(p) <= idx => Generated(p)
        /\ pc \in {"undo", "undo_dirs", "rollback_dirs"} /\ Pos(p) < idx => Generated(p)
        /\ pc \in {"undo", "undo_dirs", "rollback_dirs"} /\ Pos(p) = idx => file[p] = "absent"

\* A directory is one this apply made and, should it fail, will come to remove.
Expected(p) ==
    \/ pc \in {"validated", "finalize", "cleanup"}
    \/ p \in made /\ pc \in {"verify", "validate"}
    \/ p \in made /\ pc \in {"mark", "parent"} /\ Pos(p) < idx
    \/ p \in made /\ pc \in {"temp", "link", "drop", "applied"} \union RollbackSteps
                  /\ Pos(p) <= idx

TidyInv ==
    pc \in ApplySteps \union RollbackSteps =>
        \A p \in Paths \ missed : Untouched(p) =>
            /\ p \in temp => pc \in {"link", "drop", "undo"} /\ Pos(p) = idx
            /\ p \in dirs => Expected(p)
            /\ p \notin kept

-----------------------------------------------------------------------------
(* Why a command ends, and what a recovery that is let alone comes to. *)

\* Steps a command has left at most; none lets it grow.
Left ==
    CASE pc = "idle"                                  -> 0
      [] pc \in {"rollback", "recover"}               -> 3 * idx + 1
      [] pc \in {"rollback_remove", "recover_remove"} -> 3 * idx
      [] pc \in {"rollback_dirs", "recover_write"}    -> 3 * idx - 1
      [] pc = "undo"      -> 3 * NumPaths + 3
      [] pc = "undo_dirs" -> 3 * NumPaths + 2
      [] pc = "preflight" -> 4 * NumPaths + 2 - idx
      [] pc = "cleanup"   -> 1
      [] pc = "finalize"  -> 2
      [] pc = "validated" -> 3
      [] pc = "validate"  -> 3 * NumPaths + 3
      [] pc = "verify"    -> 4 * NumPaths + 4 - idx
      [] pc = "applied"   -> 10 * NumPaths + 4 - 6 * idx
      [] pc = "drop"      -> 10 * NumPaths + 5 - 6 * idx
      [] pc = "link"      -> 10 * NumPaths + 6 - 6 * idx
      [] pc = "temp"      -> 10 * NumPaths + 7 - 6 * idx
      [] pc = "parent"    -> 10 * NumPaths + 8 - 6 * idx
      [] pc = "mark"      -> 10 * NumPaths + 9 - 6 * idx
      [] pc = "enter"     -> 10 * NumPaths + 4
      [] pc = "approve"   -> 10 * NumPaths + 5

\* What the preflight has seen free of conflicts is so when recovery gets there.
ClearInv ==
    /\ pc = "preflight" => mem = journal
    /\ pc = "recover_remove" => file[idx] # "absent"
    /\ \A p \in Paths :
        \/ pc \in {"preflight", "recover_write"} /\ p < idx
        \/ pc \in {"recover", "recover_remove"} /\ p <= idx
        => ~Conflict(mem, p)
=============================================================================
