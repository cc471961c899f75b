------------------------- MODULE CreateRunStepProofs -------------------------
(***************************************************************************)
(* What no step of a CREATE run does, from the inductive invariant and     *)
(* from what the stored journal and the copy of it that a command works on *)
(* have to do with each other.                                             *)
(***************************************************************************)
EXTENDS CreateRunProofs

\* What an apply remembers is what is stored, until it rolls back; and no command
\* is in doubt about how its run stands.
SyncInv ==
    /\ pc \in ApplySteps => journal = mem
    /\ pc # "idle" => journal.status = mem.status
    /\ pc \in (ApplySteps \ {"cleanup"}) \union RollbackSteps => mem.status = "ACTIVE"

\* Operations the loop has yet to reach are untouched.
TodoInv ==
    /\ pc = "mark" => \A p \in Paths : Pos(p) >= idx => mem.op[p] = "PENDING"
    /\ pc \in LoopSteps \ {"mark"} =>
        /\ mem.op[ApplyPath(idx)] = "APPLYING"
        /\ \A p \in Paths : Pos(p) > idx => mem.op[p] = "PENDING"

\* The command's copy is never behind the stored one.
AheadOf(j, k) == \A p \in Paths : Rank[j.op[p]] <= Rank[k.op[p]]
RankInv == pc # "idle" => AheadOf(journal, mem)

CopyInv == SyncInv /\ TodoInv /\ RankInv

LEMMA RankFacts ==
    /\ Rank["PENDING"] = 0 /\ Rank["APPLYING"] = 1
    /\ Rank["APPLIED"] = 2 /\ Rank["ROLLED_BACK"] = 3
    /\ \A s \in OpStatus : Rank[s] \in 0..3
  BY DEF Rank, OpStatus, Live

LEMMA AheadReflexive == ASSUME NEW j \in Journal PROVE AheadOf(j, j)
  BY RankFacts DEF AheadOf, Journal

LEMMA AheadTransitive ==
    ASSUME NEW j \in Journal, NEW k \in Journal, NEW l \in Journal,
           AheadOf(j, k), AheadOf(k, l)
    PROVE  AheadOf(j, l)
<1> SUFFICES ASSUME NEW p \in Paths PROVE Rank[j.op[p]] <= Rank[l.op[p]]
  BY DEF AheadOf
<1>1. {Rank[j.op[p]], Rank[k.op[p]], Rank[l.op[p]]} \subseteq 0..3
  BY RankFacts DEF Journal
<1> QED
  BY <1>1 DEF AheadOf

\* Setting an operation to a later status.
LEMMA AheadSet ==
    ASSUME NEW j \in Journal, NEW k \in Journal, AheadOf(j, k),
           NEW p \in Paths, NEW s \in OpStatus, Rank[k.op[p]] <= Rank[s]
    PROVE  AheadOf(j, SetOp(k, p, s))
<1>1. SetOp(k, p, s) \in Journal
  BY SetOpFacts
<1>2. AheadOf(k, SetOp(k, p, s))
  <2> SUFFICES ASSUME NEW q \in Paths PROVE Rank[k.op[q]] <= Rank[SetOp(k, p, s).op[q]]
    BY DEF AheadOf
  <2>1. SetOp(k, p, s).op[q] = IF q = p THEN s ELSE k.op[q]
    BY SetOpRead
  <2>2. k.op[q] \in OpStatus
    BY DEF Journal
  <2> QED
    BY <2>1, <2>2, RankFacts
<1> QED
  BY <1>1, <1>2, AheadTransitive

-----------------------------------------------------------------------------
LEMMA SyncStep == IInv /\ SyncInv /\ [Next]_vars => SyncInv'
<1> SUFFICES ASSUME IInv, SyncInv, [Next]_vars PROVE SyncInv'
  OBVIOUS
<1>0. mem \in Journal /\ journal \in Journal /\ idx \in 0..NumPaths
  BY DEF IInv, TypeOK, ControlOK, DataOK
<1> USE DEF SyncInv, ApplySteps, RollbackSteps
<1>1. CASE ApplyBegin
  BY <1>1 DEF ApplyBegin, Appliable, Goto
<1>2. CASE Approve
  BY <1>2, <1>0, StageFacts DEF Approve, Save, Unsaved, Goto, Exit
<1>3. CASE EnterApplying
  BY <1>3, <1>0, StageFacts DEF EnterApplying, Save, Unsaved, Exit
<1>4. CASE MarkApplying
  <2>1. ApplyPath(idx) \in Paths
    BY <1>0, <1>4, ApplyOrder DEF MarkApplying, IInv, LoopInv, FileSteps, LoopSteps
  <2>2. mem'.status = mem.status
    BY <1>0, <1>4, <2>1, SetOpFacts, Names DEF MarkApplying
  <2> QED
    BY <1>4, <2>2 DEF MarkApplying, Save, Unsaved, Goto, Abandon
<1>5. CASE EnsureParent
  BY <1>5 DEF EnsureParent, Abandon
<1>6. CASE WriteTemp
  BY <1>6 DEF WriteTemp, Goto
<1>7. CASE Publish
  BY <1>7 DEF Publish, Goto
<1>8. CASE DropTemp
  BY <1>8 DEF DropTemp
<1>9. CASE MarkApplied
  <2>1. ApplyPath(idx) \in Paths
    BY <1>0, <1>9, ApplyOrder DEF MarkApplied, IInv, LoopInv, FileSteps, LoopSteps
  <2>2. mem'.status = mem.status
    BY <1>0, <1>9, <2>1, SetOpFacts, Names DEF MarkApplied
  <2> QED
    BY <1>9, <2>2 DEF MarkApplied, Save, Unsaved, Abandon
<1>10. CASE VerifyFile
  BY <1>10 DEF VerifyFile, Abandon
<1>11. CASE Validate
  BY <1>11 DEF Validate, Goto, Abandon
<1>12. CASE RecordValidated
  BY <1>12, <1>0, StageFacts DEF RecordValidated, Save, Unsaved, Goto, Exit
<1>13. CASE Finalize
  BY <1>13, <1>0, SettleFacts, Names DEF Finalize, Save, Unsaved, Goto, Exit
<1>14. CASE Cleanup
  BY <1>14 DEF Cleanup, RemoveBundle, Exit
<1>15. CASE UndoTemp
  BY <1>15 DEF UndoTemp
<1>15b. CASE UndoDirs
  BY <1>15b DEF UndoDirs
<1>16. CASE RollbackCheck
  BY <1>16 DEF RollbackCheck, Keep, Goto
<1>17. CASE RollbackRemove
  <2>1. ApplyPath(idx) \in Paths
    BY <1>0, <1>17, ApplyOrder DEF RollbackRemove, IInv, LoopInv, FileSteps
  <2>2. mem'.status = mem.status
    BY <1>0, <1>17, <2>1, SetOpFacts, Names DEF RollbackRemove
  <2> QED
    BY <1>17, <2>2 DEF RollbackRemove, Keep, Goto
<1>18. CASE RollbackDirs
  BY <1>18 DEF RollbackDirs
<1>19. CASE RollbackEnd
  BY <1>19 DEF RollbackEnd, Save, Unsaved, Exit
<1>20. CASE RecoverBegin
  BY <1>20 DEF RecoverBegin
<1>21. CASE Preflight
  BY <1>21 DEF Preflight, Exit
<1>22. CASE RecoverCheck
  BY <1>22, <1>0, PlanOrder, SetOpFacts, Names DEF RecoverCheck, RecoverFail, Save, Unsaved, Goto, Exit
<1>23. CASE RecoverUnreadable
  BY <1>23 DEF RecoverUnreadable, Exit
<1>24. CASE RecoverRemove
  <2>1. idx \in Paths
    BY <1>0, <1>24, PlanOrder DEF RecoverRemove, IInv, LoopInv, FileSteps
  <2>2. mem'.status = mem.status \/ pc' = "idle"
    BY <1>0, <1>24, <2>1, SetOpFacts, Names DEF RecoverRemove, RecoverFail, Exit
  <2> QED
    BY <1>24, <2>2 DEF RecoverRemove, RecoverFail, Save, Unsaved, Goto, Exit
<1>25. CASE RecoverWrite
  BY <1>25 DEF RecoverWrite, Save, Unsaved, Exit
<1>26. CASE RecoverEnd
  BY <1>26 DEF RecoverEnd, Save, Unsaved, Exit
<1>27. CASE Discard
  BY <1>27 DEF Discard, RemoveBundle, command
<1>28. CASE Crash
  BY <1>28 DEF Crash, Exit
<1>29. ASSUME NEW p \in Paths, UserWrite(p) PROVE SyncInv'
  BY <1>29 DEF UserWrite, command, Edit
<1>30. ASSUME NEW p \in Paths, UserDelete(p) PROVE SyncInv'
  BY <1>30 DEF UserDelete, command, Edit
<1>31. ASSUME NEW p \in Paths, UserTidy(p) PROVE SyncInv'
  BY <1>31 DEF UserTidy, command
<1>32. CASE UNCHANGED vars
  BY <1>32 DEF vars, command, target
<1> QED
  BY <1>1, <1>2, <1>3, <1>4, <1>5, <1>6, <1>7, <1>8, <1>9, <1>10, <1>11, <1>12, <1>13, <1>14, <1>15, <1>15b, <1>16, <1>17, <1>18, <1>19, <1>20, <1>21, <1>22, <1>23, <1>24, <1>25, <1>26, <1>27, <1>28, <1>29, <1>30, <1>31, <1>32
     DEF Next, EngineStep, ApplyStep, RollbackStep, RecoverStep, UserStep

LEMMA TodoStep == IInv /\ TodoInv /\ [Next]_vars => TodoInv'
<1> SUFFICES ASSUME IInv, TodoInv, [Next]_vars PROVE TodoInv'
  OBVIOUS
<1> USE DEF TodoInv, LoopSteps
<1>1. CASE ApplyBegin
  BY <1>1 DEF ApplyBegin, Goto
<1>2. CASE Approve
  BY <1>2 DEF Approve, Save, Unsaved, Goto, Exit
<1>3. CASE EnterApplying
  <2>1. CASE Unsaved /\ Exit
    BY <1>3, <2>1 DEF Exit
  <2>2. CASE mem' = SetStage(mem, "FILES_APPLYING") /\ pc' = "mark" /\ idx' = 1
    <3>1. mem'.op = mem.op
      BY <2>2, StageFacts DEF IInv, TypeOK, DataOK
    <3> QED
      BY <1>3, <2>2, <3>1 DEF EnterApplying, IInv, StatusInv
  <2> QED
    BY <1>3, <2>1, <2>2 DEF EnterApplying
<1>4. CASE MarkApplying
  <2>1. CASE Unsaved /\ Abandon
    BY <2>1 DEF Abandon
  <2>2. CASE Save(mem') /\ Goto("parent")
    <3>1. mem \in Journal /\ idx \in 1..NumPaths
      BY <1>4 DEF MarkApplying, IInv, TypeOK, ControlOK, DataOK, LoopInv, FileSteps
    <3>2. mem' = SetOp(mem, ApplyPath(idx), "APPLYING") /\ pc' = "parent" /\ idx' = idx
      BY <1>4, <2>2 DEF MarkApplying, Goto
    <3>3. \A q \in Paths : mem'.op[q] = IF q = ApplyPath(idx) THEN "APPLYING" ELSE mem.op[q]
      BY <3>1, <3>2, ApplyOrder, SetOpRead
    <3>4. \A q \in Paths : Pos(q) > idx => q # ApplyPath(idx) /\ mem.op[q] = "PENDING"
      BY <1>4, <3>1, ApplyOrder DEF MarkApplying
    <3> QED
      BY <3>1, <3>2, <3>3, <3>4, ApplyOrder
  <2> QED
    BY <1>4, <2>1, <2>2 DEF MarkApplying
<1>5. CASE EnsureParent
  BY <1>5 DEF EnsureParent, Abandon
<1>6. CASE WriteTemp
  BY <1>6 DEF WriteTemp, Goto
<1>7. CASE Publish
  BY <1>7 DEF Publish, Goto
<1>8. CASE DropTemp
  BY <1>8 DEF DropTemp
<1>9. CASE MarkApplied
  <2>1. CASE Unsaved /\ Abandon
    BY <2>1 DEF Abandon
  <2>2. CASE Save(mem') /\ pc' = "mark" /\ idx' = idx + 1
    <3>1. mem \in Journal /\ idx \in 1..NumPaths
      BY <1>9 DEF MarkApplied, IInv, TypeOK, ControlOK, DataOK, LoopInv, FileSteps
    <3>2. mem' = SetOp(mem, ApplyPath(idx), "APPLIED")
      BY <1>9 DEF MarkApplied
    <3>3. \A q \in Paths : mem'.op[q] = IF q = ApplyPath(idx) THEN "APPLIED" ELSE mem.op[q]
      BY <3>1, <3>2, ApplyOrder, SetOpRead, Names
    <3>4. \A q \in Paths : Pos(q) >= idx + 1 => q # ApplyPath(idx) /\ mem.op[q] = "PENDING"
      BY <1>9, <3>1, ApplyOrder DEF MarkApplied
    <3> QED
      BY <2>2, <3>3, <3>4
  <2>3. CASE pc' = "verify"
    BY <2>3
  <2> QED
    BY <1>9, <2>1, <2>2, <2>3 DEF MarkApplied
<1>10. CASE VerifyFile
  BY <1>10 DEF VerifyFile, Abandon
<1>11. CASE Validate
  BY <1>11 DEF Validate, Goto, Abandon
<1>12. CASE RecordValidated
  BY <1>12 DEF RecordValidated, Save, Unsaved, Goto, Exit
<1>13. CASE Finalize
  BY <1>13 DEF Finalize, Save, Unsaved, Goto, Exit
<1>14. CASE Cleanup
  BY <1>14 DEF Cleanup, RemoveBundle, Exit
<1>15. CASE UndoTemp
  BY <1>15 DEF UndoTemp
<1>15b. CASE UndoDirs
  BY <1>15b DEF UndoDirs
<1>16. CASE RollbackCheck
  BY <1>16 DEF RollbackCheck, Keep, Goto
<1>17. CASE RollbackRemove
  BY <1>17 DEF RollbackRemove, Keep, Goto
<1>18. CASE RollbackDirs
  BY <1>18 DEF RollbackDirs
<1>19. CASE RollbackEnd
  BY <1>19 DEF RollbackEnd, Save, Unsaved, Exit
<1>20. CASE RecoverBegin
  BY <1>20 DEF RecoverBegin
<1>21. CASE Preflight
  BY <1>21 DEF Preflight, Exit
<1>22. CASE RecoverCheck
  BY <1>22 DEF RecoverCheck, RecoverFail, Save, Unsaved, Goto, Exit
<1>23. CASE RecoverUnreadable
  BY <1>23 DEF RecoverUnreadable, Exit
<1>24. CASE RecoverRemove
  BY <1>24 DEF RecoverRemove, RecoverFail, Save, Unsaved, Goto, Exit
<1>25. CASE RecoverWrite
  BY <1>25 DEF RecoverWrite, Save, Unsaved, Exit
<1>26. CASE RecoverEnd
  BY <1>26 DEF RecoverEnd, Save, Unsaved, Exit
<1>27. CASE Discard
  BY <1>27 DEF Discard, RemoveBundle, command
<1>28. CASE Crash
  BY <1>28 DEF Crash, Exit
<1>29. ASSUME NEW p \in Paths, UserWrite(p) PROVE TodoInv'
  BY <1>29 DEF UserWrite, command, Edit
<1>30. ASSUME NEW p \in Paths, UserDelete(p) PROVE TodoInv'
  BY <1>30 DEF UserDelete, command, Edit
<1>31. ASSUME NEW p \in Paths, UserTidy(p) PROVE TodoInv'
  BY <1>31 DEF UserTidy, command
<1>32. CASE UNCHANGED vars
  BY <1>32 DEF vars, command, target
<1> QED
  BY <1>1, <1>2, <1>3, <1>4, <1>5, <1>6, <1>7, <1>8, <1>9, <1>10, <1>11, <1>12, <1>13, <1>14, <1>15, <1>15b, <1>16, <1>17, <1>18, <1>19, <1>20, <1>21, <1>22, <1>23, <1>24, <1>25, <1>26, <1>27, <1>28, <1>29, <1>30, <1>31, <1>32
     DEF Next, EngineStep, ApplyStep, RollbackStep, RecoverStep, UserStep

LEMMA RankStep == IInv /\ TodoInv /\ RankInv /\ [Next]_vars => RankInv'
<1> SUFFICES ASSUME IInv, TodoInv, RankInv, [Next]_vars PROVE RankInv'
  OBVIOUS
<1>0. /\ mem \in Journal /\ journal \in Journal
      /\ mem' \in Journal /\ journal' \in Journal /\ idx \in 0..NumPaths
  BY NextInv DEF IInv, TypeOK, ControlOK, DataOK
<1> USE DEF RankInv
<1>1. CASE ApplyBegin
  BY <1>0, <1>1, AheadReflexive DEF ApplyBegin
<1>2. CASE Approve
  BY <1>0, <1>2, AheadReflexive DEF Approve, Save, Unsaved, Exit
<1>3. CASE EnterApplying
  BY <1>0, <1>3, AheadReflexive DEF EnterApplying, Save, Unsaved, Exit
<1>4. CASE MarkApplying
  <2>1. CASE journal' = mem'
    BY <1>0, <2>1, AheadReflexive
  <2>2. CASE journal' = journal
    <3>1. idx \in 1..NumPaths /\ AheadOf(journal, mem)
      BY <1>0, <1>4 DEF MarkApplying, IInv, LoopInv, FileSteps, LoopSteps
    <3>2. ApplyPath(idx) \in Paths /\ mem.op[ApplyPath(idx)] = "PENDING"
      BY <1>4, <3>1, ApplyOrder DEF MarkApplying, TodoInv
    <3> QED
      BY <1>0, <1>4, <2>2, <3>1, <3>2, AheadSet, RankFacts, Names DEF MarkApplying
  <2> QED
    BY <1>4, <2>1, <2>2 DEF MarkApplying, Save, Unsaved
<1>5. CASE EnsureParent
  BY <1>5 DEF EnsureParent, Abandon
<1>6. CASE WriteTemp
  BY <1>6 DEF WriteTemp, Goto
<1>7. CASE Publish
  BY <1>7 DEF Publish, Goto
<1>8. CASE DropTemp
  BY <1>8 DEF DropTemp
<1>9. CASE MarkApplied
  <2>1. CASE journal' = mem'
    BY <1>0, <2>1, AheadReflexive
  <2>2. CASE journal' = journal
    <3>1. idx \in 1..NumPaths /\ AheadOf(journal, mem)
      BY <1>0, <1>9 DEF MarkApplied, IInv, LoopInv, FileSteps, LoopSteps
    <3>2. ApplyPath(idx) \in Paths /\ mem.op[ApplyPath(idx)] = "APPLYING"
      BY <1>9, <3>1, ApplyOrder DEF MarkApplied, TodoInv, LoopSteps
    <3> QED
      BY <1>0, <1>9, <2>2, <3>1, <3>2, AheadSet, RankFacts, Names DEF MarkApplied
  <2> QED
    BY <1>9, <2>1, <2>2 DEF MarkApplied, Save, Unsaved
<1>10. CASE VerifyFile
  BY <1>10 DEF VerifyFile, Abandon
<1>11. CASE Validate
  BY <1>11 DEF Validate, Goto, Abandon
<1>12. CASE RecordValidated
  BY <1>0, <1>12, AheadReflexive DEF RecordValidated, Save, Unsaved, Exit
<1>13. CASE Finalize
  BY <1>0, <1>13, AheadReflexive DEF Finalize, Save, Unsaved, Exit
<1>14. CASE Cleanup
  BY <1>14 DEF Cleanup, Exit
<1>15. CASE UndoTemp
  BY <1>15 DEF UndoTemp
<1>15b. CASE UndoDirs
  BY <1>15b DEF UndoDirs
<1>16. CASE RollbackCheck
  BY <1>16 DEF RollbackCheck, Keep, Goto
<1>17. CASE RollbackRemove
  <2>1. idx \in 1..NumPaths /\ AheadOf(journal, mem)
    BY <1>0, <1>17 DEF RollbackRemove, IInv, LoopInv, FileSteps
  <2>2. ApplyPath(idx) \in Paths /\ mem.op[ApplyPath(idx)] \in OpStatus
    BY <1>0, <2>1, ApplyOrder DEF Journal
  <2>3. AheadOf(journal, SetOp(mem, ApplyPath(idx), "ROLLED_BACK"))
    BY <1>0, <2>1, <2>2, AheadSet, RankFacts, Names
  <2> QED
    BY <1>17, <2>1, <2>3 DEF RollbackRemove
<1>18. CASE RollbackDirs
  BY <1>18 DEF RollbackDirs
<1>19. CASE RollbackEnd
  BY <1>19 DEF RollbackEnd, Save, Unsaved, Exit
<1>20. CASE RecoverBegin
  BY <1>0, <1>20, AheadReflexive DEF RecoverBegin
<1>21. CASE Preflight
  BY <1>21 DEF Preflight, Exit
<1>22. CASE RecoverCheck
  <2>1. CASE idx = 0
    BY <1>22, <2>1 DEF RecoverCheck
  <2>2. CASE idx # 0
    <3>1. idx \in Paths /\ AheadOf(journal, mem) /\ mem.op[idx] \in OpStatus
      BY <1>0, <1>22, <2>2, PlanOrder DEF RecoverCheck, Journal
    <3>2. AheadOf(journal, SetOp(mem, idx, "ROLLED_BACK"))
      BY <1>0, <3>1, AheadSet, RankFacts, Names
    <3> QED
      BY <1>22, <3>1, <3>2 DEF RecoverCheck, RecoverFail, Exit
  <2> QED
    BY <2>1, <2>2
<1>23. CASE RecoverUnreadable
  BY <1>23 DEF RecoverUnreadable, Exit
<1>24. CASE RecoverRemove
  <2>1. idx \in Paths /\ AheadOf(journal, mem) /\ mem.op[idx] \in OpStatus
    BY <1>0, <1>24, PlanOrder DEF RecoverRemove, IInv, LoopInv, FileSteps, Journal
  <2>2. AheadOf(journal, SetOp(mem, idx, "ROLLED_BACK"))
    BY <1>0, <2>1, AheadSet, RankFacts, Names
  <2> QED
    BY <1>24, <2>1, <2>2 DEF RecoverRemove, RecoverFail, Exit
<1>25. CASE RecoverWrite
  BY <1>0, <1>25, AheadReflexive DEF RecoverWrite, Save, Unsaved, Exit
<1>26. CASE RecoverEnd
  BY <1>26 DEF RecoverEnd, Save, Unsaved, Exit
<1>27. CASE Discard
  BY <1>27 DEF Discard, command
<1>28. CASE Crash
  BY <1>28 DEF Crash, Exit
<1>29. ASSUME NEW p \in Paths, UserWrite(p) PROVE RankInv'
  BY <1>29 DEF UserWrite, command
<1>30. ASSUME NEW p \in Paths, UserDelete(p) PROVE RankInv'
  BY <1>30 DEF UserDelete, command
<1>31. ASSUME NEW p \in Paths, UserTidy(p) PROVE RankInv'
  BY <1>31 DEF UserTidy, command
<1>32. CASE UNCHANGED vars
  BY <1>32 DEF vars, command, target
<1> QED
  BY <1>1, <1>2, <1>3, <1>4, <1>5, <1>6, <1>7, <1>8, <1>9, <1>10, <1>11, <1>12, <1>13, <1>14, <1>15, <1>15b, <1>16, <1>17, <1>18, <1>19, <1>20, <1>21, <1>22, <1>23, <1>24, <1>25, <1>26, <1>27, <1>28, <1>29, <1>30, <1>31, <1>32
     DEF Next, EngineStep, ApplyStep, RollbackStep, RecoverStep, UserStep

LEMMA CopyInductive == Spec => [](IInv /\ CopyInv)
<1>1. Init => CopyInv
  BY DEF Init, CopyInv, SyncInv, TodoInv, RankInv, LoopSteps, ApplySteps, RollbackSteps
<1>2. IInv /\ CopyInv /\ [Next]_vars => CopyInv'
  BY SyncStep, TodoStep, RankStep DEF CopyInv
<1> QED
  BY <1>1, <1>2, InitInv, NextInv, PTL DEF Spec

-----------------------------------------------------------------------------
(* What a step may do to a file. *)

\* Only publication makes a file the run's, and only where there is none.
LEMMA Published ==
    ASSUME IInv, [Next]_vars, NEW q \in Paths, file[q] # "generated", file'[q] = "generated"
    PROVE  Publish /\ q = ApplyPath(idx) /\ file[q] = "absent"
<1>0. /\ file \in [Paths -> Content]
      /\ idx \in 0..NumPaths
  BY DEF IInv, TypeOK, ControlOK, DataOK
<1>1. CASE ApplyBegin
  BY <1>1 DEF ApplyBegin, target
<1>2. CASE Approve
  BY <1>2 DEF Approve, target
<1>3. CASE EnterApplying
  BY <1>3 DEF EnterApplying, target
<1>4. CASE MarkApplying
  BY <1>4 DEF MarkApplying, target
<1>5. CASE EnsureParent
  BY <1>5 DEF EnsureParent
<1>6. CASE WriteTemp
  BY <1>6 DEF WriteTemp
<1>7. CASE Publish
  <2>1. idx \in 1..NumPaths
    BY <1>0, <1>7 DEF Publish, IInv, LoopInv, FileSteps, LoopSteps
  <2> QED
    BY <1>0, <1>7, <2>1, ApplyOrder DEF Publish
<1>8. CASE DropTemp
  BY <1>8 DEF DropTemp
<1>9. CASE MarkApplied
  BY <1>9 DEF MarkApplied, target
<1>10. CASE VerifyFile
  BY <1>10 DEF VerifyFile, target
<1>11. CASE Validate
  BY <1>11 DEF Validate, target
<1>12. CASE RecordValidated
  BY <1>12 DEF RecordValidated, target
<1>13. CASE Finalize
  BY <1>13 DEF Finalize, target
<1>14. CASE Cleanup
  BY <1>14 DEF Cleanup, target
<1>15. CASE UndoTemp
  BY <1>15 DEF UndoTemp
<1>15b. CASE UndoDirs
  BY <1>15b DEF UndoDirs
<1>16. CASE RollbackCheck
  BY <1>16 DEF RollbackCheck, target
<1>17. CASE RollbackRemove
  BY <1>0, <1>17 DEF RollbackRemove
<1>18. CASE RollbackDirs
  BY <1>18 DEF RollbackDirs
<1>19. CASE RollbackEnd
  BY <1>19 DEF RollbackEnd, target
<1>20. CASE RecoverBegin
  BY <1>20 DEF RecoverBegin, target
<1>21. CASE Preflight
  BY <1>21 DEF Preflight, target
<1>22. CASE RecoverCheck
  BY <1>22 DEF RecoverCheck, target
<1>23. CASE RecoverUnreadable
  BY <1>23 DEF RecoverUnreadable, target
<1>24. CASE RecoverRemove
  BY <1>0, <1>24 DEF RecoverRemove
<1>25. CASE RecoverWrite
  BY <1>25 DEF RecoverWrite, target
<1>26. CASE RecoverEnd
  BY <1>26 DEF RecoverEnd, target
<1>27. CASE Discard
  BY <1>27 DEF Discard, target
<1>28. CASE Crash
  BY <1>28 DEF Crash, target
<1>29. ASSUME NEW p \in Paths, UserWrite(p) PROVE Publish /\ q = ApplyPath(idx) /\ file[q] = "absent"
  BY <1>0, <1>29 DEF UserWrite
<1>30. ASSUME NEW p \in Paths, UserDelete(p) PROVE Publish /\ q = ApplyPath(idx) /\ file[q] = "absent"
  BY <1>0, <1>30 DEF UserDelete
<1>31. ASSUME NEW p \in Paths, UserTidy(p) PROVE Publish /\ q = ApplyPath(idx) /\ file[q] = "absent"
  BY <1>0, <1>31 DEF UserTidy
<1>32. CASE UNCHANGED vars
  BY <1>32 DEF vars, target
<1> QED
  BY <1>1, <1>2, <1>3, <1>4, <1>5, <1>6, <1>7, <1>8, <1>9, <1>10, <1>11, <1>12, <1>13, <1>14, <1>15, <1>15b, <1>16, <1>17, <1>18, <1>19, <1>20, <1>21, <1>22, <1>23, <1>24, <1>25, <1>26, <1>27, <1>28, <1>29, <1>30, <1>31, <1>32
     DEF Next, EngineStep, ApplyStep, RollbackStep, RecoverStep, UserStep

\* README: "Existing user files are never overwritten", by any step of any command.
THEOREM UserFilesStay == Spec => NeverOverwrite
<1>1. IInv /\ [Next]_vars =>
          \A p \in Paths : file[p] \in {"foreign", "restored"} => file'[p] # "generated"
  BY Published
<1> QED
  BY <1>1, Inductive, PTL DEF Spec, NeverOverwrite

\* The manifest is published over a journal that has every other file as done.
THEOREM ManifestIsLast == Spec => ManifestLast
<1>1. ASSUME IInv, CopyInv, [Next]_vars,
             file[Manifest] = "absent", file'[Manifest] = "generated", NEW p \in Paths \ {Manifest}
      PROVE  journal.op[p] = "APPLIED" /\ (Untouched(p) => file[p] = "generated")
  <2>1. Manifest \in Paths /\ Pos(Manifest) = NumPaths
    BY NumPathsAssumption DEF Manifest, Paths, Pos
  <2>2. Publish /\ Manifest = ApplyPath(idx)
    BY <1>1, <2>1, Published
  <2>3. idx \in 1..NumPaths
    BY <1>1, <2>2 DEF Publish, IInv, LoopInv, FileSteps, LoopSteps, TypeOK, ControlOK
  <2>4. Pos(p) < idx
    BY <2>1, <2>2, <2>3, ApplyOrder DEF Pos, Paths, Manifest
  <2>5. Done(p) /\ journal = mem
    BY <1>1, <2>2, <2>4 DEF Publish, IInv, ProgressInv, CopyInv, SyncInv, LoopSteps, ApplySteps
  <2> QED
    BY <2>5 DEF Done, Generated
<1>2. IInv /\ CopyInv /\ [Next]_vars =>
          (file[Manifest] = "absent" /\ file'[Manifest] = "generated" =>
              \A p \in Paths \ {Manifest} :
                  /\ journal.op[p] = "APPLIED"
                  /\ Untouched(p) => file[p] = "generated")
  BY <1>1
<1> QED
  BY <1>2, CopyInductive, PTL DEF Spec, ManifestLast

-----------------------------------------------------------------------------
(* What the removal of a file rests on. *)

RemoveSteps == {"rollback_remove", "recover_remove"}

\* The bytes that were checked are still there.
MatchInv ==
    /\ pc = "rollback_remove" => Matches(ApplyPath(idx))
    /\ pc = "recover_remove" => Matches(idx)

\* The user stays away between a check and the removal after it.
NoEditBetween == pc \in RemoveSteps => UNCHANGED edits

OnlyMatched ==
    \A p \in Paths :
        file[p] = "foreign" /\ file'[p] = "absent" => edits'[p] # edits[p]

LEMMA MatchStep ==
    IInv /\ MatchInv /\ [Next]_vars /\ NoEditBetween
        => MatchInv' /\ OnlyMatched
<1> SUFFICES ASSUME IInv, MatchInv, [Next]_vars, NoEditBetween
             PROVE  MatchInv' /\ OnlyMatched
  OBVIOUS
<1> USE DEF NoEditBetween
<1>0. /\ file \in [Paths -> Content]
      /\ edits \in [Paths -> 0..MaxEdits]
      /\ MaxEdits \in Nat
  BY BoundsAssumption DEF IInv, TypeOK, DataOK
<1> USE DEF MatchInv, OnlyMatched, RemoveSteps
<1>1. CASE ApplyBegin
  BY <1>1 DEF ApplyBegin, Goto, target
<1>2. CASE Approve
  BY <1>2 DEF Approve, Goto, Exit, target
<1>3. CASE EnterApplying
  BY <1>3 DEF EnterApplying, Exit, target
<1>4. CASE MarkApplying
  BY <1>4 DEF MarkApplying, Goto, Abandon, target
<1>5. CASE EnsureParent
  BY <1>5 DEF EnsureParent, Abandon
<1>6. CASE WriteTemp
  BY <1>6 DEF WriteTemp, Goto
<1>7. CASE Publish
  BY <1>7, <1>0 DEF Publish, Goto
<1>8. CASE DropTemp
  BY <1>8 DEF DropTemp
<1>9. CASE MarkApplied
  BY <1>9 DEF MarkApplied, Abandon, target
<1>10. CASE VerifyFile
  BY <1>10 DEF VerifyFile, Abandon, target
<1>11. CASE Validate
  BY <1>11 DEF Validate, Goto, Abandon, target
<1>12. CASE RecordValidated
  BY <1>12 DEF RecordValidated, Goto, Exit, target
<1>13. CASE Finalize
  BY <1>13 DEF Finalize, Goto, Exit, target
<1>14. CASE Cleanup
  BY <1>14 DEF Cleanup, Exit, target
<1>15. CASE UndoTemp
  BY <1>15 DEF UndoTemp
<1>15b. CASE UndoDirs
  BY <1>15b DEF UndoDirs
<1>16. CASE RollbackCheck
  BY <1>16 DEF RollbackCheck, Keep, Goto, target, Matches
<1>17. CASE RollbackRemove
  BY <1>17, <1>0 DEF RollbackRemove, Keep, Goto, Matches
<1>18. CASE RollbackDirs
  BY <1>18 DEF RollbackDirs
<1>19. CASE RollbackEnd
  BY <1>19 DEF RollbackEnd, Exit, target
<1>20. CASE RecoverBegin
  BY <1>20 DEF RecoverBegin, target
<1>21. CASE Preflight
  BY <1>21 DEF Preflight, Exit, target
<1>22. CASE RecoverCheck
  BY <1>22 DEF RecoverCheck, RecoverFail, Goto, Exit, target, Matches
<1>23. CASE RecoverUnreadable
  BY <1>23 DEF RecoverUnreadable, Exit, target
<1>24. CASE RecoverRemove
  BY <1>24, <1>0 DEF RecoverRemove, RecoverFail, Goto, Exit, Matches
<1>25. CASE RecoverWrite
  BY <1>25 DEF RecoverWrite, Exit, target
<1>26. CASE RecoverEnd
  BY <1>26 DEF RecoverEnd, Exit, target
<1>27. CASE Discard
  BY <1>27 DEF Discard, command, target
<1>28. CASE Crash
  BY <1>28 DEF Crash, Exit, target
<1>29. ASSUME NEW p \in Paths, UserWrite(p) PROVE MatchInv' /\ OnlyMatched
  BY <1>29, <1>0 DEF UserWrite, Edit, command
<1>30. ASSUME NEW p \in Paths, UserDelete(p) PROVE MatchInv' /\ OnlyMatched
  BY <1>30, <1>0 DEF UserDelete, Edit, command
<1>31. ASSUME NEW p \in Paths, UserTidy(p) PROVE MatchInv' /\ OnlyMatched
  BY <1>31 DEF UserTidy, command, Matches
<1>32. CASE UNCHANGED vars
  BY <1>32 DEF vars, command, target, Matches
<1> QED
  BY <1>1, <1>2, <1>3, <1>4, <1>5, <1>6, <1>7, <1>8, <1>9, <1>10, <1>11, <1>12, <1>13, <1>14, <1>15, <1>15b, <1>16, <1>17, <1>18, <1>19, <1>20, <1>21, <1>22, <1>23, <1>24, <1>25, <1>26, <1>27, <1>28, <1>29, <1>30, <1>31, <1>32
     DEF Next, EngineStep, ApplyStep, RollbackStep, RecoverStep, UserStep

\* Where the user stays away from the target between the check of a file and its
\* removal, only bytes of the plan are removed: the race is all that breaks the
\* contract of docs/spec/safety.md.
THEOREM OnlyTheRaceRemoves ==
    Spec /\ [][NoEditBetween]_vars => OnlyMatchedRemoved
<1>1. Init => MatchInv
  BY DEF Init, MatchInv
<1>2. IInv /\ MatchInv /\ [Next]_vars /\ [NoEditBetween]_vars
        => MatchInv' /\ [OnlyMatched]_vars
  <2>1. CASE UNCHANGED vars
    BY <2>1 DEF MatchInv, Matches, vars, command, target
  <2>2. CASE NoEditBetween
    BY <2>2, MatchStep
  <2> QED
    BY <2>1, <2>2
<1>3. OnlyMatchedRemoved <=> [][OnlyMatched]_vars
  BY DEF OnlyMatchedRemoved, OnlyMatched
<1> QED
  BY <1>1, <1>2, <1>3, Inductive, PTL DEF Spec

-----------------------------------------------------------------------------
(* What a step may do to the stored journal. *)

\* A command works on a run that is interrupted, or would be if it died now.
Open == pc \notin {"idle", "approve", "enter", "cleanup"}

\* The journal is written by the steps of one command, while no file changes.
Written ==
    \/ journal' = journal
    \/ /\ file' = file
       /\ \/ pc = "approve" /\ journal' = SetStage(mem, "APPROVED")
          \/ pc = "enter" /\ journal' = SetStage(mem, "FILES_APPLYING")
          \/ /\ Open
             /\ Eligible(journal') /\ journal'.status = mem.status
             /\ AheadOf(journal, journal')
          \/ Open /\ journal' = RolledBack(mem)
          \/ Open /\ journal' = Incomplete(mem)
          \/ pc = "finalize" /\ journal' = Settle(mem, "FINALIZED", "FINALIZED")
          \/ Discardable(journal) /\ journal' = Gone(journal)

LEMMA WriteStep == IInv /\ CopyInv /\ [Next]_vars => Written
<1> SUFFICES ASSUME IInv, CopyInv, [Next]_vars PROVE Written
  OBVIOUS
<1>0. /\ mem \in Journal /\ journal \in Journal /\ idx \in 0..NumPaths
  BY DEF IInv, TypeOK, ControlOK, DataOK
<1>a. journal' = journal => Written
  BY DEF Written
<1>b. Open => Eligible(mem) /\ AheadOf(journal, mem)
  BY DEF Open, IInv, StatusInv, CopyInv, RankInv
\* Storing what the command remembers with one operation further on.
<1>d. ASSUME Open, UNCHANGED file,
             NEW p \in Paths, NEW s \in OpStatus,
             Rank[mem.op[p]] <= Rank[s], journal' = SetOp(mem, p, s)
      PROVE  Written
  <2>1. AheadOf(journal, journal')
    BY <1>0, <1>b, <1>d, AheadSet
  <2>2. Eligible(journal') /\ journal'.status = mem.status
    BY <1>0, <1>b, <1>d, SetOpFacts DEF Eligible
  <2> QED
    BY <1>d, <2>1, <2>2 DEF Written
<1>1. CASE ApplyBegin
  BY <1>1, <1>a DEF ApplyBegin
<1>2. CASE Approve
  BY <1>2, <1>a DEF Approve, Save, Unsaved, target, Written
<1>3. CASE EnterApplying
  BY <1>3, <1>a DEF EnterApplying, Save, Unsaved, target, Written
<1>4. CASE MarkApplying
  <2>1. CASE journal' = journal
    BY <1>a, <2>1
  <2>2. CASE journal' = SetOp(mem, ApplyPath(idx), "APPLYING")
    <3>1. ApplyPath(idx) \in Paths /\ mem.op[ApplyPath(idx)] = "PENDING"
      BY <1>0, <1>4, ApplyOrder
         DEF MarkApplying, CopyInv, TodoInv, IInv, LoopInv, FileSteps, LoopSteps
    <3> QED
      BY <1>4, <1>d, <2>2, <3>1, RankFacts, Names DEF MarkApplying, target, Open
  <2> QED
    BY <1>4, <2>1, <2>2 DEF MarkApplying, Save, Unsaved
<1>5. CASE EnsureParent
  BY <1>5, <1>a DEF EnsureParent
<1>6. CASE WriteTemp
  BY <1>6, <1>a DEF WriteTemp
<1>7. CASE Publish
  BY <1>7, <1>a DEF Publish
<1>8. CASE DropTemp
  BY <1>8, <1>a DEF DropTemp
<1>9. CASE MarkApplied
  <2>1. CASE journal' = journal
    BY <1>a, <2>1
  <2>2. CASE journal' = SetOp(mem, ApplyPath(idx), "APPLIED")
    <3>1. ApplyPath(idx) \in Paths /\ mem.op[ApplyPath(idx)] = "APPLYING"
      BY <1>0, <1>9, ApplyOrder
         DEF MarkApplied, CopyInv, TodoInv, IInv, LoopInv, FileSteps, LoopSteps
    <3> QED
      BY <1>9, <1>d, <2>2, <3>1, RankFacts, Names DEF MarkApplied, target, Open
  <2> QED
    BY <1>9, <2>1, <2>2 DEF MarkApplied, Save, Unsaved
<1>10. CASE VerifyFile
  BY <1>10, <1>a DEF VerifyFile
<1>11. CASE Validate
  BY <1>11, <1>a DEF Validate
<1>12. CASE RecordValidated
  <2>1. CASE journal' = journal
    BY <1>a, <2>1
  <2>2. CASE journal' = SetStage(mem, "VALIDATED")
    <3>1. Open /\ UNCHANGED file
      BY <1>12 DEF RecordValidated, target, Open
    <3>2. journal'.op = mem.op /\ journal'.status = mem.status /\ Eligible(journal')
      BY <1>0, <2>2, <3>1, <1>b, StageFacts DEF Eligible
    <3>3. AheadOf(journal, journal')
      BY <1>b, <3>1, <3>2 DEF AheadOf, Open
    <3> QED
      BY <3>1, <3>2, <3>3 DEF Written
  <2> QED
    BY <1>12, <2>1, <2>2 DEF RecordValidated, Save, Unsaved
<1>13. CASE Finalize
  BY <1>13, <1>a DEF Finalize, Save, Unsaved, target, Written
<1>14. CASE Cleanup
  BY <1>14, <1>a DEF Cleanup, RemoveBundle, target, Written, Discardable, IInv, StatusInv
<1>15. CASE UndoTemp
  BY <1>15, <1>a DEF UndoTemp
<1>15b. CASE UndoDirs
  BY <1>15b, <1>a DEF UndoDirs
<1>16. CASE RollbackCheck
  BY <1>16, <1>a DEF RollbackCheck
<1>17. CASE RollbackRemove
  BY <1>17, <1>a DEF RollbackRemove
<1>18. CASE RollbackDirs
  BY <1>18, <1>a DEF RollbackDirs
<1>19. CASE RollbackEnd
  BY <1>19, <1>a DEF RollbackEnd, Save, Unsaved, target, Written, Open
<1>20. CASE RecoverBegin
  BY <1>20, <1>a DEF RecoverBegin
<1>21. CASE Preflight
  BY <1>21, <1>a DEF Preflight
<1>22. CASE RecoverCheck
  BY <1>22, <1>a DEF RecoverCheck, RecoverFail, Save, Unsaved, target, Written, Open
<1>23. CASE RecoverUnreadable
  BY <1>23, <1>a DEF RecoverUnreadable, target, Written, Open
<1>24. CASE RecoverRemove
  BY <1>24, <1>a DEF RecoverRemove, RecoverFail, Save, Unsaved, Written, Open
<1>25. CASE RecoverWrite
  <2>1. CASE journal' = journal
    BY <1>a, <2>1
  <2>2. CASE journal' = mem
    BY <1>25, <1>b, <2>2 DEF RecoverWrite, target, Written, Open
  <2> QED
    BY <1>25, <2>1, <2>2 DEF RecoverWrite, Save, Unsaved
<1>26. CASE RecoverEnd
  BY <1>26, <1>a DEF RecoverEnd, Save, Unsaved, target, Written, Open
<1>27. CASE Discard
  BY <1>27, <1>a DEF Discard, RemoveBundle, target, Written
<1>28. CASE Crash
  BY <1>28, <1>a DEF Crash
<1>29. ASSUME NEW p \in Paths, UserWrite(p) PROVE Written
  BY <1>29, <1>a DEF UserWrite
<1>30. ASSUME NEW p \in Paths, UserDelete(p) PROVE Written
  BY <1>30, <1>a DEF UserDelete
<1>31. ASSUME NEW p \in Paths, UserTidy(p) PROVE Written
  BY <1>31, <1>a DEF UserTidy
<1>32. CASE UNCHANGED vars
  BY <1>32, <1>a DEF vars
<1> QED
  BY <1>1, <1>2, <1>3, <1>4, <1>5, <1>6, <1>7, <1>8, <1>9, <1>10, <1>11, <1>12, <1>13, <1>14, <1>15, <1>15b, <1>16, <1>17, <1>18, <1>19, <1>20, <1>21, <1>22, <1>23, <1>24, <1>25, <1>26, <1>27, <1>28, <1>29, <1>30, <1>31, <1>32
     DEF Next, EngineStep, ApplyStep, RollbackStep, RecoverStep, UserStep

\* What JournalForward asks of one step.
Forward ==
    /\ AheadOf(journal, journal')
    /\ journal.status \in {"FAILED", "FINALIZED", "GONE"}
         => journal'.status \in {journal.status, "GONE"}
    /\ Eligible(journal) => ~Appliable(journal')

LEMMA ForwardStep == IInv /\ CopyInv /\ [Next]_vars => Forward
<1> SUFFICES ASSUME IInv, CopyInv, [Next]_vars PROVE Forward
  OBVIOUS
<1>0. mem \in Journal /\ journal \in Journal /\ Written
  BY WriteStep DEF IInv, TypeOK, DataOK
<1>1. pc # "idle" => AheadOf(journal, mem)
  BY DEF CopyInv, RankInv
<1>2. /\ pc \in {"approve", "enter"} => Appliable(journal) /\ Appliable(mem)
      /\ Open => Eligible(journal)
  BY DEF IInv, StatusInv, Open
<1>3. CASE journal' = journal
  BY <1>0, <1>3, AheadReflexive DEF Forward, Eligible, Appliable
<1>4. CASE pc = "approve" /\ journal' = SetStage(mem, "APPROVED")
  BY <1>0, <1>1, <1>2, <1>4, StageFacts DEF Forward, AheadOf, Eligible, Appliable
<1>5. CASE pc = "enter" /\ journal' = SetStage(mem, "FILES_APPLYING")
  BY <1>0, <1>1, <1>2, <1>5, StageFacts DEF Forward, AheadOf, Eligible, Appliable
<1>6. CASE Open /\ Eligible(journal') /\ AheadOf(journal, journal')
  BY <1>2, <1>6 DEF Forward, Eligible, Appliable
<1>7. CASE Open /\ journal' \in {RolledBack(mem), Incomplete(mem)}
  BY <1>0, <1>1, <1>2, <1>7, EndFacts DEF Forward, AheadOf, Eligible, Appliable, Open
<1>8. CASE pc = "finalize" /\ journal' = Settle(mem, "FINALIZED", "FINALIZED")
  BY <1>0, <1>1, <1>2, <1>8, SettleFacts, Names DEF Forward, AheadOf, Eligible, Appliable, Open
<1>9. CASE journal' = Gone(journal)
  BY <1>0, <1>9, EndFacts, AheadReflexive DEF Forward, AheadOf, Appliable
<1> QED
  BY <1>0, <1>3, <1>4, <1>5, <1>6, <1>7, <1>8, <1>9 DEF Written

\* No command moves the stored journal back, whatever it remembered.
THEOREM JournalMovesForward == Spec => JournalForward
<1>1. IInv /\ CopyInv /\ [Next]_vars =>
          /\ \A p \in Paths : Rank[journal.op[p]] <= Rank[journal'.op[p]]
          /\ journal.status \in {"FAILED", "FINALIZED", "GONE"}
               => journal'.status \in {journal.status, "GONE"}
          /\ Eligible(journal) => ~Appliable(journal')
  BY ForwardStep DEF Forward, AheadOf
<1> QED
  BY <1>1, CopyInductive, PTL DEF Spec, JournalForward

-----------------------------------------------------------------------------
(* Every command ends: the argument CommandEnds needs beside fairness. *)

LeftTable ==
    /\ pc = "idle" => Left = 0
    /\ pc \in {"rollback", "recover"} => Left = 3 * idx + 1
    /\ pc \in {"rollback_remove", "recover_remove"} => Left = 3 * idx
    /\ pc \in {"rollback_dirs", "recover_write"} => Left = 3 * idx - 1
    /\ pc = "undo" => Left = 3 * NumPaths + 3
    /\ pc = "undo_dirs" => Left = 3 * NumPaths + 2
    /\ pc = "preflight" => Left = 4 * NumPaths + 2 - idx
    /\ pc = "cleanup" => Left = 1
    /\ pc = "finalize" => Left = 2
    /\ pc = "validated" => Left = 3
    /\ pc = "validate" => Left = 3 * NumPaths + 3
    /\ pc = "verify" => Left = 4 * NumPaths + 4 - idx
    /\ pc = "applied" => Left = 10 * NumPaths + 4 - 6 * idx
    /\ pc = "drop" => Left = 10 * NumPaths + 5 - 6 * idx
    /\ pc = "link" => Left = 10 * NumPaths + 6 - 6 * idx
    /\ pc = "temp" => Left = 10 * NumPaths + 7 - 6 * idx
    /\ pc = "parent" => Left = 10 * NumPaths + 8 - 6 * idx
    /\ pc = "mark" => Left = 10 * NumPaths + 9 - 6 * idx
    /\ pc = "enter" => Left = 10 * NumPaths + 4
    /\ pc = "approve" => Left = 10 * NumPaths + 5

LEMMA LeftRead == LeftTable
  BY DEF LeftTable, Left

LEMMA LeftReadNext == LeftTable'
  BY DEF LeftTable, Left

LEMMA LeftBound == IInv => Left \in 0..(10 * NumPaths + 5)
  BY LeftRead, NumPathsAssumption
     DEF LeftTable, IInv, TypeOK, ControlOK, LoopInv, FileSteps, LoopSteps,
         ApplySteps, RollbackSteps, RecoverSteps

LEMMA LeftShrinks == IInv /\ EngineStep => Left' < Left
<1> SUFFICES ASSUME IInv, EngineStep PROVE Left' < Left
  OBVIOUS
<1>0. /\ NumPaths \in Nat \ {0} /\ idx \in 0..NumPaths /\ created \in 0..NumPaths
      /\ pc \in FileSteps => idx >= 1
  BY NumPathsAssumption DEF IInv, TypeOK, ControlOK, LoopInv
<1> USE LeftRead, LeftReadNext DEF LeftTable, FileSteps, LoopSteps
<1>2. CASE Approve
  BY <1>2, <1>0 DEF Approve, Goto, Exit
<1>3. CASE EnterApplying
  BY <1>3, <1>0 DEF EnterApplying, Exit
<1>4. CASE MarkApplying
  BY <1>4, <1>0 DEF MarkApplying, Goto, Abandon
<1>5. CASE EnsureParent
  BY <1>5, <1>0 DEF EnsureParent, Abandon
<1>6. CASE WriteTemp
  BY <1>6, <1>0 DEF WriteTemp, Goto
<1>7. CASE Publish
  BY <1>7, <1>0 DEF Publish, Goto
<1>8. CASE DropTemp
  BY <1>8, <1>0 DEF DropTemp
<1>9. CASE MarkApplied
  BY <1>9, <1>0 DEF MarkApplied, Abandon
<1>10. CASE VerifyFile
  BY <1>10, <1>0 DEF VerifyFile, Abandon
<1>11. CASE Validate
  BY <1>11, <1>0 DEF Validate, Goto, Abandon
<1>12. CASE RecordValidated
  BY <1>12, <1>0 DEF RecordValidated, Goto, Exit
<1>13. CASE Finalize
  BY <1>13, <1>0 DEF Finalize, Goto, Exit
<1>14. CASE Cleanup
  BY <1>14, <1>0 DEF Cleanup, Exit
<1>15. CASE UndoTemp
  BY <1>15, <1>0 DEF UndoTemp
<1>15b. CASE UndoDirs
  BY <1>15b, <1>0 DEF UndoDirs
<1>16. CASE RollbackCheck
  BY <1>16, <1>0 DEF RollbackCheck, Keep, Goto
<1>17. CASE RollbackRemove
  BY <1>17, <1>0 DEF RollbackRemove, Keep, Goto
<1>18. CASE RollbackDirs
  BY <1>18, <1>0 DEF RollbackDirs
<1>19. CASE RollbackEnd
  BY <1>19, <1>0 DEF RollbackEnd, Exit
<1>21. CASE Preflight
  BY <1>21, <1>0 DEF Preflight, Exit
<1>22. CASE RecoverCheck
  BY <1>22, <1>0 DEF RecoverCheck, RecoverFail, Goto, Exit
<1>23. CASE RecoverUnreadable
  BY <1>23, <1>0 DEF RecoverUnreadable, Exit
<1>24. CASE RecoverRemove
  BY <1>24, <1>0 DEF RecoverRemove, RecoverFail, Goto, Exit
<1>25. CASE RecoverWrite
  BY <1>25, <1>0 DEF RecoverWrite, Exit
<1>26. CASE RecoverEnd
  BY <1>26, <1>0 DEF RecoverEnd, Exit
<1> QED
  BY <1>2, <1>3, <1>4, <1>5, <1>6, <1>7, <1>8, <1>9, <1>10, <1>11, <1>12, <1>13, <1>14, <1>15, <1>15b, <1>16, <1>17, <1>18, <1>19, <1>21, <1>22, <1>23, <1>24, <1>25, <1>26
     DEF EngineStep, ApplyStep, RollbackStep, RecoverStep

\* A command has a bounded number of steps, each brings it nearer its end, and
\* nothing the user does sets it back.
THEOREM CommandsShrink ==
    Spec => /\ [](Left \in 0..(10 * NumPaths + 5))
            /\ [][EngineStep => Left' < Left]_vars
            /\ [][pc # "idle" => Left' <= Left]_vars
<1>1. IInv /\ [Next]_vars => [EngineStep => Left' < Left]_vars
  BY LeftShrinks
<1>2. IInv /\ [Next]_vars => [pc # "idle" => Left' <= Left]_vars
  <2> SUFFICES ASSUME IInv, [Next]_vars, pc # "idle" PROVE Left' <= Left
    OBVIOUS
  <2>0. Left \in Int /\ Left >= 0
    BY LeftBound, NumPathsAssumption
  <2>1. CASE EngineStep
    <3>1. Left' \in Int
      BY NextInv, LeftReadNext, NumPathsAssumption
         DEF LeftTable, IInv, TypeOK, ControlOK, ApplySteps, RollbackSteps, RecoverSteps
    <3> QED
      BY <2>0, <2>1, <3>1, LeftShrinks
  <2>2. CASE Crash
    BY <2>0, <2>2, LeftReadNext DEF LeftTable, Crash, Exit
  <2>3. CASE UNCHANGED command
    <3>1. Left' = Left
      BY <2>3 DEF command, Left
    <3> QED
      BY <2>0, <3>1
  <2> QED
    BY <2>1, <2>2, <2>3 DEF Next, ApplyBegin, RecoverBegin, Discard, UserStep,
       UserWrite, UserDelete, UserTidy, vars
<1> QED
  BY <1>1, <1>2, Inductive, LeftBound, PTL DEF Spec

-----------------------------------------------------------------------------
(* A recovery that is let alone. *)

Undisturbed == pc \in RecoverSteps => UNCHANGED <<faults, edits>>

\* It ends with the run rolled back, or before it touches anything.
RecoveryEnds ==
    pc \in RecoverSteps /\ pc' = "idle" =>
        \/ journal'.status = "FAILED"
        \/ pc = "preflight" /\ \E p \in Paths : Conflict(journal, p)

LEMMA ClearStep ==
    IInv /\ ClearInv /\ [Next]_vars /\ Undisturbed => ClearInv' /\ RecoveryEnds
<1> SUFFICES ASSUME IInv, ClearInv, [Next]_vars, Undisturbed PROVE ClearInv' /\ RecoveryEnds
  OBVIOUS
<1>0. /\ file \in [Paths -> Content] /\ mem \in Journal
      /\ edits \in [Paths -> 0..MaxEdits] /\ MaxEdits \in Nat /\ faults \in Nat
      /\ idx \in 0..NumPaths /\ NumPaths \in Nat
      /\ pc \in FileSteps => idx >= 1
  BY NumPathsAssumption, BoundsAssumption DEF IInv, TypeOK, ControlOK, DataOK, LoopInv
<1>a. pc' \notin RecoverSteps /\ pc \notin RecoverSteps => ClearInv' /\ RecoveryEnds
  BY DEF ClearInv, RecoverSteps, RecoveryEnds
\* The fault of a step is one Undisturbed rules out.
<1>b. pc \in RecoverSteps => ~Fault /\ ~Unsaved
  BY <1>0 DEF Undisturbed, Fault, Unsaved
\* An operation set to ROLLED_BACK leaves the others as they are.
<1>c. ASSUME mem' = SetOp(mem, idx, "ROLLED_BACK"), idx \in Paths
      PROVE  \A p \in Paths : p # idx => mem'.op[p] = mem.op[p]
  BY <1>0, <1>c, SetOpRead
<1>1. CASE ApplyBegin
  BY <1>1, <1>a DEF ApplyBegin, Goto, RecoverSteps
<1>2. CASE Approve
  BY <1>2, <1>a DEF Approve, Goto, Exit, RecoverSteps
<1>3. CASE EnterApplying
  BY <1>3, <1>a DEF EnterApplying, Exit, RecoverSteps
<1>4. CASE MarkApplying
  BY <1>4, <1>a DEF MarkApplying, Goto, Abandon, RecoverSteps
<1>5. CASE EnsureParent
  BY <1>5, <1>a DEF EnsureParent, Abandon, RecoverSteps
<1>6. CASE WriteTemp
  BY <1>6, <1>a DEF WriteTemp, Goto, RecoverSteps
<1>7. CASE Publish
  BY <1>7, <1>a DEF Publish, Goto, RecoverSteps
<1>8. CASE DropTemp
  BY <1>8, <1>a DEF DropTemp, RecoverSteps
<1>9. CASE MarkApplied
  BY <1>9, <1>a DEF MarkApplied, Abandon, RecoverSteps
<1>10. CASE VerifyFile
  BY <1>10, <1>a DEF VerifyFile, Abandon, RecoverSteps
<1>11. CASE Validate
  BY <1>11, <1>a DEF Validate, Goto, Abandon, RecoverSteps
<1>12. CASE RecordValidated
  BY <1>12, <1>a DEF RecordValidated, Goto, Exit, RecoverSteps
<1>13. CASE Finalize
  BY <1>13, <1>a DEF Finalize, Goto, Exit, RecoverSteps
<1>14. CASE Cleanup
  BY <1>14, <1>a DEF Cleanup, Exit, RecoverSteps
<1>15. CASE UndoTemp
  BY <1>15, <1>a DEF UndoTemp, RecoverSteps
<1>15b. CASE UndoDirs
  BY <1>15b, <1>a DEF UndoDirs, RecoverSteps
<1>16. CASE RollbackCheck
  BY <1>16, <1>a DEF RollbackCheck, Keep, Goto, RecoverSteps
<1>17. CASE RollbackRemove
  BY <1>17, <1>a DEF RollbackRemove, Keep, Goto, RecoverSteps
<1>18. CASE RollbackDirs
  BY <1>18, <1>a DEF RollbackDirs, RecoverSteps
<1>19. CASE RollbackEnd
  BY <1>19, <1>a DEF RollbackEnd, Exit, RecoverSteps
<1>20. CASE RecoverBegin
  BY <1>20, <1>0 DEF RecoverBegin, ClearInv, RecoveryEnds, RecoverSteps, Paths
<1>21. CASE Preflight
  BY <1>21, <1>0, <1>b, PlanOrder
     DEF Preflight, Exit, target, ClearInv, RecoverSteps, RecoveryEnds, Conflict, FileSteps
<1>22. CASE RecoverCheck
  <2>1. CASE pc' = "recover" /\ idx' = idx - 1 /\ UNCHANGED <<mem, file>>
    BY <1>22, <1>0, <2>1 DEF RecoverCheck, ClearInv, RecoverSteps, RecoveryEnds, Conflict, Paths
  <2>2. CASE pc' = "recover_write" /\ idx' = idx /\ mem' = SetOp(mem, idx, "ROLLED_BACK")
    BY <1>22, <1>0, <1>c, <2>2 DEF RecoverCheck, target, ClearInv, RecoveryEnds, Conflict, Paths
  <2>3. CASE pc' = "recover_remove" /\ idx' = idx /\ UNCHANGED <<mem, file>> /\ Matches(idx)
    BY <1>22, <1>0, <2>3 DEF RecoverCheck, ClearInv, RecoveryEnds, Conflict, Matches, Paths
  <2>4. CASE mem.op[idx] \in Live /\ file[idx] = "foreign"
    BY <1>22, <1>0, <2>4, PlanOrder DEF RecoverCheck, ClearInv, Conflict
  <2> QED
    BY <1>22, <2>1, <2>2, <2>3, <2>4 DEF RecoverCheck, Goto, target
<1>23. CASE RecoverUnreadable
  BY <1>23, <1>b DEF RecoverUnreadable, RecoverSteps
<1>24. CASE RecoverRemove
  <2>1. /\ file' = [file EXCEPT ![idx] = "absent"] /\ mem' = SetOp(mem, idx, "ROLLED_BACK")
        /\ pc' = "recover_write" /\ idx' = idx /\ idx \in Paths
    BY <1>24, <1>0, <1>b, PlanOrder DEF RecoverRemove, Goto, ClearInv, RecoverSteps, FileSteps
  <2> QED
    BY <1>24, <1>0, <1>c, <2>1 DEF RecoverRemove, ClearInv, RecoveryEnds, Conflict, Paths
<1>25. CASE RecoverWrite
  BY <1>25, <1>0, <1>b DEF RecoverWrite, Save, target, ClearInv, RecoverSteps, RecoveryEnds, Conflict, Paths
<1>26. CASE RecoverEnd
  BY <1>26, <1>0, <1>b, EndFacts DEF RecoverEnd, Save, Exit, ClearInv, RecoverSteps, RecoveryEnds
<1>27. CASE Discard
  BY <1>27, <1>a DEF Discard, command, RecoverSteps
<1>28. CASE Crash
  BY <1>28, <1>a, <1>b DEF Crash, Exit, RecoverSteps
<1>29. ASSUME NEW p \in Paths, UserWrite(p) PROVE ClearInv' /\ RecoveryEnds
  <2>1. edits' # edits
    BY <1>29, <1>0 DEF UserWrite, Edit
  <2> QED
    BY <1>29, <1>a, <2>1 DEF UserWrite, command, Undisturbed
<1>30. ASSUME NEW p \in Paths, UserDelete(p) PROVE ClearInv' /\ RecoveryEnds
  <2>1. edits' # edits
    BY <1>30, <1>0 DEF UserDelete, Edit
  <2> QED
    BY <1>30, <1>a, <2>1 DEF UserDelete, command, Undisturbed
<1>31. ASSUME NEW p \in Paths, UserTidy(p) PROVE ClearInv' /\ RecoveryEnds
  BY <1>31 DEF UserTidy, command, ClearInv, RecoverSteps, RecoveryEnds, Conflict
<1>32. CASE UNCHANGED vars
  BY <1>32 DEF vars, command, target, ClearInv, RecoverSteps, RecoveryEnds, Conflict
<1> QED
  BY <1>1, <1>2, <1>3, <1>4, <1>5, <1>6, <1>7, <1>8, <1>9, <1>10, <1>11, <1>12, <1>13, <1>14, <1>15, <1>15b, <1>16, <1>17, <1>18, <1>19, <1>20, <1>21, <1>22, <1>23, <1>24, <1>25, <1>26, <1>27, <1>28, <1>29, <1>30, <1>31, <1>32
     DEF Next, EngineStep, ApplyStep, RollbackStep, RecoverStep, UserStep

\* The preflight is enough: `recover rollback` fails half-way for an edit or an I/O
\* error that came after it, never for what it could have seen.
THEOREM PreflightSuffices ==
    Spec /\ [][Undisturbed]_vars => [][RecoveryEnds]_vars
<1>1. Init => ClearInv
  BY DEF Init, ClearInv
<1>2. IInv /\ ClearInv /\ [Next]_vars /\ [Undisturbed]_vars => ClearInv' /\ [RecoveryEnds]_vars
  <2>1. CASE UNCHANGED vars
    BY <2>1 DEF ClearInv, Conflict, vars, command, target
  <2>2. CASE Undisturbed
    BY <2>2, ClearStep
  <2> QED
    BY <2>1, <2>2
<1> QED
  BY <1>1, <1>2, Inductive, PTL DEF Spec

=============================================================================
