--------------------------- MODULE CreateRunProofs ---------------------------
EXTENDS CreateRunInv, TLAPS

LEMMA ApplyOrder ==
    /\ \A i \in 1..NumPaths : ApplyPath(i) \in Paths /\ Pos(ApplyPath(i)) = i
    /\ \A p \in Paths : Pos(p) \in 1..NumPaths /\ ApplyPath(Pos(p)) = p
  BY NumPathsAssumption DEF ApplyPath, Pos, Paths, Manifest

LEMMA PlanOrder == \A i : i \in 1..NumPaths <=> i \in Paths
  BY DEF Paths

LEMMA SetOpFacts ==
    ASSUME NEW j \in Journal, NEW p \in Paths, NEW s \in OpStatus
    PROVE  /\ SetOp(j, p, s) \in Journal
           /\ SetOp(j, p, s).status = j.status
           /\ SetOp(j, p, s).stage = j.stage
  BY DEF SetOp, Journal

LEMMA SetOpRead ==
    ASSUME NEW j \in Journal, NEW p \in Paths, NEW s, NEW q \in Paths
    PROVE  SetOp(j, p, s).op[q] = IF q = p THEN s ELSE j.op[q]
  BY DEF SetOp, Journal

LEMMA StageFacts ==
    ASSUME NEW j \in Journal, NEW t \in {"APPROVED", "FILES_APPLYING", "VALIDATED"}
    PROVE  /\ SetStage(j, t) \in Journal
           /\ SetStage(j, t).op = j.op
           /\ SetStage(j, t).status = j.status
           /\ SetStage(j, t).stage = t
  BY DEF SetStage, Journal, Stage

LEMMA SettleFacts ==
    ASSUME NEW j \in Journal, NEW s \in Status, NEW t \in Stage
    PROVE  /\ Settle(j, s, t) \in Journal
           /\ Settle(j, s, t).op = j.op
           /\ Settle(j, s, t).status = s
           /\ Settle(j, s, t).stage = t
  BY DEF Settle, Journal

LEMMA EndFacts ==
    ASSUME NEW j \in Journal
    PROVE  /\ RolledBack(j) \in Journal /\ RolledBack(j).op = j.op
           /\ RolledBack(j).status = "FAILED"
           /\ Incomplete(j) \in Journal /\ Incomplete(j).op = j.op
           /\ Incomplete(j).status = "RECOVERY_REQUIRED"
           /\ Gone(j) \in Journal /\ Gone(j).op = j.op
           /\ Gone(j).status = "GONE"
<1>1. /\ {"FAILED", "RECOVERY_REQUIRED", "GONE"} \subseteq Status
      /\ {"ROLLED_BACK", "ROLLBACK_INCOMPLETE"} \subseteq Stage
  BY DEF Status, Stage
<1>2. Gone(j) \in Journal /\ Gone(j).op = j.op /\ Gone(j).status = "GONE"
  BY <1>1 DEF Gone, Journal
<1> QED
  BY <1>1, <1>2, SettleFacts DEF RolledBack, Incomplete

LEMMA PlannedType == Planned \in Journal
  BY DEF Planned, Journal, Status, Stage, OpStatus, Live
LEMMA Names ==
    /\ "APPLYING" \in Live /\ "APPLIED" \in Live
    /\ "APPLYING" \in OpStatus /\ "APPLIED" \in OpStatus /\ "ROLLED_BACK" \in OpStatus
    /\ "FINALIZED" \in Stage /\ "FINALIZED" \in Status
    /\ {"absent", "generated", "restored", "foreign"} \subseteq Content
  BY DEF OpStatus, Live, Stage, Status, Content

-----------------------------------------------------------------------------
(* TypeOK is preserved, given that the loops stay inside the plan. *)

LEMMA ControlStep == ControlOK /\ LoopInv /\ [Next]_vars => ControlOK'
<1> SUFFICES ASSUME ControlOK, LoopInv, [Next]_vars PROVE ControlOK'
  OBVIOUS
<1> USE NumPathsAssumption DEF ControlOK, ApplySteps, RollbackSteps, RecoverSteps
<1>0. pc \in FileSteps => ApplyPath(idx) \in Paths
  BY ApplyOrder DEF LoopInv, FileSteps, LoopSteps
<1>1. CASE ApplyBegin
  BY <1>1 DEF ApplyBegin, Goto
<1>2. CASE Approve
  BY <1>2 DEF Approve, Goto, Exit
<1>3. CASE EnterApplying
  BY <1>3 DEF EnterApplying, Exit
<1>4. CASE MarkApplying
  BY <1>4 DEF MarkApplying, Goto, Abandon
<1>5. CASE EnsureParent
  BY <1>5 DEF EnsureParent, Abandon
<1>6. CASE WriteTemp
  BY <1>6 DEF WriteTemp, Goto
<1>7. CASE Publish
  BY <1>7 DEF Publish, Goto
<1>8. CASE DropTemp
  BY <1>0, <1>8 DEF DropTemp, RemoveTemp, Miss, FileSteps, LoopSteps
<1>9. CASE MarkApplied
  BY <1>9 DEF MarkApplied, Abandon
<1>10. CASE VerifyFile
  BY <1>10 DEF VerifyFile, Abandon
<1>11. CASE Validate
  BY <1>11 DEF Validate, Goto, Abandon
<1>12. CASE RecordValidated
  BY <1>12 DEF RecordValidated, Goto, Exit
<1>13. CASE Finalize
  BY <1>13 DEF Finalize, Goto, Exit
<1>14. CASE Cleanup
  BY <1>14 DEF Cleanup, Exit
<1>15. CASE UndoTemp
  BY <1>0, <1>15 DEF UndoTemp, RemoveTemp, Miss, FileSteps, LoopSteps
<1>15b. CASE UndoDirs
  BY <1>0, <1>15b DEF UndoDirs, RemoveEmptyDirectory, Miss, FileSteps, LoopSteps
<1>16. CASE RollbackCheck
  BY <1>16, ApplyOrder DEF RollbackCheck, Keep, Goto, Miss
<1>17. CASE RollbackRemove
  BY <1>17, ApplyOrder DEF RollbackRemove, Keep, Goto, Miss, LoopInv, FileSteps, LoopSteps
<1>18. CASE RollbackDirs
  BY <1>0, <1>18 DEF RollbackDirs, RemoveEmptyDirectory, Miss, LoopInv, FileSteps, LoopSteps
<1>19. CASE RollbackEnd
  BY <1>19 DEF RollbackEnd, Exit
<1>20. CASE RecoverBegin
  BY <1>20 DEF RecoverBegin
<1>21. CASE Preflight
  BY <1>21 DEF Preflight, Exit
<1>22. CASE RecoverCheck
  BY <1>22 DEF RecoverCheck, RecoverFail, Goto, Exit
<1>23. CASE RecoverUnreadable
  BY <1>23 DEF RecoverUnreadable, Exit
<1>24. CASE RecoverRemove
  BY <1>24 DEF RecoverRemove, RecoverFail, Goto, Exit
<1>25. CASE RecoverWrite
  BY <1>25 DEF RecoverWrite, Exit, LoopInv, FileSteps, LoopSteps
<1>26. CASE RecoverEnd
  BY <1>26 DEF RecoverEnd, Exit
<1>27. CASE Discard
  BY <1>27 DEF Discard, command
<1>28. CASE Crash
  BY <1>28 DEF Crash, Exit
<1>29. ASSUME NEW p \in Paths, UserWrite(p) PROVE ControlOK'
  BY <1>29 DEF UserWrite, command
<1>30. ASSUME NEW p \in Paths, UserDelete(p) PROVE ControlOK'
  BY <1>30 DEF UserDelete, command
<1>31. ASSUME NEW p \in Paths, UserTidy(p) PROVE ControlOK'
  BY <1>31 DEF UserTidy, command
<1>32. CASE UNCHANGED vars
  BY <1>32 DEF vars, command
<1> QED
  BY <1>1, <1>2, <1>3, <1>4, <1>5, <1>6, <1>7, <1>8, <1>9, <1>10, <1>11, <1>12, <1>13, <1>14, <1>15, <1>15b, <1>16, <1>17, <1>18, <1>19, <1>20, <1>21, <1>22, <1>23, <1>24, <1>25, <1>26, <1>27, <1>28, <1>29, <1>30, <1>31, <1>32
     DEF Next, EngineStep, ApplyStep, RollbackStep, RecoverStep, UserStep

LEMMA DataStep == ControlOK /\ DataOK /\ LoopInv /\ [Next]_vars => DataOK'
<1> SUFFICES ASSUME ControlOK, DataOK, LoopInv, [Next]_vars PROVE DataOK'
  OBVIOUS
<1> USE BoundsAssumption DEF ControlOK, DataOK
<1>1. CASE ApplyBegin
  BY <1>1 DEF ApplyBegin, target
<1>2. CASE Approve
  <2>1. mem' \in Journal /\ journal' \in Journal
    BY <1>2, StageFacts, PlannedType DEF Approve, Save, Unsaved, Exit
  <2> QED
    BY <1>2, <2>1 DEF Approve, Save, Unsaved, Fault, target
<1>3. CASE EnterApplying
  <2>1. mem' \in Journal /\ journal' \in Journal
    BY <1>3, StageFacts, PlannedType DEF EnterApplying, Save, Unsaved, Exit
  <2> QED
    BY <1>3, <2>1 DEF EnterApplying, Save, Unsaved, Fault, target
<1>4. CASE MarkApplying
  BY <1>4, ApplyOrder, SetOpFacts, Names DEF MarkApplying, Save, Unsaved, Fault, target, LoopInv, FileSteps, LoopSteps
<1>5. CASE EnsureParent
  BY <1>5 DEF EnsureParent, Fault
<1>6. CASE WriteTemp
  BY <1>6, ApplyOrder DEF WriteTemp, Fault, LoopInv, FileSteps, LoopSteps
<1>7. CASE Publish
  BY <1>7, Names DEF Publish, Fault
<1>8. CASE DropTemp
  BY <1>8 DEF DropTemp, RemoveTemp, Miss, Fault
<1>9. CASE MarkApplied
  BY <1>9, ApplyOrder, SetOpFacts, Names DEF MarkApplied, Save, Unsaved, Fault, target, LoopInv, FileSteps, LoopSteps
<1>10. CASE VerifyFile
  BY <1>10 DEF VerifyFile, Fault, target
<1>11. CASE Validate
  BY <1>11 DEF Validate, target
<1>12. CASE RecordValidated
  <2>1. mem' \in Journal /\ journal' \in Journal
    BY <1>12, StageFacts, PlannedType DEF RecordValidated, Save, Unsaved, Exit
  <2> QED
    BY <1>12, <2>1 DEF RecordValidated, Save, Unsaved, Fault, target
<1>13. CASE Finalize
  <2>1. mem' \in Journal /\ journal' \in Journal
    BY <1>13, SettleFacts, PlannedType, Names DEF Finalize, Save, Unsaved, Exit
  <2> QED
    BY <1>13, <2>1 DEF Finalize, Save, Unsaved, Fault, target
<1>14. CASE Cleanup
  BY <1>14, EndFacts, PlannedType DEF Cleanup, RemoveBundle, Fault, Exit, target
<1>15. CASE UndoTemp
  BY <1>15 DEF UndoTemp, RemoveTemp, Miss, Fault
<1>15b. CASE UndoDirs
  BY <1>15b DEF UndoDirs, RemoveEmptyDirectory, Miss, Fault
<1>16. CASE RollbackCheck
  BY <1>16 DEF RollbackCheck, Keep, Miss, Fault, target
<1>17. CASE RollbackRemove
  <2>1. mem' \in Journal /\ journal' \in Journal
    BY <1>17, ApplyOrder, SetOpFacts, Names DEF RollbackRemove, LoopInv, FileSteps
  <2> QED
    BY <1>17, <2>1, ApplyOrder, Names DEF RollbackRemove, Miss, Fault
<1>18. CASE RollbackDirs
  BY <1>18 DEF RollbackDirs, RemoveEmptyDirectory, Miss, Fault
<1>19. CASE RollbackEnd
  BY <1>19, EndFacts, PlannedType DEF RollbackEnd, Save, Unsaved, Fault, Exit, target
<1>20. CASE RecoverBegin
  BY <1>20 DEF RecoverBegin, target
<1>21. CASE Preflight
  BY <1>21, PlannedType DEF Preflight, Fault, Exit, target
<1>22. CASE RecoverCheck
  BY <1>22, PlanOrder, SetOpFacts, EndFacts, PlannedType, Names DEF RecoverCheck, RecoverFail, Save, Unsaved, Fault, Exit, target
<1>23. CASE RecoverUnreadable
  BY <1>23, EndFacts, PlannedType DEF RecoverUnreadable, Fault, Exit, target
<1>24. CASE RecoverRemove
  <2>1. mem' \in Journal /\ journal' \in Journal
    BY <1>24, PlanOrder, SetOpFacts, EndFacts, PlannedType, Names DEF RecoverRemove, RecoverFail, Save, Unsaved, Exit, LoopInv, FileSteps
  <2> QED
    BY <1>24, <2>1, Names DEF RecoverRemove, RecoverFail, Save, Unsaved, Fault
<1>25. CASE RecoverWrite
  BY <1>25, PlannedType DEF RecoverWrite, Save, Unsaved, Fault, Exit, target
<1>26. CASE RecoverEnd
  BY <1>26, EndFacts, PlannedType DEF RecoverEnd, Save, Unsaved, Fault, Exit, target
<1>27. CASE Discard
  BY <1>27, EndFacts DEF Discard, RemoveBundle, Fault, command, target
<1>28. CASE Crash
  BY <1>28, PlannedType DEF Crash, Fault, Exit, target
<1>29. ASSUME NEW p \in Paths, UserWrite(p) PROVE DataOK'
  BY <1>29, Names DEF UserWrite, Edit, command
<1>30. ASSUME NEW p \in Paths, UserDelete(p) PROVE DataOK'
  BY <1>30, Names DEF UserDelete, Edit, command
<1>31. ASSUME NEW p \in Paths, UserTidy(p) PROVE DataOK'
  BY <1>31 DEF UserTidy, command
<1>32. CASE UNCHANGED vars
  BY <1>32 DEF vars, command, target
<1> QED
  BY <1>1, <1>2, <1>3, <1>4, <1>5, <1>6, <1>7, <1>8, <1>9, <1>10, <1>11, <1>12, <1>13, <1>14, <1>15, <1>15b, <1>16, <1>17, <1>18, <1>19, <1>20, <1>21, <1>22, <1>23, <1>24, <1>25, <1>26, <1>27, <1>28, <1>29, <1>30, <1>31, <1>32
     DEF Next, EngineStep, ApplyStep, RollbackStep, RecoverStep, UserStep

\* The loop indexes stay in range.
LEMMA LoopStep ==
    ControlOK /\ LoopInv /\ [Next]_vars => LoopInv'
<1> SUFFICES ASSUME ControlOK, LoopInv, [Next]_vars
             PROVE  LoopInv'
  OBVIOUS
<1> USE DEF ControlOK, LoopInv, FileSteps, LoopSteps
<1>1. CASE ApplyBegin
  BY <1>1, NumPathsAssumption DEF ApplyBegin, Goto
<1>2. CASE Approve
  BY <1>2, NumPathsAssumption DEF Approve, Goto, Exit
<1>3. CASE EnterApplying
  BY <1>3, NumPathsAssumption DEF EnterApplying, Exit
<1>4. CASE MarkApplying
  BY <1>4, NumPathsAssumption DEF MarkApplying, Goto, Abandon
<1>5. CASE EnsureParent
  BY <1>5, NumPathsAssumption DEF EnsureParent, Abandon
<1>6. CASE WriteTemp
  BY <1>6, NumPathsAssumption DEF WriteTemp, Goto
<1>7. CASE Publish
  BY <1>7, NumPathsAssumption DEF Publish, Goto
<1>8. CASE DropTemp
  BY <1>8, NumPathsAssumption DEF DropTemp
<1>9. CASE MarkApplied
  BY <1>9, NumPathsAssumption DEF MarkApplied, Abandon
<1>10. CASE VerifyFile
  BY <1>10, NumPathsAssumption DEF VerifyFile, Abandon
<1>11. CASE Validate
  BY <1>11, NumPathsAssumption DEF Validate, Goto, Abandon
<1>12. CASE RecordValidated
  BY <1>12, NumPathsAssumption DEF RecordValidated, Goto, Exit
<1>13. CASE Finalize
  BY <1>13, NumPathsAssumption DEF Finalize, Goto, Exit
<1>14. CASE Cleanup
  BY <1>14, NumPathsAssumption DEF Cleanup, Exit
<1>15. CASE UndoTemp
  BY <1>15, NumPathsAssumption DEF UndoTemp
<1>15b. CASE UndoDirs
  BY <1>15b, NumPathsAssumption DEF UndoDirs
<1>16. CASE RollbackCheck
  BY <1>16, NumPathsAssumption DEF RollbackCheck, Keep, Goto
<1>17. CASE RollbackRemove
  BY <1>17, NumPathsAssumption DEF RollbackRemove, Keep, Goto
<1>18. CASE RollbackDirs
  BY <1>18, NumPathsAssumption DEF RollbackDirs
<1>19. CASE RollbackEnd
  BY <1>19, NumPathsAssumption DEF RollbackEnd, Exit
<1>20. CASE RecoverBegin
  BY <1>20, NumPathsAssumption DEF RecoverBegin
<1>21. CASE Preflight
  BY <1>21, NumPathsAssumption DEF Preflight, Exit
<1>22. CASE RecoverCheck
  BY <1>22, NumPathsAssumption DEF RecoverCheck, RecoverFail, Goto, Exit
<1>23. CASE RecoverUnreadable
  BY <1>23, NumPathsAssumption DEF RecoverUnreadable, Exit
<1>24. CASE RecoverRemove
  BY <1>24, NumPathsAssumption DEF RecoverRemove, RecoverFail, Goto, Exit
<1>25. CASE RecoverWrite
  BY <1>25, NumPathsAssumption DEF RecoverWrite, Exit
<1>26. CASE RecoverEnd
  BY <1>26, NumPathsAssumption DEF RecoverEnd, Exit
<1>27. CASE Discard
  BY <1>27, NumPathsAssumption DEF Discard, command
<1>28. CASE Crash
  BY <1>28, NumPathsAssumption DEF Crash, Exit
<1>29. ASSUME NEW p \in Paths, UserWrite(p) PROVE LoopInv'
  BY <1>29, NumPathsAssumption DEF UserWrite, command
<1>30. ASSUME NEW p \in Paths, UserDelete(p) PROVE LoopInv'
  BY <1>30, NumPathsAssumption DEF UserDelete, command
<1>31. ASSUME NEW p \in Paths, UserTidy(p) PROVE LoopInv'
  BY <1>31, NumPathsAssumption DEF UserTidy, command
<1>32. CASE UNCHANGED vars
  BY <1>32 DEF vars, command
<1> QED
  BY <1>1, <1>2, <1>3, <1>4, <1>5, <1>6, <1>7, <1>8, <1>9, <1>10, <1>11, <1>12, <1>13, <1>14, <1>15, <1>15b, <1>16, <1>17, <1>18, <1>19, <1>20, <1>21, <1>22, <1>23, <1>24, <1>25, <1>26, <1>27, <1>28, <1>29, <1>30, <1>31, <1>32
     DEF Next, EngineStep, ApplyStep, RollbackStep, RecoverStep, UserStep

\* Which journals a command works on.
LEMMA StatusStep ==
    ControlOK /\ DataOK /\ LoopInv /\ StatusInv /\ [Next]_vars => StatusInv'
<1> SUFFICES ASSUME ControlOK, DataOK, LoopInv, StatusInv, [Next]_vars
             PROVE  StatusInv'
  OBVIOUS
<1> USE DEF ControlOK, DataOK, LoopInv, FileSteps, LoopSteps, StatusInv, Appliable, Eligible
<1>1. CASE ApplyBegin
  BY <1>1 DEF ApplyBegin, Goto
<1>2. CASE Approve
  BY <1>2, StageFacts DEF Approve, Save, Unsaved, Goto, Exit
<1>3. CASE EnterApplying
  BY <1>3, StageFacts DEF EnterApplying, Save, Unsaved, Exit
<1>4. CASE MarkApplying
  <2>1. mem'.status = mem.status /\ mem'.stage = mem.stage
    BY <1>4, ApplyOrder, SetOpFacts, Names DEF MarkApplying
  <2> QED
    BY <1>4, <2>1 DEF MarkApplying, Save, Unsaved, Goto, Abandon
<1>5. CASE EnsureParent
  BY <1>5 DEF EnsureParent, Abandon
<1>6. CASE WriteTemp
  BY <1>6 DEF WriteTemp, Goto
<1>7. CASE Publish
  BY <1>7 DEF Publish, Goto
<1>8. CASE DropTemp
  BY <1>8 DEF DropTemp
<1>9. CASE MarkApplied
  <2>1. mem'.status = mem.status /\ mem'.stage = mem.stage
    BY <1>9, ApplyOrder, SetOpFacts, Names DEF MarkApplied
  <2> QED
    BY <1>9, <2>1 DEF MarkApplied, Save, Unsaved, Abandon
<1>10. CASE VerifyFile
  BY <1>10 DEF VerifyFile, Abandon
<1>11. CASE Validate
  BY <1>11 DEF Validate, Goto, Abandon
<1>12. CASE RecordValidated
  BY <1>12, StageFacts DEF RecordValidated, Save, Unsaved, Goto, Exit
<1>13. CASE Finalize
  BY <1>13, SettleFacts, Names DEF Finalize, Save, Unsaved, Goto, Exit
<1>14. CASE Cleanup
  BY <1>14, EndFacts DEF Cleanup, RemoveBundle, Exit
<1>15. CASE UndoTemp
  BY <1>15 DEF UndoTemp
<1>15b. CASE UndoDirs
  BY <1>15b DEF UndoDirs
<1>16. CASE RollbackCheck
  BY <1>16 DEF RollbackCheck, Keep, Goto
<1>17. CASE RollbackRemove
  BY <1>17, ApplyOrder, SetOpFacts, Names DEF RollbackRemove, Keep, Goto
<1>18. CASE RollbackDirs
  BY <1>18 DEF RollbackDirs
<1>19. CASE RollbackEnd
  BY <1>19, EndFacts DEF RollbackEnd, Save, Unsaved, Exit
<1>20. CASE RecoverBegin
  BY <1>20 DEF RecoverBegin
<1>21. CASE Preflight
  BY <1>21 DEF Preflight, Exit
<1>22. CASE RecoverCheck
  <2>1. CASE pc' = "idle"
    BY <1>22, <2>1, EndFacts DEF RecoverCheck, RecoverFail, Save, Unsaved, Goto, Exit
  <2>2. CASE pc' # "idle"
    <3>1. /\ journal' = journal
          /\ mem'.status = mem.status /\ mem'.stage = mem.stage
      BY <1>22, <2>2, PlanOrder, SetOpFacts, Names DEF RecoverCheck, RecoverFail, Exit, Goto
    <3> QED
      BY <1>22, <2>2, <3>1 DEF RecoverCheck, RecoverFail, Exit, Goto
  <2> QED
    BY <2>1, <2>2
<1>23. CASE RecoverUnreadable
  BY <1>23, EndFacts DEF RecoverUnreadable, Exit
<1>24. CASE RecoverRemove
  <2>1. CASE pc' = "idle"
    BY <1>24, <2>1, EndFacts DEF RecoverRemove, RecoverFail, Save, Unsaved, Goto, Exit
  <2>2. CASE pc' # "idle"
    <3>1. journal' = journal /\ mem' = SetOp(mem, idx, "ROLLED_BACK")
      BY <1>24, <2>2 DEF RecoverRemove, RecoverFail, Exit, Goto
    <3>2. idx \in Paths
      BY <1>24, PlanOrder DEF RecoverRemove
    <3>3. mem'.status = mem.status /\ mem'.stage = mem.stage
      BY <3>1, <3>2, SetOpFacts, Names
    <3> QED
      BY <1>24, <2>2, <3>1, <3>3 DEF RecoverRemove, RecoverFail, Exit, Goto
  <2> QED
    BY <2>1, <2>2
<1>25. CASE RecoverWrite
  BY <1>25 DEF RecoverWrite, Save, Unsaved, Exit
<1>26. CASE RecoverEnd
  BY <1>26, EndFacts DEF RecoverEnd, Save, Unsaved, Exit
<1>27. CASE Discard
  BY <1>27, EndFacts DEF Discard, RemoveBundle, command
<1>28. CASE Crash
  BY <1>28 DEF Crash, Exit
<1>29. ASSUME NEW p \in Paths, UserWrite(p) PROVE StatusInv'
  BY <1>29 DEF UserWrite, command
<1>30. ASSUME NEW p \in Paths, UserDelete(p) PROVE StatusInv'
  BY <1>30 DEF UserDelete, command
<1>31. ASSUME NEW p \in Paths, UserTidy(p) PROVE StatusInv'
  BY <1>31 DEF UserTidy, command
<1>32. CASE UNCHANGED vars
  BY <1>32 DEF vars, command
<1> QED
  BY <1>1, <1>2, <1>3, <1>4, <1>5, <1>6, <1>7, <1>8, <1>9, <1>10, <1>11, <1>12, <1>13, <1>14, <1>15, <1>15b, <1>16, <1>17, <1>18, <1>19, <1>20, <1>21, <1>22, <1>23, <1>24, <1>25, <1>26, <1>27, <1>28, <1>29, <1>30, <1>31, <1>32
     DEF Next, EngineStep, ApplyStep, RollbackStep, RecoverStep, UserStep

\* Both copies of the journal know every published file.
LEMMA AheadStep ==
    ControlOK /\ DataOK /\ LoopInv /\ AheadInv /\ [Next]_vars => AheadInv'
<1> SUFFICES ASSUME ControlOK, DataOK, LoopInv, AheadInv, [Next]_vars
             PROVE  AheadInv'
  OBVIOUS
<1> USE DEF ControlOK, DataOK, LoopInv, FileSteps, LoopSteps, AheadInv, WriteAhead, Generated
<1>1. CASE ApplyBegin
  BY <1>1 DEF ApplyBegin, Goto, target
<1>2. CASE Approve
  BY <1>2, StageFacts DEF Approve, Save, Unsaved, Goto, Exit, target
<1>3. CASE EnterApplying
  BY <1>3, StageFacts DEF EnterApplying, Save, Unsaved, Exit, target
<1>4. CASE MarkApplying
  <2>1. ApplyPath(idx) \in Paths /\ mem' = SetOp(mem, ApplyPath(idx), "APPLYING")
    BY <1>4, ApplyOrder DEF MarkApplying
  <2>2. /\ mem'.op[ApplyPath(idx)] \in Live
        /\ \A q \in Paths : mem.op[q] \in Live => mem'.op[q] \in Live
    BY <2>1, SetOpRead, Names
  <2> QED
    BY <1>4, <2>2 DEF MarkApplying, Save, Unsaved, Goto, Abandon, target
<1>5. CASE EnsureParent
  BY <1>5 DEF EnsureParent, Abandon
<1>6. CASE WriteTemp
  BY <1>6 DEF WriteTemp, Goto
<1>7. CASE Publish
  BY <1>7 DEF Publish, Goto
<1>8. CASE DropTemp
  BY <1>8 DEF DropTemp
<1>9. CASE MarkApplied
  <2>1. ApplyPath(idx) \in Paths /\ mem' = SetOp(mem, ApplyPath(idx), "APPLIED")
    BY <1>9, ApplyOrder DEF MarkApplied
  <2>2. /\ mem'.op[ApplyPath(idx)] \in Live
        /\ \A q \in Paths : mem.op[q] \in Live => mem'.op[q] \in Live
    BY <2>1, SetOpRead, Names
  <2> QED
    BY <1>9, <2>2 DEF MarkApplied, Save, Unsaved, Abandon, target
<1>10. CASE VerifyFile
  BY <1>10 DEF VerifyFile, Abandon, target
<1>11. CASE Validate
  BY <1>11 DEF Validate, Goto, Abandon, target
<1>12. CASE RecordValidated
  BY <1>12, StageFacts DEF RecordValidated, Save, Unsaved, Goto, Exit, target
<1>13. CASE Finalize
  BY <1>13, SettleFacts, Names DEF Finalize, Save, Unsaved, Goto, Exit, target
<1>14. CASE Cleanup
  BY <1>14, EndFacts DEF Cleanup, RemoveBundle, Exit, target
<1>15. CASE UndoTemp
  BY <1>15 DEF UndoTemp
<1>15b. CASE UndoDirs
  BY <1>15b DEF UndoDirs
<1>16. CASE RollbackCheck
  BY <1>16 DEF RollbackCheck, Keep, Goto, target
<1>17. CASE RollbackRemove
  <2>1. CASE UNCHANGED <<file, mem>>
    BY <1>17, <2>1 DEF RollbackRemove, Keep, Goto
  <2>2. CASE file' = [file EXCEPT ![ApplyPath(idx)] = "absent"] /\ pc' = "rollback_dirs"
    <3>1. ApplyPath(idx) \in Paths /\ mem' = SetOp(mem, ApplyPath(idx), "ROLLED_BACK")
      BY <1>17, <2>2, ApplyOrder DEF RollbackRemove, Keep
    <3>2. \A q \in Paths : file'[q] = "generated" =>
             file[q] = "generated" /\ mem'.op[q] = mem.op[q]
      BY <2>2, <3>1, SetOpRead DEF DataOK
    <3> QED
      BY <1>17, <2>2, <3>2 DEF RollbackRemove
  <2> QED
    BY <1>17, <2>1, <2>2 DEF RollbackRemove, Goto
<1>18. CASE RollbackDirs
  BY <1>18 DEF RollbackDirs
<1>19. CASE RollbackEnd
  BY <1>19, EndFacts DEF RollbackEnd, Save, Unsaved, Exit, target
<1>20. CASE RecoverBegin
  BY <1>20 DEF RecoverBegin, target
<1>21. CASE Preflight
  BY <1>21 DEF Preflight, Exit, target
<1>22. CASE RecoverCheck
  <2>1. CASE pc' = "idle"
    BY <1>22, <2>1, EndFacts DEF RecoverCheck, RecoverFail, Save, Unsaved, Goto, target
  <2>2. CASE UNCHANGED <<mem, journal, file>> /\ pc' \in {"recover", "recover_remove"}
    BY <2>2, <1>22 DEF RecoverCheck
  <2>3. CASE pc' = "recover_write"
    <3>1. /\ idx \in Paths /\ file[idx] = "absent"
          /\ mem' = SetOp(mem, idx, "ROLLED_BACK") /\ UNCHANGED <<journal, file>>
      BY <1>22, <2>3, PlanOrder DEF RecoverCheck, RecoverFail, Exit, Goto, target
    <3>2. mem \in Journal /\ idx \in Paths
      BY <3>1 DEF DataOK
    <3>3. \A q \in Paths : SetOp(mem, idx, "ROLLED_BACK").op[q] = IF q = idx THEN "ROLLED_BACK" ELSE mem.op[q]
      BY <3>2, SetOpRead
    <3>4. \A q \in Paths \ {idx} : mem'.op[q] = mem.op[q]
      BY <3>1, <3>3
    <3> QED
      BY <1>22, <2>3, <3>1, <3>4 DEF RecoverCheck
  <2> QED
    BY <1>22, <2>1, <2>2, <2>3 DEF RecoverCheck, RecoverFail, Exit, Goto, target
<1>23. CASE RecoverUnreadable
  BY <1>23, EndFacts DEF RecoverUnreadable, Exit, target
<1>24. CASE RecoverRemove
  <2>1. CASE pc' = "idle"
    BY <1>24, <2>1, EndFacts DEF RecoverRemove, RecoverFail, Save, Unsaved, Goto
  <2>2. CASE pc' = "recover_write"
    <3>1. /\ idx \in Paths /\ file' = [file EXCEPT ![idx] = "absent"]
          /\ mem' = SetOp(mem, idx, "ROLLED_BACK") /\ UNCHANGED journal
      BY <1>24, <2>2, PlanOrder DEF RecoverRemove, RecoverFail, Exit, Goto
    <3>2. \A q \in Paths : file'[q] = "generated" => file[q] = "generated" /\ q # idx
      BY <3>1 DEF DataOK
    <3>3. \A q \in Paths \ {idx} : mem'.op[q] = mem.op[q]
      BY <3>1, SetOpRead DEF DataOK
    <3> QED
      BY <3>2, <3>3, <1>24, <2>2, <3>1, <3>2 DEF RecoverRemove
  <2> QED
    BY <1>24, <2>1, <2>2 DEF RecoverRemove, RecoverFail, Exit, Goto
<1>25. CASE RecoverWrite
  BY <1>25 DEF RecoverWrite, Save, Unsaved, Exit, target
<1>26. CASE RecoverEnd
  BY <1>26, EndFacts DEF RecoverEnd, Save, Unsaved, Exit, target
<1>27. CASE Discard
  BY <1>27, EndFacts DEF Discard, RemoveBundle, command, target
<1>28. CASE Crash
  BY <1>28 DEF Crash, Exit, target
<1>29. ASSUME NEW p \in Paths, UserWrite(p) PROVE AheadInv'
  BY <1>29 DEF UserWrite, command
<1>30. ASSUME NEW p \in Paths, UserDelete(p) PROVE AheadInv'
  BY <1>30 DEF UserDelete, command
<1>31. ASSUME NEW p \in Paths, UserTidy(p) PROVE AheadInv'
  BY <1>31 DEF UserTidy, command
<1>32. CASE UNCHANGED vars
  BY <1>32 DEF vars, command, target
<1> QED
  BY <1>1, <1>2, <1>3, <1>4, <1>5, <1>6, <1>7, <1>8, <1>9, <1>10, <1>11, <1>12, <1>13, <1>14, <1>15, <1>15b, <1>16, <1>17, <1>18, <1>19, <1>20, <1>21, <1>22, <1>23, <1>24, <1>25, <1>26, <1>27, <1>28, <1>29, <1>30, <1>31, <1>32
     DEF Next, EngineStep, ApplyStep, RollbackStep, RecoverStep, UserStep

\* Every published file is one the loops have yet to take back.
LEMMA ReachStep ==
    ControlOK /\ DataOK /\ LoopInv /\ AheadInv /\ ReachInv /\ [Next]_vars => ReachInv'
<1> SUFFICES ASSUME ControlOK, DataOK, LoopInv, AheadInv, ReachInv, [Next]_vars
             PROVE  ReachInv'
  OBVIOUS
<1> USE DEF ControlOK, DataOK, LoopInv, FileSteps, LoopSteps, ReachInv, ApplySteps, Generated
<1>1. CASE ApplyBegin
  BY <1>1 DEF ApplyBegin, Goto, target, TargetClean
<1>2. CASE Approve
  BY <1>2 DEF Approve, Goto, Exit, target
<1>3. CASE EnterApplying
  BY <1>3, ApplyOrder DEF EnterApplying, Exit, target
<1>4. CASE MarkApplying
  BY <1>4 DEF MarkApplying, Goto, Abandon, target
<1>5. CASE EnsureParent
  BY <1>5 DEF EnsureParent, Abandon
<1>6. CASE WriteTemp
  BY <1>6 DEF WriteTemp, Goto
<1>7. CASE Publish
  BY <1>7, ApplyOrder DEF Publish, Goto
<1>8. CASE DropTemp
  BY <1>8, ApplyOrder DEF DropTemp
<1>9. CASE MarkApplied
  BY <1>9 DEF MarkApplied, Abandon, target
<1>10. CASE VerifyFile
  BY <1>10 DEF VerifyFile, Abandon, target
<1>11. CASE Validate
  BY <1>11 DEF Validate, Goto, Abandon, target
<1>12. CASE RecordValidated
  BY <1>12 DEF RecordValidated, Goto, Exit, target
<1>13. CASE Finalize
  BY <1>13 DEF Finalize, Goto, Exit, target
<1>14. CASE Cleanup
  BY <1>14 DEF Cleanup, Exit, target
<1>15. CASE UndoTemp
  BY <1>15 DEF UndoTemp
<1>15b. CASE UndoDirs
  BY <1>15b DEF UndoDirs
<1>16. CASE RollbackCheck
  BY <1>16, ApplyOrder DEF RollbackCheck, Keep, Goto, target
<1>17. CASE RollbackRemove
  <2>0. \A q \in Paths : Pos(q) \in Nat /\ (Pos(q) = idx => q = ApplyPath(idx))
    BY ApplyOrder
  <2>1. CASE pc' = "rollback"
    <3>1. \A q \in Paths \ kept : Generated(q) => Pos(q) <= idx
      BY <1>17 DEF RollbackRemove
    <3>2. /\ file' = file /\ idx' = idx - 1
          /\ kept' = kept \union {ApplyPath(idx)}
      BY <1>17, <2>1 DEF RollbackRemove, Keep, Goto
    <3>3. \A q \in Paths \ kept' : Generated(q)' => Pos(q) <= idx'
      BY <2>0, <3>1, <3>2
    <3> QED
      BY <2>1, <3>3
  <2>2. CASE pc' = "rollback_dirs"
    <3>1. /\ idx \in 1..NumPaths /\ UNCHANGED <<idx, kept>>
          /\ file' = [file EXCEPT ![ApplyPath(idx)] = "absent"]
      BY <1>17, <2>2 DEF RollbackRemove, Keep, Goto
    <3>2. \A q \in Paths : Generated(q)' => Generated(q) /\ Pos(q) # idx
      BY <3>1, ApplyOrder
    <3>3. \A q \in Paths \ kept' : Generated(q)' => Pos(q) <= idx' - 1
      BY <1>17, <2>0, <3>1, <3>2 DEF RollbackRemove
    <3> QED
      BY <2>2, <3>3
  <2> QED
    BY <1>17, <2>1, <2>2 DEF RollbackRemove, Keep, Goto
<1>18. CASE RollbackDirs
  BY <1>18, ApplyOrder DEF RollbackDirs
<1>19. CASE RollbackEnd
  BY <1>19 DEF RollbackEnd, Exit, target
<1>20. CASE RecoverBegin
  BY <1>20 DEF RecoverBegin, target
<1>21. CASE Preflight
  <2>1. CASE pc' = "recover"
    <3>1. idx' >= NumPaths /\ idx' \in Nat
      BY <1>21, <2>1, NumPathsAssumption DEF Preflight, Exit
    <3> QED
      BY <2>1, <3>1, PlanOrder, NumPathsAssumption
  <2>2. CASE pc' \in {"idle", "preflight"}
    BY <2>2
  <2> QED
    BY <1>21, <2>1, <2>2 DEF Preflight, Exit
<1>22. CASE RecoverCheck
  <2>1. \A q \in Paths : q \in Nat
    BY PlanOrder
  <2>2. CASE pc' \in {"idle", "recover_remove"}
    BY <1>22, <2>2 DEF RecoverCheck, RecoverFail, Goto, Exit, target
  <2>3. CASE pc' \in {"recover", "recover_write"}
    <3>1. UNCHANGED file /\ pc = "recover" /\ idx \in Nat
      BY <1>22 DEF RecoverCheck, target
    <3>2. ~Generated(idx)
      BY <1>22, <2>3, PlanOrder DEF RecoverCheck, RecoverFail, Goto, Exit, AheadInv
    <3>3. \A q \in Paths : Generated(q) => q <= idx - 1
      BY <2>1, <3>1, <3>2
    <3>4. idx' = IF pc' = "recover" THEN idx - 1 ELSE idx
      BY <1>22, <2>3 DEF RecoverCheck, RecoverFail, Goto, Exit
    <3> QED
      BY <2>3, <3>1, <3>3, <3>4
  <2> QED
    BY <1>22, <2>2, <2>3 DEF RecoverCheck, RecoverFail, Goto, Exit
<1>23. CASE RecoverUnreadable
  BY <1>23 DEF RecoverUnreadable, Exit, target
<1>24. CASE RecoverRemove
  BY <1>24, PlanOrder DEF RecoverRemove, RecoverFail, Goto, Exit
<1>25. CASE RecoverWrite
  BY <1>25, PlanOrder DEF RecoverWrite, Exit, target
<1>26. CASE RecoverEnd
  BY <1>26 DEF RecoverEnd, Exit, target
<1>27. CASE Discard
  BY <1>27 DEF Discard, command, target
<1>28. CASE Crash
  BY <1>28 DEF Crash, Exit, target
<1>29. ASSUME NEW p \in Paths, UserWrite(p) PROVE ReachInv'
  BY <1>29 DEF UserWrite, command
<1>30. ASSUME NEW p \in Paths, UserDelete(p) PROVE ReachInv'
  BY <1>30 DEF UserDelete, command
<1>31. ASSUME NEW p \in Paths, UserTidy(p) PROVE ReachInv'
  BY <1>31 DEF UserTidy, command
<1>32. CASE UNCHANGED vars
  BY <1>32 DEF vars, command, target
<1> QED
  BY <1>1, <1>2, <1>3, <1>4, <1>5, <1>6, <1>7, <1>8, <1>9, <1>10, <1>11, <1>12, <1>13, <1>14, <1>15, <1>15b, <1>16, <1>17, <1>18, <1>19, <1>20, <1>21, <1>22, <1>23, <1>24, <1>25, <1>26, <1>27, <1>28, <1>29, <1>30, <1>31, <1>32
     DEF Next, EngineStep, ApplyStep, RollbackStep, RecoverStep, UserStep

\* Operations before the loop's are done.
LEMMA ProgressStep ==
    ControlOK /\ DataOK /\ LoopInv /\ ProgressInv /\ [Next]_vars => ProgressInv'
<1> SUFFICES ASSUME ControlOK, DataOK, LoopInv, ProgressInv, [Next]_vars
             PROVE  ProgressInv'
  OBVIOUS
<1> USE DEF ControlOK, DataOK, LoopInv, FileSteps, LoopSteps, DoneSteps, ProgressInv,
        Done, Untouched, Generated
<1>1. CASE ApplyBegin
  BY <1>1 DEF ApplyBegin, Goto, target
<1>2. CASE Approve
  BY <1>2 DEF Approve, Save, Unsaved, Goto, Exit, target
<1>3. CASE EnterApplying
  BY <1>3, ApplyOrder DEF EnterApplying, Save, Unsaved, Exit, target
<1>4. CASE MarkApplying
  <2>1. ApplyPath(idx) \in Paths /\ mem' = SetOp(mem, ApplyPath(idx), "APPLYING")
    BY <1>4, ApplyOrder DEF MarkApplying
  <2>2. \A q \in Paths : Pos(q) < idx => mem'.op[q] = mem.op[q]
    BY <2>1, SetOpRead, ApplyOrder
  <2>3. UNCHANGED <<file, edits>> /\ pc' \in {"parent", "rollback"} /\ (pc' = "parent" => idx' = idx)
    BY <1>4 DEF MarkApplying, Goto, Abandon, target
  <2> QED
    BY <1>4, <2>2, <2>3 DEF MarkApplying
<1>5. CASE EnsureParent
  BY <1>5 DEF EnsureParent, Abandon
<1>6. CASE WriteTemp
  BY <1>6 DEF WriteTemp, Goto
<1>7. CASE Publish
  BY <1>7, ApplyOrder DEF Publish, Goto
<1>8. CASE DropTemp
  BY <1>8 DEF DropTemp
<1>9. CASE MarkApplied
  <2>1. ApplyPath(idx) \in Paths /\ mem' = SetOp(mem, ApplyPath(idx), "APPLIED")
    BY <1>9, ApplyOrder DEF MarkApplied
  <2>2. UNCHANGED <<file, edits>> /\ pc = "applied"
    BY <1>9 DEF MarkApplied, target
  <2>3. \A q \in Paths : Pos(q) < idx \/ Pos(q) = idx => Done(q)'
    <3>1. \A q \in Paths : mem.op[q] = "APPLIED" => mem'.op[q] = "APPLIED"
      BY <2>1, SetOpRead
    <3>2. \A q \in Paths : Pos(q) = idx => mem'.op[q] = "APPLIED"
      BY <2>1, SetOpRead, ApplyOrder
    <3> QED
      BY <2>2, <3>1, <3>2
  <2>4. CASE pc' = "mark"
    <3>1. idx' = idx + 1
      BY <1>9, <2>4 DEF MarkApplied, Abandon
    <3>2. \A q \in Paths : Pos(q) < idx' => Done(q)'
      BY <2>3, <3>1, ApplyOrder
    <3> QED
      BY <2>4, <3>2
  <2>5. CASE pc' = "verify"
    <3>1. idx >= NumPaths
      BY <1>9, <2>5, NumPathsAssumption DEF MarkApplied, Abandon
    <3>2. \A q \in Paths : Done(q)'
      BY <2>3, <3>1, ApplyOrder, NumPathsAssumption
    <3> QED
      BY <2>5, <3>2
  <2>6. CASE pc' = "rollback"
    BY <2>6
  <2> QED
    BY <1>9, <2>4, <2>5, <2>6 DEF MarkApplied, Abandon
<1>10. CASE VerifyFile
  BY <1>10 DEF VerifyFile, Abandon, target
<1>11. CASE Validate
  BY <1>11 DEF Validate, Goto, Abandon, target
<1>12. CASE RecordValidated
  BY <1>12, StageFacts DEF RecordValidated, Save, Unsaved, Goto, Exit, target
<1>13. CASE Finalize
  BY <1>13, SettleFacts, Names DEF Finalize, Save, Unsaved, Goto, Exit, target
<1>14. CASE Cleanup
  BY <1>14 DEF Cleanup, Exit, target
<1>15. CASE UndoTemp
  BY <1>15 DEF UndoTemp
<1>15b. CASE UndoDirs
  BY <1>15b DEF UndoDirs
<1>16. CASE RollbackCheck
  BY <1>16 DEF RollbackCheck, Keep, Goto, target
<1>17. CASE RollbackRemove
  BY <1>17 DEF RollbackRemove, Keep, Goto
<1>18. CASE RollbackDirs
  BY <1>18 DEF RollbackDirs
<1>19. CASE RollbackEnd
  BY <1>19 DEF RollbackEnd, Save, Unsaved, Exit, target
<1>20. CASE RecoverBegin
  BY <1>20 DEF RecoverBegin, target
<1>21. CASE Preflight
  BY <1>21 DEF Preflight, Exit, target
<1>22. CASE RecoverCheck
  BY <1>22 DEF RecoverCheck, RecoverFail, Save, Unsaved, Goto, Exit, target
<1>23. CASE RecoverUnreadable
  BY <1>23 DEF RecoverUnreadable, Exit, target
<1>24. CASE RecoverRemove
  BY <1>24 DEF RecoverRemove, RecoverFail, Save, Unsaved, Goto, Exit
<1>25. CASE RecoverWrite
  BY <1>25 DEF RecoverWrite, Save, Unsaved, Exit, target
<1>26. CASE RecoverEnd
  BY <1>26 DEF RecoverEnd, Save, Unsaved, Exit, target
<1>27. CASE Discard
  BY <1>27 DEF Discard, command, target
<1>28. CASE Crash
  BY <1>28 DEF Crash, Exit, target
<1>29. ASSUME NEW p \in Paths, UserWrite(p) PROVE ProgressInv'
  BY <1>29 DEF UserWrite, command, Edit
<1>30. ASSUME NEW p \in Paths, UserDelete(p) PROVE ProgressInv'
  BY <1>30 DEF UserDelete, command, Edit
<1>31. ASSUME NEW p \in Paths, UserTidy(p) PROVE ProgressInv'
  BY <1>31 DEF UserTidy, command
<1>32. CASE UNCHANGED vars
  BY <1>32 DEF vars, command, target
<1> QED
  BY <1>1, <1>2, <1>3, <1>4, <1>5, <1>6, <1>7, <1>8, <1>9, <1>10, <1>11, <1>12, <1>13, <1>14, <1>15, <1>15b, <1>16, <1>17, <1>18, <1>19, <1>20, <1>21, <1>22, <1>23, <1>24, <1>25, <1>26, <1>27, <1>28, <1>29, <1>30, <1>31, <1>32
     DEF Next, EngineStep, ApplyStep, RollbackStep, RecoverStep, UserStep

\* Bytes that are not the run's were put there by the user.
LEMMA TouchStep ==
    DataOK /\ TouchInv /\ [Next]_vars => TouchInv'
<1> SUFFICES ASSUME DataOK, TouchInv, [Next]_vars
             PROVE  TouchInv'
  OBVIOUS
<1> USE DEF DataOK, TouchInv, Untouched
<1>1. CASE ApplyBegin
  BY <1>1 DEF ApplyBegin, target
<1>2. CASE Approve
  BY <1>2 DEF Approve, target
<1>3. CASE EnterApplying
  BY <1>3 DEF EnterApplying, target
<1>4. CASE MarkApplying
  BY <1>4 DEF MarkApplying, target
<1>5. CASE EnsureParent
  BY <1>5 DEF EnsureParent
<1>6. CASE WriteTemp
  BY <1>6 DEF WriteTemp
<1>7. CASE Publish
  BY <1>7 DEF Publish
<1>8. CASE DropTemp
  BY <1>8 DEF DropTemp
<1>9. CASE MarkApplied
  BY <1>9 DEF MarkApplied, target
<1>10. CASE VerifyFile
  BY <1>10 DEF VerifyFile, target
<1>11. CASE Validate
  BY <1>11 DEF Validate, target
<1>12. CASE RecordValidated
  BY <1>12 DEF RecordValidated, target
<1>13. CASE Finalize
  BY <1>13 DEF Finalize, target
<1>14. CASE Cleanup
  BY <1>14 DEF Cleanup, target
<1>15. CASE UndoTemp
  BY <1>15 DEF UndoTemp
<1>15b. CASE UndoDirs
  BY <1>15b DEF UndoDirs
<1>16. CASE RollbackCheck
  BY <1>16 DEF RollbackCheck, target
<1>17. CASE RollbackRemove
  BY <1>17 DEF RollbackRemove
<1>18. CASE RollbackDirs
  BY <1>18 DEF RollbackDirs
<1>19. CASE RollbackEnd
  BY <1>19 DEF RollbackEnd, target
<1>20. CASE RecoverBegin
  BY <1>20 DEF RecoverBegin, target
<1>21. CASE Preflight
  BY <1>21 DEF Preflight, target
<1>22. CASE RecoverCheck
  BY <1>22 DEF RecoverCheck, RecoverFail, target
<1>23. CASE RecoverUnreadable
  BY <1>23 DEF RecoverUnreadable, target
<1>24. CASE RecoverRemove
  BY <1>24 DEF RecoverRemove, RecoverFail
<1>25. CASE RecoverWrite
  BY <1>25 DEF RecoverWrite, target
<1>26. CASE RecoverEnd
  BY <1>26 DEF RecoverEnd, target
<1>27. CASE Discard
  BY <1>27 DEF Discard, command, target
<1>28. CASE Crash
  BY <1>28 DEF Crash, target
<1>29. ASSUME NEW p \in Paths, UserWrite(p) PROVE TouchInv'
  BY <1>29 DEF UserWrite, command, Edit
<1>30. ASSUME NEW p \in Paths, UserDelete(p) PROVE TouchInv'
  BY <1>30 DEF UserDelete, command, Edit
<1>31. ASSUME NEW p \in Paths, UserTidy(p) PROVE TouchInv'
  BY <1>31 DEF UserTidy, command
<1>32. CASE UNCHANGED vars
  BY <1>32 DEF vars, command, target
<1> QED
  BY <1>1, <1>2, <1>3, <1>4, <1>5, <1>6, <1>7, <1>8, <1>9, <1>10, <1>11, <1>12, <1>13, <1>14, <1>15, <1>15b, <1>16, <1>17, <1>18, <1>19, <1>20, <1>21, <1>22, <1>23, <1>24, <1>25, <1>26, <1>27, <1>28, <1>29, <1>30, <1>31, <1>32
     DEF Next, EngineStep, ApplyStep, RollbackStep, RecoverStep, UserStep

\* What a settled journal means.
LEMMA SettledStep ==
    ControlOK /\ DataOK /\ LoopInv /\ StatusInv /\ AheadInv /\ ReachInv /\ ProgressInv /\ SettledInv /\ [Next]_vars => SettledInv'
<1> SUFFICES ASSUME ControlOK, DataOK, LoopInv, StatusInv, AheadInv, ReachInv, ProgressInv, SettledInv, [Next]_vars
             PROVE  SettledInv'
  OBVIOUS
<1> USE DEF ControlOK, DataOK, StatusInv, Appliable, Eligible, SettledInv,
        FinalizedWhole, NoOrphans, Untouched, Generated
<1>1. CASE ApplyBegin
  BY <1>1 DEF ApplyBegin, target
<1>2. CASE Approve
  BY <1>2, StageFacts DEF Approve, Save, Unsaved, target
<1>3. CASE EnterApplying
  BY <1>3, StageFacts DEF EnterApplying, Save, Unsaved, target
<1>4. CASE MarkApplying
  <2>1. mem'.status = mem.status
    BY <1>4, ApplyOrder, SetOpFacts, Names DEF MarkApplying, LoopInv, FileSteps, LoopSteps
  <2> QED
    BY <1>4, <2>1 DEF MarkApplying, Save, Unsaved, target
<1>5. CASE EnsureParent
  BY <1>5 DEF EnsureParent
<1>6. CASE WriteTemp
  BY <1>6 DEF WriteTemp
<1>7. CASE Publish
  BY <1>7 DEF Publish
<1>8. CASE DropTemp
  BY <1>8 DEF DropTemp
<1>9. CASE MarkApplied
  <2>1. mem'.status = mem.status
    BY <1>9, ApplyOrder, SetOpFacts, Names DEF MarkApplied, LoopInv, FileSteps, LoopSteps
  <2> QED
    BY <1>9, <2>1 DEF MarkApplied, Save, Unsaved, target
<1>10. CASE VerifyFile
  BY <1>10 DEF VerifyFile, target
<1>11. CASE Validate
  BY <1>11 DEF Validate, target
<1>12. CASE RecordValidated
  BY <1>12, StageFacts DEF RecordValidated, Save, Unsaved, target
<1>13. CASE Finalize
  BY <1>13, SettleFacts, Names DEF Finalize, Save, Unsaved, target, ProgressInv, Done, DoneSteps
<1>14. CASE Cleanup
  <2>1. CASE journal' = journal
    BY <1>14, <2>1 DEF Cleanup, target
  <2>2. CASE journal' = Gone(journal)
    <3>1. journal.status = "FINALIZED"
      BY <1>14 DEF Cleanup
    <3>2. \A q \in Paths : journal.op[q] = "APPLIED"
      BY <3>1, Zenon
    <3>3. journal'.status = "GONE" /\ journal'.op = journal.op
      BY <2>2, EndFacts
    <3> QED
      BY <3>2, <3>3
  <2> QED
    BY <1>14, <2>1, <2>2 DEF Cleanup, RemoveBundle
<1>15. CASE UndoTemp
  BY <1>15 DEF UndoTemp
<1>15b. CASE UndoDirs
  BY <1>15b DEF UndoDirs
<1>16. CASE RollbackCheck
  BY <1>16 DEF RollbackCheck, target
<1>17. CASE RollbackRemove
  BY <1>17 DEF RollbackRemove
<1>18. CASE RollbackDirs
  BY <1>18 DEF RollbackDirs
<1>19. CASE RollbackEnd
  BY <1>19, EndFacts, ApplyOrder DEF RollbackEnd, Save, Unsaved, target, ReachInv
<1>20. CASE RecoverBegin
  BY <1>20 DEF RecoverBegin, target
<1>21. CASE Preflight
  BY <1>21 DEF Preflight, target
<1>22. CASE RecoverCheck
  BY <1>22, EndFacts DEF RecoverCheck, RecoverFail, Save, Unsaved, target
<1>23. CASE RecoverUnreadable
  BY <1>23, EndFacts DEF RecoverUnreadable, target
<1>24. CASE RecoverRemove
  BY <1>24, EndFacts DEF RecoverRemove, RecoverFail, Save, Unsaved
<1>25. CASE RecoverWrite
  BY <1>25 DEF RecoverWrite, Save, Unsaved, target
<1>26. CASE RecoverEnd
  BY <1>26, EndFacts, PlanOrder DEF RecoverEnd, Save, Unsaved, target, ReachInv
<1>27. CASE Discard
  <2>1. CASE journal' = journal
    BY <1>27, <2>1 DEF Discard, target
  <2>2. CASE journal' = Gone(journal)
    <3>1. journal'.status = "GONE" /\ journal'.op = journal.op
      BY <2>2, EndFacts
    <3>2. journal.status = "FINALIZED" => \A q \in Paths : journal.op[q] = "APPLIED"
      BY Zenon
    <3>3. journal.status # "FINALIZED" => \A q \in Paths : ~Generated(q)
      BY <1>27 DEF Discard, Discardable, AheadInv, WriteAhead, Live
    <3> QED
      BY <1>27, <3>1, <3>2, <3>3 DEF Discard, target
  <2> QED
    BY <1>27, <2>1, <2>2 DEF Discard, RemoveBundle
<1>28. CASE Crash
  BY <1>28 DEF Crash, target
<1>29. ASSUME NEW p \in Paths, UserWrite(p) PROVE SettledInv'
  BY <1>29 DEF UserWrite, command, Edit
<1>30. ASSUME NEW p \in Paths, UserDelete(p) PROVE SettledInv'
  BY <1>30 DEF UserDelete, command, Edit
<1>31. ASSUME NEW p \in Paths, UserTidy(p) PROVE SettledInv'
  BY <1>31 DEF UserTidy, command
<1>32. CASE UNCHANGED vars
  BY <1>32 DEF vars, command, target
<1> QED
  BY <1>1, <1>2, <1>3, <1>4, <1>5, <1>6, <1>7, <1>8, <1>9, <1>10, <1>11, <1>12, <1>13, <1>14, <1>15, <1>15b, <1>16, <1>17, <1>18, <1>19, <1>20, <1>21, <1>22, <1>23, <1>24, <1>25, <1>26, <1>27, <1>28, <1>29, <1>30, <1>31, <1>32
     DEF Next, EngineStep, ApplyStep, RollbackStep, RecoverStep, UserStep

-----------------------------------------------------------------------------
LEMMA InitInv == Init => IInv
<1> SUFFICES ASSUME Init PROVE IInv
  OBVIOUS
<1>1. TypeOK
  BY PlannedType, NumPathsAssumption, BoundsAssumption, Names
     DEF Init, TypeOK, ControlOK, DataOK
<1>2. LoopInv /\ StatusInv
  BY DEF Init, LoopInv, StatusInv, LoopSteps, FileSteps, Appliable, Planned
<1>3. AheadInv /\ ReachInv /\ TouchInv
  BY DEF Init, AheadInv, WriteAhead, ReachInv, TouchInv, Generated, ApplySteps
<1>4. ProgressInv
  BY DEF Init, ProgressInv, LoopSteps, DoneSteps
<1>5. SettledInv
  BY DEF Init, SettledInv, FinalizedWhole, NoOrphans, Generated, Planned
<1> QED
  BY <1>1, <1>2, <1>3, <1>4, <1>5 DEF IInv

LEMMA NextInv == IInv /\ [Next]_vars => IInv'
  BY ControlStep, DataStep, LoopStep, StatusStep, AheadStep, ReachStep,
     ProgressStep, TouchStep, SettledStep DEF IInv, TypeOK

THEOREM Inductive == Spec => []IInv
  BY InitInv, NextInv, PTL DEF Spec

\* Every variable keeps to its type.
THEOREM TypeCorrect == Spec => []TypeOK
<1>1. IInv => TypeOK
  BY DEF IInv
<1> QED
  BY <1>1, Inductive, PTL

\* Write-ahead: no file of the run is unknown to its stored journal.
THEOREM JournalKnowsEveryFile == Spec => []WriteAhead
<1>1. IInv => WriteAhead
  BY DEF IInv, AheadInv
<1> QED
  BY <1>1, Inductive, PTL

\* Only a user's change makes an interrupted run a CONFLICT.
THEOREM RecoveryIsPossible == Spec => []ConflictNeedsUser
<1>1. IInv => ConflictNeedsUser
  <2> SUFFICES ASSUME IInv, NEW p \in Paths, Conflict(journal, p)
               PROVE  ~Untouched(p)
    BY DEF ConflictNeedsUser
  <2>1. file[p] # "absent" /\ file[p] # "generated"
    BY DEF IInv, AheadInv, WriteAhead, Conflict
  <2>2. file[p] \in {"foreign", "restored"}
    BY <2>1 DEF IInv, TypeOK, DataOK, Content
  <2> QED
    BY <2>2 DEF IInv, TouchInv
<1> QED
  BY <1>1, Inductive, PTL

\* A FAILED run left none of its files behind.
THEOREM FailedLeavesNothing == Spec => []RolledBackClean
<1>1. IInv => RolledBackClean
  <2> SUFFICES ASSUME IInv, journal.status = "FAILED", NEW p \in Paths
               PROVE  /\ file[p] # "generated"
                      /\ Untouched(p) => file[p] = "absent"
    BY DEF RolledBackClean
  <2>1. file[p] # "generated"
    BY DEF IInv, SettledInv, Generated
  <2>2. file[p] \in {"foreign", "restored"} => ~Untouched(p)
    BY DEF IInv, TouchInv
  <2> QED
    BY <2>1, <2>2 DEF IInv, TypeOK, DataOK, Content
<1> QED
  BY <1>1, Inductive, PTL

\* A FINALIZED run is complete.
THEOREM FinalizedIsWhole == Spec => []FinalizedWhole
<1>1. IInv => FinalizedWhole
  BY DEF IInv, SettledInv
<1> QED
  BY <1>1, Inductive, PTL

\* No file outlives the record that could take it back, unless it is final.
THEOREM RecordOutlivesFiles == Spec => []NoOrphans
<1>1. IInv => NoOrphans
  BY DEF IInv, SettledInv
<1> QED
  BY <1>1, Inductive, PTL

-----------------------------------------------------------------------------
(* CleanAbort: a failed apply leaves the user's paths as it found them. *)

LEMMA CountStep == IInv /\ CountInv /\ [Next]_vars => CountInv'
<1> SUFFICES ASSUME IInv, CountInv, [Next]_vars PROVE CountInv'
  OBVIOUS
<1> USE NumPathsAssumption DEF CountInv, LoopSteps, IInv, TypeOK, ControlOK, LoopInv
<1>1. CASE ApplyBegin
  BY <1>1 DEF ApplyBegin, Goto
<1>2. CASE Approve
  BY <1>2 DEF Approve, Goto, Exit
<1>3. CASE EnterApplying
  BY <1>3 DEF EnterApplying, Exit
<1>4. CASE MarkApplying
  BY <1>4 DEF MarkApplying, Goto, Abandon
<1>5. CASE EnsureParent
  BY <1>5 DEF EnsureParent, Abandon
<1>6. CASE WriteTemp
  BY <1>6 DEF WriteTemp, Goto
<1>7. CASE Publish
  BY <1>7 DEF Publish, Goto
<1>8. CASE DropTemp
  BY <1>8 DEF DropTemp
<1>9. CASE MarkApplied
  BY <1>9 DEF MarkApplied, Abandon
<1>10. CASE VerifyFile
  BY <1>10 DEF VerifyFile, Abandon
<1>11. CASE Validate
  BY <1>11 DEF Validate, Goto, Abandon
<1>12. CASE RecordValidated
  BY <1>12 DEF RecordValidated, Goto, Exit
<1>13. CASE Finalize
  BY <1>13 DEF Finalize, Goto, Exit
<1>14. CASE Cleanup
  BY <1>14 DEF Cleanup, Exit
<1>15. CASE UndoTemp
  BY <1>15 DEF UndoTemp
<1>15b. CASE UndoDirs
  BY <1>15b DEF UndoDirs
<1>16. CASE RollbackCheck
  BY <1>16 DEF RollbackCheck, Keep, Goto
<1>17. CASE RollbackRemove
  BY <1>17 DEF RollbackRemove, Keep, Goto
<1>18. CASE RollbackDirs
  BY <1>18 DEF RollbackDirs
<1>19. CASE RollbackEnd
  BY <1>19 DEF RollbackEnd, Exit
<1>20. CASE RecoverBegin
  BY <1>20 DEF RecoverBegin
<1>21. CASE Preflight
  BY <1>21 DEF Preflight, Exit
<1>22. CASE RecoverCheck
  BY <1>22 DEF RecoverCheck, RecoverFail, Goto, Exit
<1>23. CASE RecoverUnreadable
  BY <1>23 DEF RecoverUnreadable, Exit
<1>24. CASE RecoverRemove
  BY <1>24 DEF RecoverRemove, RecoverFail, Goto, Exit
<1>25. CASE RecoverWrite
  BY <1>25 DEF RecoverWrite, Exit
<1>26. CASE RecoverEnd
  BY <1>26 DEF RecoverEnd, Exit
<1>27. CASE Discard
  BY <1>27 DEF Discard, command
<1>28. CASE Crash
  BY <1>28 DEF Crash, Exit
<1>29. ASSUME NEW p \in Paths, UserWrite(p) PROVE CountInv'
  BY <1>29 DEF UserWrite, command, Edit
<1>30. ASSUME NEW p \in Paths, UserDelete(p) PROVE CountInv'
  BY <1>30 DEF UserDelete, command, Edit
<1>31. ASSUME NEW p \in Paths, UserTidy(p) PROVE CountInv'
  BY <1>31 DEF UserTidy, command
<1>32. CASE UNCHANGED vars
  BY <1>32 DEF vars, command, target
<1> QED
  BY <1>1, <1>2, <1>3, <1>4, <1>5, <1>6, <1>7, <1>8, <1>9, <1>10, <1>11, <1>12, <1>13, <1>14, <1>15, <1>15b, <1>16, <1>17, <1>18, <1>19, <1>20, <1>21, <1>22, <1>23, <1>24, <1>25, <1>26, <1>27, <1>28, <1>29, <1>30, <1>31, <1>32
     DEF Next, EngineStep, ApplyStep, RollbackStep, RecoverStep, UserStep

LEMMA KeepStep == IInv /\ CountInv /\ KeepInv /\ [Next]_vars => KeepInv'
<1> SUFFICES ASSUME IInv, CountInv, KeepInv, [Next]_vars PROVE KeepInv'
  OBVIOUS
<1> USE DEF KeepInv, Untouched, Generated
<1>0. /\ idx \in 0..NumPaths /\ created \in 0..NumPaths /\ NumPaths \in Nat
      /\ file \in [Paths -> Content] /\ edits \in [Paths -> 0..MaxEdits]
      /\ \A p \in Paths : Pos(p) \in 1..NumPaths
      /\ LoopInv /\ ReachInv /\ ProgressInv /\ TouchInv
  BY NumPathsAssumption, ApplyOrder DEF IInv, TypeOK, ControlOK, DataOK
<1>1. CASE ApplyBegin
  BY <1>1 DEF ApplyBegin, Goto
<1>2. CASE Approve
  BY <1>2 DEF Approve, Goto, Exit
<1>3. CASE EnterApplying
  BY <1>3 DEF EnterApplying, Exit
<1>4. CASE MarkApplying
  BY <1>4, <1>0 DEF MarkApplying, Goto, Abandon, target, CountInv, ProgressInv, Done, LoopSteps
<1>5. CASE EnsureParent
  BY <1>5, <1>0 DEF EnsureParent, Abandon, CountInv, ProgressInv, Done, LoopSteps
<1>6. CASE WriteTemp
  <2>1. CASE pc' = "undo"
    <3>1. created = idx - 1 /\ created' = created /\ idx' = idx /\ file' = file
      BY <1>6, <2>1 DEF WriteTemp, Goto, CountInv, LoopSteps
    <3>2. \A p \in Paths : Untouched(p) /\ Pos(p) < idx => Generated(p)
      BY <1>6, <1>0 DEF WriteTemp, ProgressInv, Done, LoopSteps
    <3>3. \A p \in Paths : Untouched(p) /\ Pos(p) = idx => file[p] = "absent"
      BY <1>6, <1>0, <3>1 DEF WriteTemp, ReachInv, TouchInv, ApplySteps, Content
    <3> QED
      BY <1>6, <2>1, <3>1, <3>2, <3>3 DEF WriteTemp
  <2>2. CASE pc' # "undo"
    BY <1>6, <2>2 DEF WriteTemp, Goto
  <2> QED
    BY <2>1, <2>2
<1>7. CASE Publish
  <2>1. CASE pc' = "undo"
    <3>1. created = idx - 1 /\ created' = created /\ idx' = idx /\ file' = file
      BY <1>7, <2>1 DEF Publish, Goto, CountInv, LoopSteps
    <3>2. \A p \in Paths : Untouched(p) /\ Pos(p) < idx => Generated(p)
      BY <1>7, <1>0 DEF Publish, ProgressInv, Done, LoopSteps
    <3>3. \A p \in Paths : Untouched(p) /\ Pos(p) = idx => file[p] = "absent"
      BY <1>7, <1>0, <3>1 DEF Publish, ReachInv, TouchInv, ApplySteps, Content
    <3> QED
      BY <1>7, <2>1, <3>1, <3>2, <3>3 DEF Publish
  <2>2. CASE pc' # "undo"
    BY <1>7, <2>2 DEF Publish, Goto
  <2> QED
    BY <2>1, <2>2
<1>8. CASE DropTemp
  BY <1>8 DEF DropTemp
<1>9. CASE MarkApplied
  BY <1>9, <1>0 DEF MarkApplied, Abandon, target, CountInv, ProgressInv, Done, LoopSteps
<1>10. CASE VerifyFile
  BY <1>10, <1>0 DEF VerifyFile, Abandon, target, ProgressInv, Done, DoneSteps
<1>11. CASE Validate
  BY <1>11, <1>0 DEF Validate, Goto, Abandon, target, ProgressInv, Done, DoneSteps
<1>12. CASE RecordValidated
  BY <1>12 DEF RecordValidated, Goto, Exit
<1>13. CASE Finalize
  BY <1>13 DEF Finalize, Goto, Exit
<1>14. CASE Cleanup
  BY <1>14 DEF Cleanup, Exit
<1>15. CASE UndoTemp
  BY <1>15, <1>0 DEF UndoTemp, CountInv, LoopSteps
<1>15b. CASE UndoDirs
  BY <1>15b, <1>0 DEF UndoDirs, CountInv, LoopSteps
<1>16. CASE RollbackCheck
  BY <1>16, <1>0 DEF RollbackCheck, Keep, Goto, target
<1>17. CASE RollbackRemove
  <2>1. CASE pc' = "rollback"
    BY <1>17, <1>0, <2>1 DEF RollbackRemove, Keep, Goto
  <2>2. CASE pc' = "rollback_dirs"
    <3>1. idx \in 1..NumPaths /\ idx' = idx
      BY <1>17, <1>0, <2>2 DEF RollbackRemove, Keep, Goto, LoopInv, FileSteps
    <3>2. \A p \in Paths : file'[p] = IF p = ApplyPath(idx) THEN "absent" ELSE file[p]
      BY <1>17, <1>0, <2>2 DEF RollbackRemove, Keep
    <3>3. \A p \in Paths : Pos(p) = idx <=> p = ApplyPath(idx)
      BY <3>1, ApplyOrder
    <3> QED
      BY <1>17, <1>0, <2>2, <3>1, <3>2, <3>3 DEF RollbackRemove
  <2> QED
    BY <1>17, <2>1, <2>2 DEF RollbackRemove, Keep, Goto
<1>18. CASE RollbackDirs
  BY <1>18, <1>0 DEF RollbackDirs
<1>19. CASE RollbackEnd
  BY <1>19 DEF RollbackEnd, Exit
<1>20. CASE RecoverBegin
  BY <1>20 DEF RecoverBegin
<1>21. CASE Preflight
  BY <1>21 DEF Preflight, Exit
<1>22. CASE RecoverCheck
  BY <1>22 DEF RecoverCheck, RecoverFail, Goto, Exit
<1>23. CASE RecoverUnreadable
  BY <1>23 DEF RecoverUnreadable, Exit
<1>24. CASE RecoverRemove
  BY <1>24 DEF RecoverRemove, RecoverFail, Goto, Exit
<1>25. CASE RecoverWrite
  BY <1>25 DEF RecoverWrite, Exit
<1>26. CASE RecoverEnd
  BY <1>26 DEF RecoverEnd, Exit
<1>27. CASE Discard
  BY <1>27 DEF Discard, command
<1>28. CASE Crash
  BY <1>28 DEF Crash, Exit
<1>29. ASSUME NEW p \in Paths, UserWrite(p) PROVE KeepInv'
  BY <1>29, <1>0 DEF UserWrite, command, Edit
<1>30. ASSUME NEW p \in Paths, UserDelete(p) PROVE KeepInv'
  BY <1>30, <1>0 DEF UserDelete, command, Edit
<1>31. ASSUME NEW p \in Paths, UserTidy(p) PROVE KeepInv'
  BY <1>31 DEF UserTidy, command
<1>32. CASE UNCHANGED vars
  BY <1>32 DEF vars, command, target
<1> QED
  BY <1>1, <1>2, <1>3, <1>4, <1>5, <1>6, <1>7, <1>8, <1>9, <1>10, <1>11, <1>12, <1>13, <1>14, <1>15, <1>15b, <1>16, <1>17, <1>18, <1>19, <1>20, <1>21, <1>22, <1>23, <1>24, <1>25, <1>26, <1>27, <1>28, <1>29, <1>30, <1>31, <1>32
     DEF Next, EngineStep, ApplyStep, RollbackStep, RecoverStep, UserStep

LEMMA TidyStep == IInv /\ CountInv /\ KeepInv /\ TidyInv /\ [Next]_vars => TidyInv'
<1> SUFFICES ASSUME IInv, CountInv, KeepInv, TidyInv, [Next]_vars PROVE TidyInv'
  OBVIOUS
<1> USE DEF TidyInv, Expected, Untouched, ApplySteps, RollbackSteps, LoopSteps
<1>0. /\ idx \in 0..NumPaths /\ created \in 0..NumPaths /\ NumPaths \in Nat
      /\ file \in [Paths -> Content] /\ edits \in [Paths -> 0..MaxEdits]
      /\ \A p \in Paths : Pos(p) \in 1..NumPaths
      /\ LoopInv
  BY NumPathsAssumption, ApplyOrder DEF IInv, TypeOK, ControlOK, DataOK
<1>1. CASE ApplyBegin
  BY <1>1, <1>0 DEF ApplyBegin, TargetClean, Goto, target, CountInv
<1>2. CASE Approve
  BY <1>2, <1>0 DEF Approve, Goto, Exit, target
<1>3. CASE EnterApplying
  BY <1>3, <1>0 DEF EnterApplying, Exit, target
<1>4. CASE MarkApplying
  BY <1>4, <1>0 DEF MarkApplying, Goto, Abandon, target, CountInv
<1>5. CASE EnsureParent
  <2>1. idx \in 1..NumPaths /\ created = idx - 1
    BY <1>5, <1>0 DEF EnsureParent, LoopInv, FileSteps, CountInv
  <2>2. CASE pc' = "rollback"
    BY <1>5, <1>0, <2>1, <2>2 DEF EnsureParent, Abandon
  <2>3. CASE pc' = "temp"
    <3>1. Pos(ApplyPath(idx)) = idx /\ ApplyPath(idx) \in Paths
      BY <2>1, ApplyOrder
    <3>2. /\ dirs' \subseteq dirs \union {ApplyPath(idx)} /\ idx' = idx
          /\ made \subseteq made' /\ (ApplyPath(idx) \in dirs' \ dirs => ApplyPath(idx) \in made')
          /\ UNCHANGED <<missed, kept, temp, edits>>
      BY <1>5, <2>3 DEF EnsureParent, Abandon
    <3> QED
      BY <1>5, <1>0, <2>1, <2>3, <3>1, <3>2 DEF EnsureParent
  <2> QED
    BY <1>5, <2>2, <2>3 DEF EnsureParent, Abandon
<1>6. CASE WriteTemp
  <2>1. /\ idx' = idx /\ pc' \in {"link", "undo"}
        /\ UNCHANGED <<made, missed, kept, dirs, edits>>
    BY <1>6, <1>0 DEF WriteTemp, Goto
  <2>2. idx \in 1..NumPaths
    BY <1>6, <1>0 DEF WriteTemp, LoopInv, FileSteps
  <2>3. Pos(ApplyPath(idx)) = idx /\ temp' \subseteq temp \union {ApplyPath(idx)}
    BY <1>6, <2>2, ApplyOrder DEF WriteTemp
  <2> QED
    BY <1>6, <1>0, <2>1, <2>3 DEF WriteTemp
<1>7. CASE Publish
  BY <1>7, <1>0 DEF Publish, Goto, target
<1>8. CASE DropTemp
  <2>1. idx \in 1..NumPaths
    BY <1>8, <1>0 DEF DropTemp, LoopInv, FileSteps
  <2> QED
    BY <1>8, <1>0, <2>1, ApplyOrder DEF DropTemp, RemoveTemp, Miss
<1>9. CASE MarkApplied
  BY <1>9, <1>0 DEF MarkApplied, Goto, Abandon, target, CountInv
<1>10. CASE VerifyFile
  BY <1>10, <1>0 DEF VerifyFile, Goto, Abandon, target, CountInv
<1>11. CASE Validate
  BY <1>11, <1>0 DEF Validate, Goto, Abandon, target, CountInv
<1>12. CASE RecordValidated
  BY <1>12, <1>0 DEF RecordValidated, Goto, Exit, target
<1>13. CASE Finalize
  BY <1>13, <1>0 DEF Finalize, Goto, Exit, target
<1>14. CASE Cleanup
  BY <1>14, <1>0 DEF Cleanup, Exit, target
<1>15. CASE UndoTemp
  <2>1. idx \in 1..NumPaths
    BY <1>15, <1>0 DEF UndoTemp, LoopInv, FileSteps
  <2>2. \A p \in Paths : Pos(p) = idx <=> p = ApplyPath(idx)
    BY <2>1, ApplyOrder
  <2> QED
    BY <1>15, <1>0, <2>2 DEF UndoTemp, RemoveTemp, Miss
<1>15b. CASE UndoDirs
  <2>1. idx \in 1..NumPaths /\ created = idx - 1
    BY <1>15b, <1>0 DEF UndoDirs, LoopInv, FileSteps, CountInv
  <2>2. \A p \in Paths : Pos(p) = idx <=> p = ApplyPath(idx)
    BY <2>1, ApplyOrder
  <2>3. \A p \in Paths \ missed : Untouched(p) /\ Pos(p) = idx => Vacant(p)
    BY <1>15b, <1>0 DEF UndoDirs, KeepInv, Vacant
  <2> QED
    BY <1>15b, <1>0, <2>1, <2>2, <2>3 DEF UndoDirs, RemoveEmptyDirectory, Miss
<1>16. CASE RollbackCheck
  <2>1. \A p \in Paths : Untouched(p) /\ Pos(p) = idx => Matches(p) /\ p = ApplyPath(idx)
    BY <1>16, <1>0, ApplyOrder DEF RollbackCheck, KeepInv, Matches, Generated
  <2>2. CASE pc' = "rollback_remove"
    BY <1>16, <1>0, <2>2 DEF RollbackCheck, Keep, Goto, target
  <2>3. CASE pc' = "rollback"
    <3>1. /\ idx' = idx - 1 /\ kept' = kept \union {ApplyPath(idx)}
          /\ UNCHANGED <<made, temp, dirs, edits>>
      BY <1>16, <2>3 DEF RollbackCheck, Keep, Goto, target
    <3>2. /\ missed \subseteq missed'
          /\ ~Matches(ApplyPath(idx)) \/ ApplyPath(idx) \in missed'
      BY <1>16, <2>3 DEF RollbackCheck, Goto, Miss
    <3>3. \A p \in Paths \ missed' : Untouched(p) => Pos(p) # idx /\ p # ApplyPath(idx)
      BY <1>16, <1>0, <2>1, <3>2, ApplyOrder DEF RollbackCheck
    <3> QED
      BY <1>16, <1>0, <2>3, <3>1, <3>2, <3>3 DEF RollbackCheck
  <2> QED
    BY <1>16, <2>2, <2>3 DEF RollbackCheck, Keep, Goto
<1>17. CASE RollbackRemove
  <2>1. \A p \in Paths : Untouched(p) /\ Pos(p) = idx => file[p] # "absent" /\ p = ApplyPath(idx)
    BY <1>17, <1>0, ApplyOrder DEF RollbackRemove, KeepInv, Generated
  <2>2. CASE pc' = "rollback_dirs"
    BY <1>17, <1>0, <2>2 DEF RollbackRemove, Keep, Goto
  <2>3. CASE pc' = "rollback"
    <3>1. /\ idx' = idx - 1 /\ kept' = kept \union {ApplyPath(idx)}
          /\ UNCHANGED <<made, temp, dirs, edits>>
      BY <1>17, <2>3 DEF RollbackRemove, Keep, Goto
    <3>2. /\ missed \subseteq missed'
          /\ file[ApplyPath(idx)] = "absent" \/ ApplyPath(idx) \in missed'
      BY <1>17, <2>3 DEF RollbackRemove, Goto, Miss
    <3>3. idx \in 1..NumPaths
      BY <1>17, <1>0 DEF RollbackRemove, LoopInv, FileSteps
    <3>4. \A p \in Paths \ missed' : Untouched(p) => Pos(p) # idx /\ p # ApplyPath(idx)
      BY <1>17, <1>0, <2>1, <3>2, <3>3, ApplyOrder DEF RollbackRemove
    <3> QED
      BY <1>17, <1>0, <2>3, <3>1, <3>2, <3>4 DEF RollbackRemove
  <2> QED
    BY <1>17, <2>2, <2>3 DEF RollbackRemove, Keep, Goto
<1>18. CASE RollbackDirs
  <2>1. \A p \in Paths \ missed : Untouched(p) /\ Pos(p) = idx => Vacant(p) /\ p = ApplyPath(idx)
    BY <1>18, <1>0, ApplyOrder DEF RollbackDirs, KeepInv, Vacant
  <2> QED
    BY <1>18, <1>0, <2>1 DEF RollbackDirs, RemoveEmptyDirectory, Miss
<1>19. CASE RollbackEnd
  BY <1>19, <1>0 DEF RollbackEnd, Exit, target
<1>20. CASE RecoverBegin
  BY <1>20, <1>0 DEF RecoverBegin
<1>21. CASE Preflight
  BY <1>21, <1>0 DEF Preflight, Exit, target
<1>22. CASE RecoverCheck
  BY <1>22, <1>0 DEF RecoverCheck, RecoverFail, Goto, Exit, target
<1>23. CASE RecoverUnreadable
  BY <1>23, <1>0 DEF RecoverUnreadable, Exit, target
<1>24. CASE RecoverRemove
  BY <1>24, <1>0 DEF RecoverRemove, RecoverFail, Goto, Exit, target
<1>25. CASE RecoverWrite
  BY <1>25, <1>0 DEF RecoverWrite, Exit, target
<1>26. CASE RecoverEnd
  BY <1>26, <1>0 DEF RecoverEnd, Exit, target
<1>27. CASE Discard
  BY <1>27, <1>0 DEF Discard, command, target
<1>28. CASE Crash
  BY <1>28, <1>0 DEF Crash, Exit, target
<1>29. ASSUME NEW p \in Paths, UserWrite(p) PROVE TidyInv'
  BY <1>29, <1>0 DEF UserWrite, command, Edit
<1>30. ASSUME NEW p \in Paths, UserDelete(p) PROVE TidyInv'
  BY <1>30, <1>0 DEF UserDelete, command, Edit
<1>31. ASSUME NEW p \in Paths, UserTidy(p) PROVE TidyInv'
  BY <1>31, <1>0 DEF UserTidy, command
<1>32. CASE UNCHANGED vars
  BY <1>32 DEF vars, command, target
<1> QED
  BY <1>1, <1>2, <1>3, <1>4, <1>5, <1>6, <1>7, <1>8, <1>9, <1>10, <1>11, <1>12, <1>13, <1>14, <1>15, <1>15b, <1>16, <1>17, <1>18, <1>19, <1>20, <1>21, <1>22, <1>23, <1>24, <1>25, <1>26, <1>27, <1>28, <1>29, <1>30, <1>31, <1>32
     DEF Next, EngineStep, ApplyStep, RollbackStep, RecoverStep, UserStep

\* When a failed apply has rolled back, whatever made it fail, a path that the
\* user stayed away from is as apply found it, unless an I/O error stopped a
\* removal at that very path: no ignored error spoils another path.
THEOREM CleanAborts == Spec => []CleanAbort
<1> DEFINE TInv == CountInv /\ KeepInv /\ TidyInv
<1>1. Init => TInv
  BY DEF Init, CountInv, KeepInv, TidyInv, LoopSteps, ApplySteps, RollbackSteps
<1>2. IInv /\ TInv /\ [Next]_vars => TInv'
  BY CountStep, KeepStep, TidyStep
<1>3. IInv /\ TInv => CleanAbort
  <2> SUFFICES ASSUME IInv, TInv, pc = "rollback", idx = 0,
                      NEW p \in Paths, Untouched(p)
               PROVE  /\ p \notin kept => file[p] = "absent"
                      /\ p \notin missed => Vacant(p) /\ p \notin dirs
    BY DEF CleanAbort
  <2>1. Pos(p) \in 1..NumPaths /\ ~(Pos(p) <= idx)
    BY ApplyOrder, NumPathsAssumption
  <2>2. p \notin kept => file[p] = "absent"
    BY <2>1 DEF IInv, TypeOK, DataOK, Content, ReachInv, Generated, TouchInv
  <2>3. p \notin missed => p \notin temp /\ p \notin dirs /\ p \notin kept
    BY <2>1 DEF TidyInv, Expected, RollbackSteps
  <2> QED
    BY <2>2, <2>3 DEF Vacant
<1> QED
  BY <1>1, <1>2, <1>3, Inductive, PTL DEF Spec

=============================================================================
