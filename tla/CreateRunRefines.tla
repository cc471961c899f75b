---------------------------- MODULE CreateRunRefines ----------------------------
(***************************************************************************)
(* A CREATE run implements the promise of CreateOutcome, and lives the     *)
(* life of RunLife: every step of the engine, of a fault or of the user is *)
(* one step of either, or none.                                            *)
(***************************************************************************)
EXTENDS CreateRunStepProofs

LEMMA PromiseInit == Init => Promise!Init
  BY DEF Init, Promise!Init, Outcome, Eligible, Planned

\* The outcome of the run, read off its journal; the second half is the same
\* for the state after the step.
LEMMA PromiseStep == IInv /\ [Next]_vars => [Promise!Next]_Promise!vars
<1> SUFFICES ASSUME IInv, [Next]_vars PROVE [Promise!Next]_Promise!vars
  OBVIOUS
<1>0. /\ IInv'
      /\ mem \in Journal /\ journal \in Journal /\ idx \in 0..NumPaths
      /\ file \in [Paths -> Content] /\ edits \in [Paths -> 0..MaxEdits]
  BY NextInv DEF IInv, TypeOK, ControlOK, DataOK
<1>i. /\ journal.status = "GONE" => Outcome = "gone"
      /\ journal.status = "FINALIZED" => Outcome = "committed"
      /\ journal.status = "FAILED" => Outcome = "aborted"
      /\ Eligible(journal) => Outcome = "open"
      /\ Appliable(journal) => Outcome = "ready"
  BY DEF Outcome, Eligible, Appliable
<1>j. /\ journal'.status = "GONE" => Outcome' = "gone"
      /\ journal'.status = "FINALIZED" => Outcome' = "committed"
      /\ journal'.status = "FAILED" => Outcome' = "aborted"
      /\ Eligible(journal') => Outcome' = "open"
      /\ Appliable(journal') => Outcome' = "ready"
  BY DEF Outcome, Eligible, Appliable
\* Where a command is says what its run is.
<1>k. /\ pc \in {"approve", "enter"} => Appliable(journal) /\ Appliable(mem)
      /\ pc \notin {"idle", "approve", "enter", "cleanup"} => Eligible(journal) /\ Eligible(mem)
  BY DEF IInv, StatusInv
\* Steps the promise does not see.
<1>a. UNCHANGED <<journal, file, edits>> => UNCHANGED Promise!vars
  BY DEF Promise!vars, Outcome
<1>b. UNCHANGED <<file, edits>> /\ Outcome' = Outcome => UNCHANGED Promise!vars
  BY DEF Promise!vars
\* A file taken away, by either rollback, while the run is open.
<1>c. ASSUME Eligible(journal), UNCHANGED <<journal, edits>>,
             NEW p \in Paths, file' = [file EXCEPT ![p] = "absent"]
      PROVE  Promise!Next \/ UNCHANGED Promise!vars
  <2>1. {q \in Paths : file'[q] = "generated"} = {q \in Paths : file[q] = "generated"} \ {p}
    BY <1>0, <1>c
  <2>2. Outcome' = Outcome /\ Outcome = "open"
    BY <1>i, <1>j, <1>c
  <2>3. CASE file[p] = "generated"
    <3>1. Promise!Withdraw(p)
      BY <1>c, <2>1, <2>2, <2>3 DEF Promise!Withdraw
    <3> QED
      BY <3>1 DEF Promise!Next
  <2>4. CASE file[p] # "generated"
    BY <1>c, <2>1, <2>2, <2>4 DEF Promise!vars
  <2> QED
    BY <2>3, <2>4
\* The run settled as FAILED: the inductive invariant has no file left.
<1>d. ASSUME Eligible(journal), journal'.status = "FAILED", UNCHANGED <<file, edits>>
      PROVE  Promise!Next
  <2>1. \A p \in Paths : file[p] # "generated"
    BY <1>0, <1>d DEF IInv, SettledInv, Generated
  <2>2. Promise!Abort
    BY <1>i, <1>j, <1>d, <2>1 DEF Promise!Abort
  <2> QED
    BY <2>2 DEF Promise!Next
\* The bundle removed.
<1>e. ASSUME Discardable(journal), RemoveBundle, UNCHANGED <<file, edits>>
      PROVE  Promise!Next \/ UNCHANGED Promise!vars
  <2>1. CASE journal' = journal
    BY <1>a, <1>e, <2>1
  <2>2. CASE journal' = Gone(journal)
    <3>1. Outcome' = "gone"
      BY <1>0, <1>j, <2>2, EndFacts
    <3>2. Outcome \in {"ready", "committed", "aborted"}
      BY <1>i, <1>e DEF Discardable
    <3>3. Promise!Forget
      BY <1>e, <3>1, <3>2 DEF Promise!Forget
    <3> QED
      BY <3>3 DEF Promise!Next
  <2> QED
    BY <1>e, <2>1, <2>2 DEF RemoveBundle
\* A path the user writes or deletes is the user's.
<1>f. ASSUME NEW p \in Paths, NEW c \in {"foreign", "restored", "absent"},
             Edit(p), UNCHANGED journal, file' = [file EXCEPT ![p] = c]
      PROVE  Promise!Next
  <2>1. {q \in Paths : file'[q] = "generated"} = {q \in Paths : file[q] = "generated"} \ {p}
    BY <1>0, <1>f
  <2>2. {q \in Paths : edits'[q] > 0} = {q \in Paths : edits[q] > 0} \union {p}
    BY <1>0, <1>f, BoundsAssumption DEF Edit
  <2>3. Outcome' = Outcome
    BY <1>f DEF Outcome
  <2>4. Promise!UserTouch(p)
    BY <2>1, <2>2, <2>3 DEF Promise!UserTouch
  <2> QED
    BY <2>4 DEF Promise!Next
\* Settling as RECOVERY_REQUIRED leaves the run open.
<1>g. ASSUME Eligible(journal), Eligible(journal'), UNCHANGED <<file, edits>>
      PROVE  UNCHANGED Promise!vars
  BY <1>i, <1>j, <1>b, <1>g
<1>1. CASE ApplyBegin
  BY <1>1, <1>a DEF ApplyBegin, target
<1>2. CASE Approve
  <2>1. CASE journal' = journal
    BY <1>2, <1>a, <2>1 DEF Approve, target
  <2>2. CASE journal' = SetStage(mem, "APPROVED")
    <3>1. Appliable(journal) /\ Appliable(journal')
      BY <1>2, <1>0, <1>k, <2>2, StageFacts DEF Approve, Appliable
    <3> QED
      BY <1>2, <1>i, <1>j, <1>b, <3>1 DEF Approve, target
  <2> QED
    BY <1>2, <2>1, <2>2 DEF Approve, Save, Unsaved
<1>3. CASE EnterApplying
  <2>1. CASE journal' = journal
    BY <1>3, <1>a, <2>1 DEF EnterApplying, target
  <2>2. CASE journal' = SetStage(mem, "FILES_APPLYING")
    <3>1. Appliable(journal) /\ Eligible(journal')
      BY <1>3, <1>0, <1>k, <2>2, StageFacts DEF EnterApplying, Appliable, Eligible
    <3>2. Promise!Open
      BY <1>3, <1>i, <1>j, <3>1 DEF EnterApplying, target, Promise!Open
    <3> QED
      BY <3>2 DEF Promise!Next
  <2> QED
    BY <1>3, <2>1, <2>2 DEF EnterApplying, Save, Unsaved
<1>4. CASE MarkApplying
  <2>1. CASE journal' = journal
    BY <1>4, <1>a, <2>1 DEF MarkApplying, target
  <2>2. CASE journal' = SetOp(mem, ApplyPath(idx), "APPLYING")
    <3>1. ApplyPath(idx) \in Paths
      BY <1>0, <1>4, ApplyOrder DEF MarkApplying, IInv, LoopInv, FileSteps, LoopSteps
    <3>2. Eligible(journal')
      BY <1>4, <1>0, <1>k, <2>2, <3>1, SetOpFacts, Names DEF MarkApplying, Eligible
    <3> QED
      BY <1>4, <1>k, <1>g, <3>2 DEF MarkApplying, target
  <2> QED
    BY <1>4, <2>1, <2>2 DEF MarkApplying, Save, Unsaved
<1>5. CASE EnsureParent
  BY <1>5, <1>a DEF EnsureParent
<1>6. CASE WriteTemp
  BY <1>6, <1>a DEF WriteTemp
<1>7. CASE Publish
  <2>0. PICK p \in Paths : p = ApplyPath(idx)
    BY <1>0, <1>7, ApplyOrder DEF Publish, IInv, LoopInv, FileSteps, LoopSteps
  <2>1. Outcome = "open"
    BY <1>i, <1>k, <1>7 DEF Publish
  <2>2. CASE UNCHANGED file
    BY <1>7, <1>a, <2>2 DEF Publish
  <2>3. CASE file[p] = "absent" /\ file' = [file EXCEPT ![p] = "generated"]
    <3>1. {q \in Paths : file'[q] = "generated"} = {q \in Paths : file[q] = "generated"} \union {p}
      BY <1>0, <2>3
    <3>2. Outcome' = Outcome
      BY <1>7 DEF Publish, Outcome
    <3>3. Promise!Publish(p)
      BY <1>7, <2>1, <2>3, <3>1, <3>2 DEF Publish, Promise!Publish
    <3> QED
      BY <3>3 DEF Promise!Next
  <2> QED
    BY <1>7, <2>0, <2>2, <2>3 DEF Publish
<1>8. CASE DropTemp
  BY <1>8, <1>a DEF DropTemp
<1>9. CASE MarkApplied
  <2>1. CASE journal' = journal
    BY <1>9, <1>a, <2>1 DEF MarkApplied, target
  <2>2. CASE journal' = SetOp(mem, ApplyPath(idx), "APPLIED")
    <3>1. ApplyPath(idx) \in Paths
      BY <1>0, <1>9, ApplyOrder DEF MarkApplied, IInv, LoopInv, FileSteps, LoopSteps
    <3>2. Eligible(journal')
      BY <1>9, <1>0, <1>k, <2>2, <3>1, SetOpFacts, Names DEF MarkApplied, Eligible
    <3> QED
      BY <1>9, <1>k, <1>g, <3>2 DEF MarkApplied, target
  <2> QED
    BY <1>9, <2>1, <2>2 DEF MarkApplied, Save, Unsaved
<1>10. CASE VerifyFile
  BY <1>10, <1>a DEF VerifyFile, target
<1>11. CASE Validate
  BY <1>11, <1>a DEF Validate, target
<1>12. CASE RecordValidated
  <2>1. CASE journal' = journal
    BY <1>12, <1>a, <2>1 DEF RecordValidated, target
  <2>2. CASE journal' = SetStage(mem, "VALIDATED")
    <3>1. Eligible(journal')
      BY <1>12, <1>0, <1>k, <2>2, StageFacts DEF RecordValidated, Eligible
    <3> QED
      BY <1>12, <1>k, <1>g, <3>1 DEF RecordValidated, target
  <2> QED
    BY <1>12, <2>1, <2>2 DEF RecordValidated, Save, Unsaved
<1>13. CASE Finalize
  <2>1. CASE journal' = journal
    BY <1>13, <1>a, <2>1 DEF Finalize, target
  <2>2. CASE journal' = Settle(mem, "FINALIZED", "FINALIZED")
    <3>1. Outcome = "open" /\ Outcome' = "committed"
      BY <1>13, <1>0, <1>i, <1>j, <1>k, <2>2, SettleFacts, Names DEF Finalize
    <3>2. \A p \in Paths : edits[p] = 0 => file[p] = "generated"
      BY <1>13 DEF Finalize, IInv, ProgressInv, DoneSteps, Done, Untouched, Generated
    <3>3. Paths \ {p \in Paths : edits[p] > 0} \subseteq {p \in Paths : file[p] = "generated"}
      BY <1>0, <3>2, BoundsAssumption
    <3>4. Promise!Commit
      BY <1>13, <3>1, <3>3 DEF Finalize, target, Promise!Commit
    <3> QED
      BY <3>4 DEF Promise!Next
  <2> QED
    BY <1>13, <2>1, <2>2 DEF Finalize, Save, Unsaved
<1>14. CASE Cleanup
  BY <1>14, <1>e DEF Cleanup, target, IInv, StatusInv, Discardable
<1>15. CASE UndoTemp
  BY <1>15, <1>a DEF UndoTemp
<1>15b. CASE UndoDirs
  BY <1>15b, <1>a DEF UndoDirs
<1>16. CASE RollbackCheck
  BY <1>16, <1>a DEF RollbackCheck, target
<1>17. CASE RollbackRemove
  <2>1. ApplyPath(idx) \in Paths /\ Eligible(journal)
    BY <1>0, <1>k, <1>17, ApplyOrder DEF RollbackRemove, IInv, LoopInv, FileSteps
  <2> QED
    BY <1>17, <1>a, <1>c, <2>1 DEF RollbackRemove
<1>18. CASE RollbackDirs
  BY <1>18, <1>a DEF RollbackDirs
<1>19. CASE RollbackEnd
  <2>1. Eligible(journal)
    BY <1>19, <1>k DEF RollbackEnd
  <2>2. CASE journal' = journal
    BY <1>19, <1>a, <2>2 DEF RollbackEnd, target
  <2>3. CASE journal' = RolledBack(mem)
    BY <1>19, <1>0, <1>d, <2>1, <2>3, EndFacts DEF RollbackEnd, target
  <2>4. CASE journal' = Incomplete(mem)
    BY <1>19, <1>0, <1>g, <2>1, <2>4, EndFacts DEF RollbackEnd, target, Eligible
  <2> QED
    BY <1>19, <2>2, <2>3, <2>4 DEF RollbackEnd, Save, Unsaved
<1>20. CASE RecoverBegin
  BY <1>20, <1>a DEF RecoverBegin, target
<1>21. CASE Preflight
  BY <1>21, <1>a DEF Preflight, target
<1>22. CASE RecoverCheck
  <2>1. CASE journal' = journal
    BY <1>22, <1>a, <2>1 DEF RecoverCheck, target
  <2>2. CASE journal' = Incomplete(mem)
    BY <1>22, <1>0, <1>k, <1>g, <2>2, EndFacts DEF RecoverCheck, target, Eligible
  <2> QED
    BY <1>22, <2>1, <2>2 DEF RecoverCheck, RecoverFail, Save, Unsaved
<1>23. CASE RecoverUnreadable
  <2>1. CASE journal' = journal
    BY <1>23, <1>a, <2>1 DEF RecoverUnreadable, target
  <2>2. CASE journal' = Incomplete(mem)
    BY <1>23, <1>0, <1>k, <1>g, <2>2, EndFacts DEF RecoverUnreadable, target, Eligible
  <2> QED
    BY <1>23, <2>1, <2>2 DEF RecoverUnreadable
<1>24. CASE RecoverRemove
  <2>1. idx \in Paths /\ Eligible(journal)
    BY <1>0, <1>k, <1>24, PlanOrder DEF RecoverRemove, IInv, LoopInv, FileSteps
  <2>2. CASE journal' = journal /\ file' = file
    BY <1>24, <1>a, <2>2 DEF RecoverRemove
  <2>3. CASE journal' = journal /\ file' = [file EXCEPT ![idx] = "absent"]
    BY <1>24, <1>c, <2>1, <2>3 DEF RecoverRemove
  <2>4. CASE journal' = Incomplete(mem) /\ file' = file
    BY <1>24, <1>0, <1>g, <2>1, <2>4, EndFacts DEF RecoverRemove, Eligible
  <2> QED
    BY <1>24, <2>2, <2>3, <2>4 DEF RecoverRemove, RecoverFail, Save, Unsaved
<1>25. CASE RecoverWrite
  <2>1. CASE journal' = journal
    BY <1>25, <1>a, <2>1 DEF RecoverWrite, target
  <2>2. CASE journal' = mem
    BY <1>25, <1>k, <1>g, <2>2 DEF RecoverWrite, target
  <2> QED
    BY <1>25, <2>1, <2>2 DEF RecoverWrite, Save, Unsaved
<1>26. CASE RecoverEnd
  <2>1. Eligible(journal)
    BY <1>26, <1>k DEF RecoverEnd
  <2>2. CASE journal' = journal
    BY <1>26, <1>a, <2>2 DEF RecoverEnd, target
  <2>3. CASE journal' = RolledBack(mem)
    BY <1>26, <1>0, <1>d, <2>1, <2>3, EndFacts DEF RecoverEnd, target
  <2> QED
    BY <1>26, <2>2, <2>3 DEF RecoverEnd, Save, Unsaved
<1>27. CASE Discard
  BY <1>27, <1>e DEF Discard, target
<1>28. CASE Crash
  BY <1>28, <1>a DEF Crash, target
<1>29. ASSUME NEW p \in Paths, UserWrite(p) PROVE [Promise!Next]_Promise!vars
  BY <1>29, <1>f DEF UserWrite
<1>30. ASSUME NEW p \in Paths, UserDelete(p) PROVE [Promise!Next]_Promise!vars
  BY <1>30, <1>f DEF UserDelete
<1>31. ASSUME NEW p \in Paths, UserTidy(p) PROVE [Promise!Next]_Promise!vars
  BY <1>31, <1>a DEF UserTidy
<1>32. CASE UNCHANGED vars
  BY <1>32, <1>a DEF vars, target
<1> QED
  BY <1>1, <1>2, <1>3, <1>4, <1>5, <1>6, <1>7, <1>8, <1>9, <1>10, <1>11, <1>12, <1>13, <1>14, <1>15, <1>15b, <1>16, <1>17, <1>18, <1>19, <1>20, <1>21, <1>22, <1>23, <1>24, <1>25, <1>26, <1>27, <1>28, <1>29, <1>30, <1>31, <1>32
     DEF Next, EngineStep, ApplyStep, RollbackStep, RecoverStep, UserStep

\* All of the files or none, wherever faults, crashes and edits fall.
THEOREM RunKeepsPromise == Spec => KeepsPromise
  BY PromiseInit, PromiseStep, Inductive, PTL DEF Spec, KeepsPromise, Promise!Spec

-----------------------------------------------------------------------------
(* The life of the run. *)

HasFiles == \E p \in Paths : file[p] = "generated"
Whole(j) == \A p \in Paths : j.op[p] # "PENDING"

\* What a journal says of the run, case by case.
LEMMA StageRead ==
    ASSUME NEW j
    PROVE  /\ j.status = "GONE" => StageOf(j) = "gone"
           /\ j.status = "FINALIZED" => StageOf(j) = "finalized"
           /\ j.status = "FAILED" => StageOf(j) = "failed"
           /\ Appliable(j) => StageOf(j) = "ready"
           /\ Eligible(j) /\ ~Whole(j) => StageOf(j) = "entered"
           /\ Eligible(j) /\ Whole(j) /\ j.status = "ACTIVE" => StageOf(j) = "applying"
           /\ Eligible(j) /\ Whole(j) /\ j.status # "ACTIVE" => StageOf(j) = "recovery"
  BY DEF StageOf, Eligible, Appliable, Whole

\* An operation that has left PENDING stays away from it.
LEMMA WholeStays ==
    ASSUME NEW j \in Journal, NEW k \in Journal, AheadOf(j, k), Whole(j)
    PROVE  Whole(k)
<1> SUFFICES ASSUME NEW p \in Paths, k.op[p] = "PENDING" PROVE FALSE
  BY DEF Whole
<1>1. j.op[p] \in OpStatus \ {"PENDING"} /\ Rank[j.op[p]] <= 0
  BY RankFacts DEF AheadOf, Whole, Journal
<1> QED
  BY <1>1, RankFacts DEF OpStatus, Live

LEMMA LifeInit == Init => Life!Init
<1> SUFFICES ASSUME Init PROVE Life!Init
  OBVIOUS
<1>1. Appliable(journal)
  BY DEF Init, Planned, Appliable
<1> QED
  BY <1>1, StageRead DEF Init, Life!Init

\* A step that writes no journal: files come while the run is applied, and go.
LEMMA LifeOfFiles ==
    ASSUME IInv, CopyInv, [Next]_vars, journal' = journal
    PROVE  [Life!Next]_Life!vars
<1>1. StageOf(journal)' = StageOf(journal)
  OBVIOUS
<1>2. CASE HasFiles' = HasFiles
  BY <1>1, <1>2 DEF Life!vars, HasFiles
<1>3. CASE HasFiles /\ ~HasFiles'
  BY <1>1, <1>3 DEF Life!Next, Life!Vanish, HasFiles
<1>4. CASE ~HasFiles /\ HasFiles'
  <2>1. PICK q \in Paths : file[q] # "generated" /\ file'[q] = "generated"
    BY <1>4 DEF HasFiles
  <2>2. pc = "link"
    BY <2>1, Published DEF Publish
  <2>3. Eligible(journal) /\ journal.status = "ACTIVE"
    BY <2>2 DEF IInv, StatusInv, CopyInv, SyncInv, ApplySteps
  <2>4. StageOf(journal) \in {"entered", "applying"}
    BY <2>3, StageRead
  <2> QED
    BY <1>1, <1>4, <2>4 DEF Life!Next, Life!Publish, HasFiles
<1> QED
  BY <1>2, <1>3, <1>4 DEF HasFiles

\* A step that writes the journal: the next stage of the life, or the same.
LEMMA LifeOfJournal ==
    ASSUME IInv, CopyInv, [Next]_vars, journal' # journal
    PROVE  [Life!Next]_Life!vars
<1> DEFINE Was == StageOf(journal)
           Now == StageOf(journal')
<1>0. /\ mem \in Journal /\ journal \in Journal /\ journal' \in Journal
      /\ Written /\ IInv'
  BY NextInv, WriteStep DEF IInv, TypeOK, DataOK
<1>1. file' = file /\ HasFiles' = HasFiles
  BY <1>0 DEF Written, HasFiles
<1>2. /\ pc \in {"approve", "enter"} => /\ Appliable(journal) /\ Appliable(mem)
                                        /\ \A p \in Paths : mem.op[p] = "PENDING"
      /\ Open => Eligible(journal) /\ mem.status = journal.status /\ AheadOf(journal, mem)
  BY DEF IInv, StatusInv, CopyInv, SyncInv, RankInv, Open
<1>3. Appliable(journal) => Was = "ready"
  BY StageRead
<1>4. Eligible(journal) => /\ Was \in Life!Interrupted
                           /\ Was = "entered" <=> ~Whole(journal)
                           /\ Was = "recovery" => journal.status # "ACTIVE"
  BY StageRead DEF Life!Interrupted
<1>5. Eligible(journal') => /\ Now \in Life!Interrupted
                            /\ Now = "entered" <=> ~Whole(journal')
                            /\ Now = "applying" => journal'.status = "ACTIVE"
  BY StageRead DEF Life!Interrupted
\* The run goes on, or is interrupted for good.
<1>6. ASSUME Eligible(journal), Eligible(journal'), AheadOf(journal, journal'),
             journal.status # "ACTIVE" => journal'.status # "ACTIVE"
      PROVE  [Life!Next]_Life!vars
  <2>1. Now = "entered" => Was = "entered"
    BY <1>0, <1>4, <1>5, <1>6, WholeStays
  <2>2. Now = "applying" => Was \in {"entered", "applying"}
    BY <1>4, <1>5, <1>6 DEF Life!Interrupted
  <2>3. CASE Now = Was
    BY <1>1, <2>3 DEF Life!vars, HasFiles
  <2>4. CASE Now = "applying" /\ Was = "entered"
    BY <1>1, <2>4 DEF Life!Next, Life!Journal, HasFiles
  <2>5. CASE Now = "recovery"
    BY <1>1, <1>4, <1>6, <2>5 DEF Life!Next, Life!FallShort, HasFiles
  <2> QED
    BY <1>5, <1>6, <2>1, <2>2, <2>3, <2>4, <2>5 DEF Life!Interrupted
<1>7. CASE pc = "approve" /\ journal' = SetStage(mem, "APPROVED")
  <2>1. Appliable(journal') /\ Now = "ready"
    BY <1>0, <1>2, <1>7, StageFacts, StageRead DEF Appliable
  <2> QED
    BY <1>1, <1>2, <1>3, <1>7, <2>1 DEF Life!vars, HasFiles
<1>8. CASE pc = "enter" /\ journal' = SetStage(mem, "FILES_APPLYING")
  <2>1. Eligible(journal') /\ journal'.op = mem.op
    BY <1>0, <1>2, <1>8, StageFacts DEF Appliable, Eligible
  <2>2. ~Whole(journal')
    BY <1>2, <1>8, <2>1, NumPathsAssumption DEF Whole, Paths
  <2>3. Now = "entered" /\ Was = "ready"
    BY <1>2, <1>3, <1>5, <1>8, <2>1, <2>2
  <2> QED
    BY <1>1, <2>3 DEF Life!Next, Life!Enter, HasFiles
<1>9. CASE Open /\ Eligible(journal') /\ journal'.status = mem.status /\ AheadOf(journal, journal')
  BY <1>2, <1>6, <1>9
<1>10. CASE Open /\ journal' = RolledBack(mem)
  <2>1. journal'.status = "FAILED" /\ Now = "failed"
    BY <1>0, <1>10, EndFacts, StageRead
  <2>2. ~HasFiles'
    BY <1>0, <2>1 DEF IInv, SettledInv, Generated, HasFiles
  <2> QED
    BY <1>2, <1>4, <1>10, <2>1, <2>2 DEF Life!Next, Life!Fail, HasFiles
<1>11. CASE Open /\ journal' = Incomplete(mem)
  <2>1. journal'.op = mem.op /\ journal'.status = "RECOVERY_REQUIRED"
    BY <1>0, <1>11, EndFacts
  <2> QED
    BY <1>2, <1>6, <1>11, <2>1 DEF AheadOf, Eligible
<1>12. CASE pc = "finalize" /\ journal' = Settle(mem, "FINALIZED", "FINALIZED")
  <2>1. Eligible(journal) /\ journal.status = "ACTIVE" /\ Whole(journal)
    BY <1>12 DEF IInv, StatusInv, ProgressInv, Done, DoneSteps, CopyInv, SyncInv, ApplySteps, Whole
  <2>2. Was = "applying" /\ Now = "finalized"
    BY <1>0, <1>12, <2>1, StageRead, SettleFacts, Names
  <2> QED
    BY <1>1, <2>2 DEF Life!Next, Life!Finalize, HasFiles
<1>13. CASE Discardable(journal) /\ journal' = Gone(journal)
  <2>1. Was \in {"ready", "failed", "finalized"} /\ Now = "gone"
    BY <1>0, <1>13, EndFacts, StageRead DEF Discardable
  <2> QED
    BY <1>1, <2>1 DEF Life!Next, Life!Forget, HasFiles
<1> QED
  BY <1>0, <1>7, <1>8, <1>9, <1>10, <1>11, <1>12, <1>13 DEF Written

\* What RunStore takes a run to do is what its journal and files show.
THEOREM RunLivesLife == Spec => LivesLife
<1>1. IInv /\ CopyInv /\ [Next]_vars => [Life!Next]_Life!vars
  BY LifeOfFiles, LifeOfJournal
<1> QED
  BY <1>1, LifeInit, CopyInductive, PTL DEF Spec, LivesLife, Life!Spec

=============================================================================
