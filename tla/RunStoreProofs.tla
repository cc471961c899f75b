---------------------------- MODULE RunStoreProofs ----------------------------
(***************************************************************************)
(* RunStore's properties, for any number of commands and runs.             *)
(***************************************************************************)
EXTENDS RunStoreInv, FiniteSetTheorems, TLAPS

LEMMA Names ==
    /\ Locked \subseteq Labels /\ Labels \ Locked = {"idle", "lock", "PLAN_STALE", "PLAN_INVALID"}
    /\ Interrupted = {"entered", "applying", "recovery"}
    /\ Class = {"new", "ready", "entered", "applying", "recovery", "failed", "finalized"}
  BY DEF Labels, Locked, Interrupted, Settled, Class

\* How a step changes who is where: it goes on under its lock, or ends and
\* gives it back, or comes to wait for it.
LEMMA Stays ==
    ASSUME ControlOK, LockInv, NEW c \in Commands, NEW l \in Locked, pc[c] \in Locked,
           pc' = [pc EXCEPT ![c] = l], UNCHANGED <<root, lock>>
    PROVE  LockInv'
  BY DEF ControlOK, LockInv, Locked

LEMMA Leaves ==
    ASSUME ControlOK, LockInv, NEW c \in Commands, NEW l \in Labels \ Locked,
           pc' = [pc EXCEPT ![c] = l], Unlock(c),
           root' = root \/ \E d \in Roots : root' = [root EXCEPT ![c] = d]
    PROVE  LockInv'
<1>1. \A e \in Commands : pc'[e] = IF e = c THEN l ELSE pc[e]
  BY DEF ControlOK
<1>2. \A e \in Commands \ {c} : root'[e] = root[e]
  BY DEF ControlOK
<1>3. \A d \in Roots : lock'[d] = IF lock[d] = c THEN None ELSE lock[d]
  BY DEF Unlock
<1>4. \A e \in Commands : root[e] \in Roots
  BY DEF ControlOK
<1> QED
  BY <1>1, <1>2, <1>3, <1>4, NoneAssumption DEF LockInv

LEMMA Waits ==
    ASSUME ControlOK, LockInv, NEW c \in Commands, pc[c] = "idle",
           pc' = [pc EXCEPT ![c] = "lock"], UNCHANGED lock,
           NEW d, root' = [root EXCEPT ![c] = d]
    PROVE  LockInv'
  BY DEF ControlOK, LockInv, Locked

\* The same for what a command remembers.
LEMMA ExitControl ==
    ASSUME ControlOK, NEW c \in Commands, Exit(c) PROVE ControlOK'
<1>1. {"idle"} \subseteq Labels /\ {"scan"} \subseteq Locked /\ {"external"} \subseteq Roots
  BY DEF Labels, Locked, Roots
<1>2. pc' \in [Commands -> Labels] /\ goal' \in [Commands -> Locked]
  BY <1>1 DEF ControlOK, Exit, Forget, Goto
<1>3. run' \in [Commands -> Runs \union {None}] /\ root' \in [Commands -> Roots]
  BY <1>1 DEF ControlOK, Exit, Forget
<1>4. seen' \in [Commands -> BOOLEAN]
  BY DEF ControlOK, Exit, Forget
<1>5. lock' \in [Roots -> Commands \union {None}]
  BY DEF ControlOK, Exit, Unlock
<1> QED
  BY <1>2, <1>3, <1>4, <1>5 DEF ControlOK

LEMMA StepControl ==
    ASSUME ControlOK, NEW c \in Commands, NEW l \in Labels, Goto(c, l), UNCHANGED local,
           UNCHANGED lock \/ Unlock(c)
    PROVE  ControlOK'
<1>1. lock' \in [Roots -> Commands \union {None}]
  BY DEF ControlOK, Unlock
<1>2. pc' \in [Commands -> Labels]
  BY DEF ControlOK, Goto
<1> QED
  BY <1>1, <1>2 DEF ControlOK, local

LEMMA BeginControl ==
    ASSUME ControlOK, NEW c \in Commands, NEW l \in Locked, NEW r \in Runs, Begin(c, l, r),
           seen' \in [Commands -> BOOLEAN]
    PROVE  ControlOK'
<1>1. "lock" \in Labels /\ RootNow \in Roots /\ "external" \in Roots
  BY DEF Labels, RootNow, Roots
<1>2. pc' \in [Commands -> Labels] /\ goal' \in [Commands -> Locked]
  BY <1>1 DEF ControlOK, Begin, Goto
<1>3. run' \in [Commands -> Runs \union {None}] /\ root' \in [Commands -> Roots]
  BY <1>1 DEF ControlOK, Begin
<1> QED
  BY <1>2, <1>3 DEF ControlOK, Begin

LEMMA GoalLabels == {"scan", "adopt", "apply", "rollback", "discard"} \subseteq Locked
  BY DEF Locked

\* Every variable keeps to its type: the commands ...
LEMMA ControlStep ==
    ControlOK /\ DataOK /\ [Next]_vars => ControlOK'
<1> SUFFICES ASSUME ControlOK, DataOK, [Next]_vars PROVE ControlOK'
  OBVIOUS
<1>0. {"idle", "lock", "project", "mkdir", "staging", "plan", "run", "remove", "publish", "settle", "discard", "PLAN_STALE", "PLAN_INVALID"} \subseteq Labels
  BY DEF Labels, Locked
<1>1. ASSUME NEW c \in Commands, TakeLock(c) PROVE ControlOK'
  <2>1. CASE Exit(c)
    BY <2>1, ExitControl
  <2>2. CASE /\ UNCHANGED <<goal, run, seen>> /\ Goto(c, goal[c])
             /\ \E d \in Roots : lock' = [lock EXCEPT ![d] = c] /\ root' = [root EXCEPT ![c] = d]
    <3>1. goal[c] \in Labels
      BY DEF ControlOK, Labels
    <3> QED
      BY <2>2, <3>1 DEF ControlOK, Goto
  <2>3. root[c] \in Roots /\ RootNow \in Roots /\ "external" \in Roots
    BY DEF ControlOK, RootNow, Roots
  <2> QED
    BY <1>1, <2>1, <2>2, <2>3 DEF TakeLock
<1>2. ASSUME NEW c \in Commands, RemovePart(c) PROVE ControlOK'
  <2>1. CASE UNCHANGED <<pc, local, lock>>
    BY <2>1 DEF ControlOK, local
  <2>2. CASE Exit(c)
    BY <2>2, ExitControl
  <2> QED
    BY <1>2, <2>1, <2>2 DEF RemovePart
<1>3. ASSUME NEW c \in Commands, Emit(c) PROVE ControlOK'
  BY <1>0, <1>3, ExitControl, StepControl DEF Emit
<1>4. ASSUME NEW c \in Commands, Crash(c) PROVE ControlOK'
  BY <1>0, <1>4, ExitControl, StepControl DEF Crash
<1>5. ASSUME NEW c \in Commands, PlanBegin(c) PROVE ControlOK'
  <2>1. PICK r \in Runs : Begin(c, "scan", r) /\ seen' = [seen EXCEPT ![c] = git]
    BY <1>5 DEF PlanBegin
  <2>2. seen' \in [Commands -> BOOLEAN]
    BY <2>1 DEF ControlOK, DataOK
  <2> QED
    BY <2>1, <2>2, BeginControl, GoalLabels
<1>6. ASSUME NEW c \in Commands, Scan(c) PROVE ControlOK'
  BY <1>0, <1>6, ExitControl, StepControl DEF Scan
<1>7. ASSUME NEW c \in Commands, ProjectID(c) PROVE ControlOK'
  BY <1>0, <1>7, ExitControl, StepControl DEF ProjectID
<1>8. ASSUME NEW c \in Commands, MakeRunDir(c) PROVE ControlOK'
  BY <1>0, <1>8, ExitControl, StepControl DEF MakeRunDir
<1>9. ASSUME NEW c \in Commands, WritePart(c) PROVE ControlOK'
  <2>1. PICK l \in {"plan", "run", "remove"} : Goto(c, l)
    BY <1>9 DEF WritePart, After
  <2> QED
    BY <1>0, <1>9, <2>1, StepControl DEF WritePart
<1>10. ASSUME NEW c \in Commands, WriteRun(c) PROVE ControlOK'
  BY <1>0, <1>10, ExitControl, StepControl DEF WriteRun
<1>11. ASSUME NEW c \in Commands, AdoptBegin(c) PROVE ControlOK'
  <2>1. PICK r \in Runs : Begin(c, "adopt", r) /\ UNCHANGED seen
    BY <1>11 DEF AdoptBegin
  <2> QED
    BY <2>1, BeginControl, GoalLabels DEF ControlOK
<1>12. ASSUME NEW c \in Commands, AdoptID(c) PROVE ControlOK'
  BY <1>0, <1>12, ExitControl, StepControl DEF AdoptID
<1>13. ASSUME NEW c \in Commands, ApplyBegin(c) PROVE ControlOK'
  <2>1. PICK r \in Runs : Begin(c, "apply", r) /\ UNCHANGED seen
    BY <1>13 DEF ApplyBegin
  <2> QED
    BY <2>1, BeginControl, GoalLabels DEF ControlOK
<1>14. ASSUME NEW c \in Commands, ApplyCheck(c) PROVE ControlOK'
  BY <1>0, <1>14, ExitControl, StepControl DEF ApplyCheck, Answer
<1>15. ASSUME NEW c \in Commands, ApplyPublish(c) PROVE ControlOK'
  BY <1>0, <1>15, ExitControl, StepControl DEF ApplyPublish
<1>16. ASSUME NEW c \in Commands, ApplySettle(c) PROVE ControlOK'
  BY <1>0, <1>16, ExitControl, StepControl DEF ApplySettle
<1>17. ASSUME NEW c \in Commands, RecoverBegin(c) PROVE ControlOK'
  <2>1. PICK r \in Runs, l \in {"rollback", "discard"} : Begin(c, l, r) /\ UNCHANGED seen
    BY <1>17 DEF RecoverBegin
  <2> QED
    BY <2>1, BeginControl, GoalLabels DEF ControlOK
<1>18. ASSUME NEW c \in Commands, Rollback(c) PROVE ControlOK'
  BY <1>0, <1>18, ExitControl, StepControl DEF Rollback
<1>19. ASSUME NEW c \in Commands, Discard(c) PROVE ControlOK'
  BY <1>0, <1>19, ExitControl, StepControl DEF Discard
<1>20. CASE GitInit
  BY <1>20 DEF GitInit, Edit, ControlOK, local
<1>21. CASE UserChange
  BY <1>21 DEF UserChange, Edit, ControlOK, local
<1>22. CASE UNCHANGED vars
  BY <1>22 DEF vars, local, ControlOK
<1> QED
  BY <1>1, <1>2, <1>3, <1>4, <1>5, <1>6, <1>7, <1>8, <1>9, <1>10, <1>11, <1>12, <1>13, <1>14, <1>15, <1>16, <1>17, <1>18, <1>19, <1>20, <1>21, <1>22
     DEF Next, PlanStep, RunStep

\* ... and the store.
LEMMA DataStep ==
    ControlOK /\ DataOK /\ RunInv /\ [Next]_vars => DataOK'
<1> SUFFICES ASSUME ControlOK, DataOK, RunInv, [Next]_vars PROVE DataOK'
  OBVIOUS
<1> USE NoneAssumption, ContentAssumption, BoundsAssumption DEF DataOK, Fault
<1>1. ASSUME NEW c \in Commands, TakeLock(c) PROVE DataOK'
  BY <1>1 DEF TakeLock, bundle, world
<1>2. ASSUME NEW c \in Commands, RemovePart(c) PROVE DataOK'
  BY <1>2 DEF RemovePart, world
<1>3. ASSUME NEW c \in Commands, Emit(c) PROVE DataOK'
  BY <1>3 DEF Emit, bundle, world
<1>4. ASSUME NEW c \in Commands, Crash(c) PROVE DataOK'
  BY <1>4 DEF Crash, bundle, world
<1>5. ASSUME NEW c \in Commands, PlanBegin(c) PROVE DataOK'
  BY <1>5 DEF PlanBegin, Begin, bundle, world
<1>6. ASSUME NEW c \in Commands, Scan(c) PROVE DataOK'
  BY <1>6 DEF Scan, bundle, world
<1>7. ASSUME NEW c \in Commands, ProjectID(c) PROVE DataOK'
  BY <1>7 DEF ProjectID, bundle, world, ControlOK
<1>8. ASSUME NEW c \in Commands, MakeRunDir(c) PROVE DataOK'
  BY <1>8 DEF MakeRunDir, world, ControlOK
<1>9. ASSUME NEW c \in Commands, WritePart(c) PROVE DataOK'
  BY <1>9 DEF WritePart, After, world, Parts, PlanOf, ControlOK
<1>10. ASSUME NEW c \in Commands, WriteRun(c) PROVE DataOK'
  BY <1>10 DEF WriteRun, world, Class, Parts
<1>11. ASSUME NEW c \in Commands, AdoptBegin(c) PROVE DataOK'
  BY <1>11 DEF AdoptBegin, Begin, bundle, world
<1>12. ASSUME NEW c \in Commands, AdoptID(c) PROVE DataOK'
  BY <1>12 DEF AdoptID, bundle, world, ControlOK, Roots
<1>13. ASSUME NEW c \in Commands, ApplyBegin(c) PROVE DataOK'
  BY <1>13 DEF ApplyBegin, Begin, bundle, world
<1>14. ASSUME NEW c \in Commands, ApplyCheck(c) PROVE DataOK'
  BY <1>14 DEF ApplyCheck, Answer, world, Class, Interrupted
<1>15. ASSUME NEW c \in Commands, ApplyPublish(c) PROVE DataOK'
  BY <1>15 DEF ApplyPublish, RunInv, RunOK, ControlOK, Class, Interrupted, Settled
<1>16. ASSUME NEW c \in Commands, ApplySettle(c) PROVE DataOK'
  BY <1>16 DEF ApplySettle, Class, Interrupted, Settled
<1>17. ASSUME NEW c \in Commands, RecoverBegin(c) PROVE DataOK'
  BY <1>17 DEF RecoverBegin, Begin, bundle, world
<1>18. ASSUME NEW c \in Commands, Rollback(c) PROVE DataOK'
  BY <1>18 DEF Rollback, Class, Interrupted, Settled
<1>19. ASSUME NEW c \in Commands, Discard(c) PROVE DataOK'
  BY <1>19 DEF Discard, bundle, world
<1>20. CASE GitInit
  BY <1>20 DEF GitInit, Edit, local, bundle
<1>21. CASE UserChange
  BY <1>21 DEF UserChange, Edit, local, bundle
<1>22. CASE UNCHANGED vars
  BY <1>22 DEF vars, local, bundle, world
<1> QED
  BY <1>1, <1>2, <1>3, <1>4, <1>5, <1>6, <1>7, <1>8, <1>9, <1>10, <1>11, <1>12, <1>13, <1>14, <1>15, <1>16, <1>17, <1>18, <1>19, <1>20, <1>21, <1>22
     DEF Next, PlanStep, RunStep

\* Mutual exclusion.
LEMMA ExitLock ==
    ASSUME ControlOK, LockInv, NEW c \in Commands, Exit(c) PROVE LockInv'
<1>1. "idle" \in Labels \ Locked /\ "external" \in Roots
  BY DEF Labels, Locked, Roots
<1> QED
  BY <1>1, Leaves DEF Exit, Forget, Goto

LEMMA AnswerLock ==
    ASSUME ControlOK, LockInv, NEW c \in Commands,
           NEW l \in {"PLAN_STALE", "PLAN_INVALID"}, Answer(c, l)
    PROVE  LockInv'
<1>1. l \in Labels \ Locked
  BY DEF Labels, Locked
<1> QED
  BY <1>1, Leaves DEF Answer, Goto, local

LEMMA StepLock ==
    ASSUME ControlOK, LockInv, NEW c \in Commands, NEW l \in Locked, pc[c] \in Locked,
           Goto(c, l), UNCHANGED <<local, lock>>
    PROVE  LockInv'
  BY Stays DEF Goto, local

LEMMA BeginLock ==
    ASSUME ControlOK, LockInv, NEW c \in Commands, NEW l, NEW r, Begin(c, l, r)
    PROVE  LockInv'
  BY Waits DEF Begin, Goto

\* Commands that hold a lock keep to their root, and one another out.
LEMMA LockStep ==
    ControlOK /\ LockInv /\ [Next]_vars => LockInv'
<1> SUFFICES ASSUME ControlOK, LockInv, [Next]_vars PROVE LockInv'
  OBVIOUS
<1>0. {"scan", "project", "adopt", "mkdir", "staging", "plan", "run",
       "remove", "apply", "publish", "settle", "rollback", "discard"} \subseteq Locked
  BY DEF Locked
<1>1. ASSUME NEW c \in Commands, TakeLock(c) PROVE LockInv'
  <2>1. CASE Exit(c)
    BY <2>1, ExitLock
  <2>2. CASE \E d \in Roots :
                 /\ lock[d] = None /\ lock' = [lock EXCEPT ![d] = c]
                 /\ root' = [root EXCEPT ![c] = d] /\ Goto(c, goal[c])
    <3>1. PICK d \in Roots :
                 /\ lock[d] = None /\ lock' = [lock EXCEPT ![d] = c]
                 /\ root' = [root EXCEPT ![c] = d] /\ Goto(c, goal[c])
      BY <2>2
    <3>2. pc[c] \notin Locked /\ goal[c] \in Locked
      BY <1>1 DEF TakeLock, ControlOK, Locked
    <3>3. \A e \in Commands : /\ pc'[e] = IF e = c THEN goal[c] ELSE pc[e]
                              /\ root'[e] = IF e = c THEN d ELSE root[e]
                              /\ root[e] \in Roots
      BY <3>1 DEF ControlOK, Goto
    <3>4. \A x \in Roots : lock'[x] = IF x = d THEN c ELSE lock[x]
      BY <3>1 DEF ControlOK
    <3> QED
      BY <3>1, <3>2, <3>3, <3>4, NoneAssumption DEF LockInv
  <2>3. root[c] \in Roots /\ RootNow \in Roots /\ "external" \in Roots
    BY DEF ControlOK, RootNow, Roots
  <2> QED
    BY <1>1, <2>1, <2>2, <2>3 DEF TakeLock
<1>2. ASSUME NEW c \in Commands, RemovePart(c) PROVE LockInv'
  <2>1. CASE UNCHANGED <<pc, local, lock>>
    BY <2>1 DEF LockInv, local
  <2>2. CASE Exit(c)
    BY <2>2, ExitLock
  <2> QED
    BY <1>2, <2>1, <2>2 DEF RemovePart
<1>3. ASSUME NEW c \in Commands, Emit(c) PROVE LockInv'
  BY <1>0, <1>3, ExitLock, StepLock DEF Emit
<1>4. ASSUME NEW c \in Commands, Crash(c) PROVE LockInv'
  BY <1>0, <1>4, ExitLock, StepLock DEF Crash
<1>5. ASSUME NEW c \in Commands, PlanBegin(c) PROVE LockInv'
  BY <1>5, BeginLock DEF PlanBegin
<1>6. ASSUME NEW c \in Commands, Scan(c) PROVE LockInv'
  BY <1>0, <1>6, ExitLock, StepLock DEF Scan
<1>7. ASSUME NEW c \in Commands, ProjectID(c) PROVE LockInv'
  BY <1>0, <1>7, ExitLock, StepLock DEF ProjectID
<1>8. ASSUME NEW c \in Commands, MakeRunDir(c) PROVE LockInv'
  BY <1>0, <1>8, ExitLock, StepLock DEF MakeRunDir
<1>9. ASSUME NEW c \in Commands, WritePart(c) PROVE LockInv'
  <2>1. PICK l \in {"plan", "run", "remove"} : Goto(c, l)
    BY <1>9 DEF WritePart, After
  <2> QED
    BY <1>0, <1>9, <2>1, StepLock DEF WritePart
<1>10. ASSUME NEW c \in Commands, WriteRun(c) PROVE LockInv'
  BY <1>0, <1>10, ExitLock, StepLock DEF WriteRun
<1>11. ASSUME NEW c \in Commands, AdoptBegin(c) PROVE LockInv'
  BY <1>11, BeginLock DEF AdoptBegin
<1>12. ASSUME NEW c \in Commands, AdoptID(c) PROVE LockInv'
  BY <1>0, <1>12, ExitLock, StepLock DEF AdoptID
<1>13. ASSUME NEW c \in Commands, ApplyBegin(c) PROVE LockInv'
  BY <1>13, BeginLock DEF ApplyBegin
<1>14. ASSUME NEW c \in Commands, ApplyCheck(c) PROVE LockInv'
  BY <1>0, <1>14, ExitLock, AnswerLock, StepLock DEF ApplyCheck
<1>15. ASSUME NEW c \in Commands, ApplyPublish(c) PROVE LockInv'
  BY <1>0, <1>15, ExitLock, StepLock DEF ApplyPublish
<1>16. ASSUME NEW c \in Commands, ApplySettle(c) PROVE LockInv'
  BY <1>0, <1>16, ExitLock, StepLock DEF ApplySettle
<1>17. ASSUME NEW c \in Commands, RecoverBegin(c) PROVE LockInv'
  BY <1>17, BeginLock DEF RecoverBegin
<1>18. ASSUME NEW c \in Commands, Rollback(c) PROVE LockInv'
  BY <1>0, <1>18, ExitLock, StepLock DEF Rollback
<1>19. ASSUME NEW c \in Commands, Discard(c) PROVE LockInv'
  BY <1>0, <1>19, ExitLock, StepLock DEF Discard
<1>20. CASE GitInit
  BY <1>20 DEF GitInit, Edit, LockInv, local
<1>21. CASE UserChange
  BY <1>21 DEF UserChange, Edit, LockInv, local
<1>22. CASE UNCHANGED vars
  BY <1>22 DEF vars, local, LockInv
<1> QED
  BY <1>1, <1>2, <1>3, <1>4, <1>5, <1>6, <1>7, <1>8, <1>9, <1>10, <1>11, <1>12, <1>13, <1>14, <1>15, <1>16, <1>17, <1>18, <1>19, <1>20, <1>21, <1>22
     DEF Next, PlanStep, RunStep

\* A step of one command does not change what another remembers; Others is what
\* the lemmas below keep of it.
Others(c) ==
    \A e \in Commands \ {c} :
        /\ pc'[e] = pc[e] /\ goal'[e] = goal[e] /\ run'[e] = run[e] /\ root'[e] = root[e]

LEMMA ExitOwn ==
    ASSUME ControlOK, NEW c \in Commands, Exit(c)
    PROVE  Others(c) /\ pc'[c] = "idle" /\ run'[c] = None
  BY DEF ControlOK, Exit, Forget, Goto, Others

LEMMA AnswerOwn ==
    ASSUME ControlOK, NEW c \in Commands, NEW l, Answer(c, l)
    PROVE  Others(c) /\ pc'[c] = l /\ run'[c] = run[c] /\ UNCHANGED local
  BY DEF ControlOK, Answer, Goto, Others, local

LEMMA StepOwn ==
    ASSUME ControlOK, NEW c \in Commands, NEW l, Goto(c, l), UNCHANGED local
    PROVE  Others(c) /\ pc'[c] = l /\ run'[c] = run[c] /\ root'[c] = root[c]
  BY DEF ControlOK, Goto, Others, local

LEMMA BeginOwn ==
    ASSUME ControlOK, NEW c \in Commands, NEW l, NEW r, Begin(c, l, r)
    PROVE  Others(c) /\ pc'[c] = "lock" /\ goal'[c] = l /\ run'[c] = r
  BY DEF ControlOK, Begin, Goto, Others

LEMMA TakeOwn ==
    ASSUME ControlOK, NEW c \in Commands, TakeLock(c)
    PROVE  /\ Others(c)
           /\ (pc'[c] = goal[c] /\ run'[c] = run[c]) \/ (pc'[c] = "idle" /\ run'[c] = None)
  BY ExitOwn DEF ControlOK, TakeLock, Goto, Others

\* A step of a command changes at most its own run, and that only if nobody else
\* can: the run is new, or in the root whose lock the command has.
Touches(c) ==
    \A r \in Runs :
        \/ UNCHANGED <<home[r], parts[r], class[r], plan[r]>>
        \/ /\ r = run[c] /\ pc[c] \in Locked
           /\ class[r] = "new" \/ home[r] = root[c]
           /\ home'[r] \in {home[r], root[c], None}
           /\ class'[r] = class[r] \/ class'[r] # "new"
           /\ class[r] = "new" => class'[r] = "new" \/ (class'[r] = "ready" /\ pc[c] = "run")

Owned(c) == Others(c) /\ Touches(c)

LEMMA OwnedStep ==
    ASSUME ControlOK, DataOK, RunInv, HomeInv, NEW c \in Commands,
           \/ TakeLock(c) \/ RemovePart(c) \/ Emit(c) \/ Crash(c)
           \/ PlanStep(c) \/ RunStep(c)
    PROVE  Owned(c)
<1>0. RunOK(c) /\ HomeOK(c) /\ run[c] \in Runs \union {None}
  BY DEF RunInv, HomeInv, ControlOK
<1>a. ASSUME UNCHANGED bundle PROVE Touches(c)
  BY <1>a DEF bundle, Touches
<1>1. CASE TakeLock(c)
  BY <1>1, <1>a, TakeOwn DEF Owned, TakeLock
<1>2. CASE RemovePart(c)
  <2>1. Others(c)
    BY <1>2, ExitOwn DEF RemovePart, Others, local
  <2>2. Touches(c)
    BY <1>0, <1>2 DEF RemovePart, Touches, RunOK, HomeOK, Storing, Working, At, Locked, DataOK
  <2> QED
    BY <2>1, <2>2 DEF Owned
<1>3. CASE Emit(c)
  BY <1>3, <1>a, ExitOwn DEF Owned, Emit
<1>4. CASE Crash(c)
  BY <1>4, <1>a, ExitOwn DEF Owned, Crash
<1>5. CASE PlanBegin(c)
  BY <1>5, <1>a, BeginOwn DEF Owned, PlanBegin, Begin
<1>6. CASE Scan(c)
  BY <1>6, <1>a, ExitOwn, StepOwn DEF Owned, Scan
<1>7. CASE ProjectID(c)
  BY <1>7, <1>a, ExitOwn, StepOwn DEF Owned, ProjectID
<1>8. CASE MakeRunDir(c)
  <2>1. Others(c)
    BY <1>8, ExitOwn, StepOwn, AnswerOwn DEF MakeRunDir
  <2>2. Touches(c)
    BY <1>0, <1>8 DEF MakeRunDir, Touches, RunOK, HomeOK, Storing, Working, At, Locked, DataOK
  <2> QED
    BY <2>1, <2>2 DEF Owned
<1>9. CASE WritePart(c)
  <2>1. Others(c)
    BY <1>9, StepOwn DEF WritePart
  <2>2. Touches(c)
    BY <1>0, <1>9 DEF WritePart, Touches, RunOK, HomeOK, Storing, Working, At, Locked, DataOK
  <2> QED
    BY <2>1, <2>2 DEF Owned
<1>10. CASE WriteRun(c)
  <2>1. Others(c)
    BY <1>10, ExitOwn, StepOwn, AnswerOwn DEF WriteRun
  <2>2. Touches(c)
    BY <1>0, <1>10 DEF WriteRun, Touches, RunOK, HomeOK, Storing, Working, At, Locked, DataOK
  <2> QED
    BY <2>1, <2>2 DEF Owned
<1>11. CASE AdoptBegin(c)
  BY <1>11, <1>a, BeginOwn DEF Owned, AdoptBegin, Begin
<1>12. CASE AdoptID(c)
  BY <1>12, <1>a, ExitOwn DEF Owned, AdoptID
<1>13. CASE ApplyBegin(c)
  BY <1>13, <1>a, BeginOwn DEF Owned, ApplyBegin, Begin
<1>14. CASE ApplyCheck(c)
  <2>1. Others(c)
    BY <1>14, ExitOwn, StepOwn, AnswerOwn DEF ApplyCheck
  <2>2. Touches(c)
    BY <1>0, <1>14 DEF ApplyCheck, Touches, RunOK, HomeOK, Storing, Working, At, Locked, DataOK, Loadable
  <2> QED
    BY <2>1, <2>2 DEF Owned
<1>15. CASE ApplyPublish(c)
  <2>1. Others(c)
    BY <1>15, ExitOwn, StepOwn, AnswerOwn DEF ApplyPublish
  <2>2. Touches(c)
    BY <1>0, <1>15, Names DEF ApplyPublish, Touches, RunOK, HomeOK, Storing, Working, At, Locked, DataOK
  <2> QED
    BY <2>1, <2>2 DEF Owned
<1>16. CASE ApplySettle(c)
  <2>1. Others(c)
    BY <1>16, ExitOwn, StepOwn, AnswerOwn DEF ApplySettle
  <2>2. Touches(c)
    BY <1>0, <1>16 DEF ApplySettle, Touches, RunOK, HomeOK, Storing, Working, At, Locked, DataOK
  <2> QED
    BY <2>1, <2>2 DEF Owned
<1>17. CASE RecoverBegin(c)
  BY <1>17, <1>a, BeginOwn DEF Owned, RecoverBegin, Begin
<1>18. CASE Rollback(c)
  <2>1. Others(c)
    BY <1>18, ExitOwn, StepOwn, AnswerOwn DEF Rollback
  <2>2. Touches(c)
    BY <1>0, <1>18 DEF Rollback, Touches, RunOK, HomeOK, Storing, Working, At, Locked, DataOK, Loadable, Interrupted
  <2> QED
    BY <2>1, <2>2 DEF Owned
<1>19. CASE Discard(c)
  BY <1>19, <1>a, ExitOwn, StepOwn DEF Owned, Discard
<1> QED
  BY <1>1, <1>2, <1>3, <1>4, <1>5, <1>6, <1>7, <1>8, <1>9, <1>10, <1>11, <1>12, <1>13, <1>14, <1>15, <1>16, <1>17, <1>18, <1>19 DEF PlanStep, RunStep

\* So what the other commands rely on is not disturbed.
LEMMA RunFrame ==
    ASSUME ControlOK, RunInv, OwnInv, NEW c \in Commands, Owned(c), RunOK(c)'
    PROVE  RunInv'
<1> SUFFICES ASSUME NEW e \in Commands \ {c} PROVE RunOK(e)'
  BY DEF RunInv
<1>1. RunOK(e) /\ (pc'[e] = pc[e] /\ goal'[e] = goal[e] /\ run'[e] = run[e])
  BY DEF RunInv, Owned, Others
<1>2. CASE run[e] \in Runs
  <2>1. class'[run[e]] = class[run[e]] \/ (class[run[e]] # "new" /\ class'[run[e]] # "new")
    BY <1>2 DEF OwnInv, Owned, Touches
  <2> QED
    BY <1>1, <2>1 DEF RunOK, Storing, Working, At
<1>3. CASE run[e] \notin Runs
  <2>1. pc[e] = "idle"
    BY <1>1, <1>3 DEF RunOK
  <2> QED
    BY <1>1, <2>1 DEF RunOK, Storing, Working, At
<1> QED
  BY <1>2, <1>3

LEMMA HomeFrame ==
    ASSUME ControlOK, LockInv, RunInv, OwnInv, HomeInv, NEW c \in Commands, Owned(c), HomeOK(c)'
    PROVE  HomeInv'
<1> SUFFICES ASSUME NEW e \in Commands \ {c} PROVE HomeOK(e)'
  BY DEF HomeInv
<1>1. /\ RunOK(e) /\ HomeOK(e)
      /\ pc'[e] = pc[e] /\ run'[e] = run[e] /\ root'[e] = root[e]
  BY DEF RunInv, HomeInv, Owned, Others
<1>2. CASE pc[e] \in {"staging", "plan", "run", "publish", "settle", "remove"}
  <2>1. run[e] \in Runs /\ pc[e] \in Locked
    BY <1>1, <1>2 DEF RunOK, Locked
  <2>2. CASE UNCHANGED <<home[run[e]], class[run[e]]>>
    BY <1>1, <1>2, <2>2 DEF HomeOK, At
  <2>3. CASE run[e] = run[c] /\ pc[c] \in Locked /\ class[run[e]] # "new" /\ home[run[e]] = root[c]
    <3>1. home[run[e]] = root[e]
      BY <1>1, <1>2, <2>3 DEF RunOK, HomeOK, Storing, At
    <3>2. lock[root[e]] = e /\ lock[root[c]] = c
      BY <1>1, <2>1, <2>3 DEF LockInv
    <3> QED
      BY <2>3, <3>1, <3>2
  <2>4. run[e] = run[c] => class[run[e]] # "new"
    BY <2>1 DEF OwnInv
  <2>5. \/ UNCHANGED <<home[run[e]], class[run[e]]>>
        \/ run[e] = run[c] /\ pc[c] \in Locked /\ (class[run[e]] = "new" \/ home[run[e]] = root[c])
    <3>1. \A r \in Runs :
            \/ home'[r] = home[r] /\ class'[r] = class[r]
            \/ r = run[c] /\ pc[c] \in Locked /\ (class[r] = "new" \/ home[r] = root[c])
      BY DEF Owned, Touches
    <3>2. run'[e] = run[e]
      BY <1>1
    <3> QED
      BY <2>1, <3>1, <3>2
  <2> QED
    BY <2>2, <2>3, <2>4, <2>5
<1>3. CASE At(e, {"scan", "project", "mkdir"}, {"scan"})
  <2>1. run[e] \in Runs /\ class[run[e]] = "new"
    BY <1>1, <1>3 DEF RunOK, Storing, At
  <2>2. run[e] # run[c]
    BY <2>1 DEF OwnInv
  <2>3. home'[run[e]] = home[run[e]]
    BY <2>1, <2>2 DEF Owned, Touches
  <2> QED
    BY <1>1, <1>3, <2>3 DEF HomeOK, At
<1>4. CASE /\ pc[e] \notin {"staging", "plan", "run", "publish", "settle", "remove"}
           /\ ~At(e, {"scan", "project", "mkdir"}, {"scan"})
  <2>1. goal'[e] = goal[e]
    BY DEF Owned, Others
  <2> QED
    BY <1>1, <1>4, <2>1 DEF HomeOK, At
<1> QED
  BY <1>2, <1>3, <1>4

LEMMA OwnFrame ==
    ASSUME ControlOK, OwnInv, NEW c \in Commands, Owned(c),
           \/ run'[c] \in {run[c], None}
           \/ run'[c] \in Runs /\ (class[run'[c]] # "new" \/ \A d \in Commands : run[d] # run'[c])
    PROVE  OwnInv'
<1> SUFFICES ASSUME NEW d \in Commands, NEW e \in Commands, d # e,
                    run'[d] \in Runs, run'[d] = run'[e]
             PROVE  class'[run'[d]] # "new"
  BY DEF OwnInv
<1>1. \A r \in Runs : class[r] # "new" => class'[r] # "new"
  BY DEF Owned, Touches
<1>2. class[run'[d]] # "new"
  BY NoneAssumption DEF OwnInv, Owned, Others
<1> QED
  BY <1>1, <1>2

\* What a command knows of its own run after a step of its own.
LEMMA CommandStep ==
    ASSUME ControlOK, DataOK, RunInv, HomeInv, NEW c \in Commands,
           \/ TakeLock(c) \/ RemovePart(c) \/ Emit(c) \/ Crash(c)
           \/ PlanStep(c) \/ RunStep(c)
    PROVE  /\ RunOK(c)' /\ HomeOK(c)'
           /\ \/ run'[c] \in {run[c], None}
              \/ run'[c] \in Runs /\ (class[run'[c]] # "new" \/ \A d \in Commands : run[d] # run'[c])
<1>0. RunOK(c) /\ HomeOK(c) /\ run[c] \in Runs \union {None}
  BY DEF RunInv, HomeInv, ControlOK
<1> DEFINE Mine == \/ run'[c] \in {run[c], None}
                   \/ /\ run'[c] \in Runs
                      /\ class[run'[c]] # "new" \/ \A d \in Commands : run[d] # run'[c]
<1>a. pc'[c] = "idle" => RunOK(c)' /\ HomeOK(c)'
  BY DEF RunOK, HomeOK, Storing, Working, At
<1>b. Exit(c) => RunOK(c)' /\ HomeOK(c)' /\ Mine
  BY <1>a, ExitOwn
<1> USE DEF RunOK, HomeOK, Storing, Working, At
<1>1. CASE TakeLock(c)
  <2>1. CASE pc'[c] = "idle" /\ run'[c] = None
    BY <1>a, <2>1
  <2>2. CASE pc'[c] = goal[c] /\ run'[c] = run[c]
    BY <1>0, <1>1, <2>2 DEF TakeLock, bundle
  <2> QED
    BY <1>1, <2>1, <2>2, TakeOwn
<1>2. CASE RemovePart(c)
  BY <1>0, <1>2, <1>b DEF RemovePart, local
<1>3. CASE Emit(c)
  BY <1>3, <1>b DEF Emit
<1>4. CASE Crash(c)
  BY <1>4, <1>b DEF Crash
<1>5. CASE PlanBegin(c)
  <2>1. PICK r \in Runs : Begin(c, "scan", r) /\ class[r] = "new" /\ home[r] = None /\ \A d \in Commands : run[d] # r
    BY <1>5 DEF PlanBegin
  <2>2. pc'[c] = "lock" /\ goal'[c] = "scan" /\ run'[c] = r /\ class' = class
    BY <2>1, BeginOwn DEF Begin, bundle
  <2>3. RunOK(c)' /\ HomeOK(c)'
    BY <2>1, <2>2 DEF Begin, bundle
  <2>4. Mine
    BY <2>1, <2>2
  <2> QED
    BY <2>3, <2>4
<1>6. CASE Scan(c)
  BY <1>0, <1>6, <1>b, StepOwn DEF Scan, bundle
<1>7. CASE ProjectID(c)
  BY <1>0, <1>7, <1>b, StepOwn DEF ProjectID, bundle
<1>8. CASE MakeRunDir(c)
  BY <1>0, <1>8, <1>b, StepOwn DEF MakeRunDir, DataOK, Interrupted
<1>9. CASE WritePart(c)
  BY <1>0, <1>9, <1>b, StepOwn DEF WritePart, After, DataOK, Interrupted
<1>10. CASE WriteRun(c)
  BY <1>0, <1>10, <1>b, StepOwn DEF WriteRun, DataOK, Interrupted
<1>11. CASE AdoptBegin(c)
  <2>1. PICK r \in Runs : Begin(c, "adopt", r) /\ class[r] = "new" /\ \A d \in Commands : run[d] # r
    BY <1>11 DEF AdoptBegin
  <2>2. pc'[c] = "lock" /\ goal'[c] = "adopt" /\ run'[c] = r /\ class' = class
    BY <2>1, BeginOwn DEF Begin, bundle
  <2>3. RunOK(c)' /\ HomeOK(c)'
    BY <2>1, <2>2 DEF Begin, bundle
  <2>4. Mine
    BY <2>1, <2>2
  <2> QED
    BY <2>3, <2>4
<1>12. CASE AdoptID(c)
  BY <1>12, <1>b DEF AdoptID
<1>13. CASE ApplyBegin(c)
  <2>1. PICK r \in Runs : Begin(c, "apply", r) /\ class[r] # "new"
    BY <1>13 DEF ApplyBegin
  <2>2. pc'[c] = "lock" /\ goal'[c] = "apply" /\ run'[c] = r /\ class' = class
    BY <2>1, BeginOwn DEF Begin, bundle
  <2>3. RunOK(c)' /\ HomeOK(c)'
    BY <2>1, <2>2 DEF Begin, bundle
  <2>4. Mine
    BY <2>1, <2>2
  <2> QED
    BY <2>3, <2>4
<1>14. CASE ApplyCheck(c)
  <2>1. CASE \E l \in {"PLAN_INVALID", "PLAN_STALE"} : Answer(c, l)
    BY <1>0, <1>14, <2>1, AnswerOwn DEF ApplyCheck
  <2>2. CASE Goto(c, "publish") /\ UNCHANGED local /\ Loadable(c)
             /\ class' = [class EXCEPT ![run[c]] = "entered"]
    BY <1>0, <1>14, <2>2, StepOwn DEF ApplyCheck, Loadable, DataOK
  <2> QED
    BY <1>14, <1>b, <2>1, <2>2 DEF ApplyCheck
<1>15. CASE ApplyPublish(c)
  BY <1>0, <1>15, <1>b, StepOwn DEF ApplyPublish, DataOK, Interrupted
<1>16. CASE ApplySettle(c)
  BY <1>0, <1>16, <1>b, StepOwn DEF ApplySettle, DataOK, Interrupted
<1>17. CASE RecoverBegin(c)
  <2>1. PICK r \in Runs, l \in {"rollback", "discard"} : Begin(c, l, r) /\ class[r] # "new"
    BY <1>17 DEF RecoverBegin
  <2>2. pc'[c] = "lock" /\ goal'[c] = l /\ run'[c] = r /\ class' = class
    BY <2>1, BeginOwn DEF Begin, bundle
  <2>3. RunOK(c)' /\ HomeOK(c)'
    BY <2>1, <2>2
  <2>4. Mine
    BY <2>1, <2>2
  <2> QED
    BY <2>3, <2>4
<1>18. CASE Rollback(c)
  BY <1>18, <1>b DEF Rollback
<1>19. CASE Discard(c)
  BY <1>0, <1>19, <1>b, StepOwn DEF Discard, bundle, Loadable, Settled, Interrupted
<1> QED
  BY <1>1, <1>2, <1>3, <1>4, <1>5, <1>6, <1>7, <1>8, <1>9, <1>10, <1>11, <1>12, <1>13, <1>14, <1>15, <1>16, <1>17, <1>18, <1>19 DEF PlanStep, RunStep

\* What a command relies on survives every step.
LEMMA RelyStep ==
    ControlOK /\ DataOK /\ LockInv /\ RunInv /\ OwnInv /\ HomeInv /\ [Next]_vars
        => RunInv' /\ OwnInv' /\ HomeInv'
<1> SUFFICES ASSUME ControlOK, DataOK, LockInv, RunInv, OwnInv, HomeInv, [Next]_vars
             PROVE  RunInv' /\ OwnInv' /\ HomeInv'
  OBVIOUS
<1>1. ASSUME NEW c \in Commands,
             \/ TakeLock(c) \/ RemovePart(c) \/ Emit(c) \/ Crash(c)
             \/ PlanStep(c) \/ RunStep(c)
      PROVE  RunInv' /\ OwnInv' /\ HomeInv'
  BY <1>1, OwnedStep, CommandStep, RunFrame, OwnFrame, HomeFrame
<1>2. CASE GitInit \/ UserChange \/ UNCHANGED vars
  <2>1. UNCHANGED <<pc, local, bundle>>
    BY <1>2 DEF GitInit, UserChange, Edit, vars
  <2> QED
    BY <2>1 DEF local, bundle, RunInv, RunOK, OwnInv, HomeInv, HomeOK, Storing, Working, At
<1> QED
  BY <1>1, <1>2 DEF Next

\* No step takes from the evidence of an interrupted run.
LEMMA EvidenceStep ==
    ASSUME ControlOK, DataOK, RunInv, HomeInv, EvidenceWhole, [Next]_vars PROVE EvidenceWhole'
<1>0. ASSUME NEW c \in Commands PROVE RunOK(c) /\ HomeOK(c) /\ run[c] \in Runs \union {None} /\ root[c] \in Roots
  BY DEF RunInv, HomeInv, ControlOK
<1> USE NoneAssumption DEF DataOK, EvidenceWhole, Parts
<1>1. ASSUME NEW c \in Commands, TakeLock(c) PROVE EvidenceWhole'
  BY <1>1 DEF TakeLock, bundle, world
<1>2. ASSUME NEW c \in Commands, RemovePart(c) PROVE EvidenceWhole'
  BY <1>0, <1>2 DEF RemovePart, RunOK, HomeOK, Storing, Working, At
<1>3. ASSUME NEW c \in Commands, Emit(c) PROVE EvidenceWhole'
  BY <1>3 DEF Emit, bundle, world
<1>4. ASSUME NEW c \in Commands, Crash(c) PROVE EvidenceWhole'
  BY <1>4 DEF Crash, bundle, world
<1>5. ASSUME NEW c \in Commands, PlanBegin(c) PROVE EvidenceWhole'
  BY <1>5 DEF PlanBegin, Begin, bundle, world
<1>6. ASSUME NEW c \in Commands, Scan(c) PROVE EvidenceWhole'
  BY <1>6 DEF Scan, bundle, world
<1>7. ASSUME NEW c \in Commands, ProjectID(c) PROVE EvidenceWhole'
  BY <1>0, <1>7 DEF ProjectID, bundle
<1>8. ASSUME NEW c \in Commands, MakeRunDir(c) PROVE EvidenceWhole'
  BY <1>0, <1>8 DEF MakeRunDir, RunOK, HomeOK, Storing, Working, At, Interrupted
<1>9. ASSUME NEW c \in Commands, WritePart(c) PROVE EvidenceWhole'
  BY <1>0, <1>9 DEF WritePart, RunOK, HomeOK, Storing, Working, At, Interrupted
<1>10. ASSUME NEW c \in Commands, WriteRun(c) PROVE EvidenceWhole'
  BY <1>0, <1>10 DEF WriteRun, RunOK, HomeOK, Storing, Working, At, Interrupted
<1>11. ASSUME NEW c \in Commands, AdoptBegin(c) PROVE EvidenceWhole'
  BY <1>11 DEF AdoptBegin, Begin, bundle, world
<1>12. ASSUME NEW c \in Commands, AdoptID(c) PROVE EvidenceWhole'
  BY <1>0, <1>12 DEF AdoptID, bundle
<1>13. ASSUME NEW c \in Commands, ApplyBegin(c) PROVE EvidenceWhole'
  BY <1>13 DEF ApplyBegin, Begin, bundle, world
<1>14. ASSUME NEW c \in Commands, ApplyCheck(c) PROVE EvidenceWhole'
  BY <1>0, <1>14 DEF ApplyCheck, RunOK, HomeOK, Storing, Working, At, Interrupted, Loadable
<1>15. ASSUME NEW c \in Commands, ApplyPublish(c) PROVE EvidenceWhole'
  BY <1>0, <1>15 DEF ApplyPublish, RunOK, HomeOK, Storing, Working, At, Interrupted
<1>16. ASSUME NEW c \in Commands, ApplySettle(c) PROVE EvidenceWhole'
  BY <1>0, <1>16 DEF ApplySettle, RunOK, HomeOK, Storing, Working, At, Interrupted
<1>17. ASSUME NEW c \in Commands, RecoverBegin(c) PROVE EvidenceWhole'
  BY <1>17 DEF RecoverBegin, Begin, bundle, world
<1>18. ASSUME NEW c \in Commands, Rollback(c) PROVE EvidenceWhole'
  BY <1>0, <1>18 DEF Rollback, RunOK, HomeOK, Storing, Working, At, Interrupted
<1>19. ASSUME NEW c \in Commands, Discard(c) PROVE EvidenceWhole'
  BY <1>19 DEF Discard, bundle, world
<1>20. CASE GitInit \/ UserChange
  BY <1>20 DEF GitInit, UserChange, Edit, bundle
<1>21. CASE UNCHANGED vars
  BY <1>21 DEF vars, bundle, world
<1> QED
  BY <1>1, <1>2, <1>3, <1>4, <1>5, <1>6, <1>7, <1>8, <1>9, <1>10, <1>11, <1>12, <1>13, <1>14, <1>15, <1>16, <1>17, <1>18, <1>19, <1>20, <1>21
     DEF Next, PlanStep, RunStep

\* A run whose files are in the target is interrupted or final.
LEMMA FilesRunStep ==
    ASSUME ControlOK, DataOK, RunInv, HomeInv, FilesInv, [Next]_vars PROVE FilesHaveRun'
<1>0. ASSUME NEW c \in Commands PROVE RunOK(c) /\ HomeOK(c) /\ run[c] \in Runs \union {None} /\ root[c] \in Roots
  BY DEF RunInv, HomeInv, ControlOK
<1> USE ContentAssumption DEF DataOK, FilesInv, FilesHaveRun, Interrupted
<1>1. ASSUME NEW c \in Commands, TakeLock(c) PROVE FilesHaveRun'
  BY <1>1 DEF TakeLock, bundle, world
<1>2. ASSUME NEW c \in Commands, RemovePart(c) PROVE FilesHaveRun'
  BY <1>0, <1>2 DEF RemovePart, world
<1>3. ASSUME NEW c \in Commands, Emit(c) PROVE FilesHaveRun'
  BY <1>3 DEF Emit, bundle, world
<1>4. ASSUME NEW c \in Commands, Crash(c) PROVE FilesHaveRun'
  BY <1>4 DEF Crash, bundle, world
<1>5. ASSUME NEW c \in Commands, PlanBegin(c) PROVE FilesHaveRun'
  BY <1>5 DEF PlanBegin, Begin, bundle, world
<1>6. ASSUME NEW c \in Commands, Scan(c) PROVE FilesHaveRun'
  BY <1>6 DEF Scan, bundle, world
<1>7. ASSUME NEW c \in Commands, ProjectID(c) PROVE FilesHaveRun'
  BY <1>7 DEF ProjectID, bundle, world
<1>8. ASSUME NEW c \in Commands, MakeRunDir(c) PROVE FilesHaveRun'
  BY <1>0, <1>8 DEF MakeRunDir, world
<1>9. ASSUME NEW c \in Commands, WritePart(c) PROVE FilesHaveRun'
  BY <1>0, <1>9 DEF WritePart, world
<1>10. ASSUME NEW c \in Commands, WriteRun(c) PROVE FilesHaveRun'
  BY <1>0, <1>10 DEF WriteRun, RunOK, HomeOK, Storing, Working, At, world
<1>11. ASSUME NEW c \in Commands, AdoptBegin(c) PROVE FilesHaveRun'
  BY <1>11 DEF AdoptBegin, Begin, bundle, world
<1>12. ASSUME NEW c \in Commands, AdoptID(c) PROVE FilesHaveRun'
  BY <1>12 DEF AdoptID, bundle, world
<1>13. ASSUME NEW c \in Commands, ApplyBegin(c) PROVE FilesHaveRun'
  BY <1>13 DEF ApplyBegin, Begin, bundle, world
<1>14. ASSUME NEW c \in Commands, ApplyCheck(c) PROVE FilesHaveRun'
  BY <1>0, <1>14 DEF ApplyCheck, RunOK, HomeOK, Storing, Working, At, world
<1>15. ASSUME NEW c \in Commands, ApplyPublish(c) PROVE FilesHaveRun'
  BY <1>0, <1>15 DEF ApplyPublish, RunOK, HomeOK, Storing, Working, At
<1>16. ASSUME NEW c \in Commands, ApplySettle(c) PROVE FilesHaveRun'
  BY <1>0, <1>16 DEF ApplySettle, RunOK, HomeOK, Storing, Working, At
<1>17. ASSUME NEW c \in Commands, RecoverBegin(c) PROVE FilesHaveRun'
  BY <1>17 DEF RecoverBegin, Begin, bundle, world
<1>18. ASSUME NEW c \in Commands, Rollback(c) PROVE FilesHaveRun'
  BY <1>0, <1>18 DEF Rollback, RunOK, HomeOK, Storing, Working, At
<1>19. ASSUME NEW c \in Commands, Discard(c) PROVE FilesHaveRun'
  BY <1>19 DEF Discard, bundle, world
<1>20. CASE GitInit \/ UserChange
  BY <1>20 DEF GitInit, UserChange, Edit, bundle
<1>21. CASE UNCHANGED vars
  BY <1>21 DEF vars, bundle, world
<1> QED
  BY <1>1, <1>2, <1>3, <1>4, <1>5, <1>6, <1>7, <1>8, <1>9, <1>10, <1>11, <1>12, <1>13, <1>14, <1>15, <1>16, <1>17, <1>18, <1>19, <1>20, <1>21
     DEF Next, PlanStep, RunStep

\* A run whose apply has just started has no files: only its own command, which
\* has the lock, publishes them.
LEMMA FilesStep ==
    ASSUME ControlOK, DataOK, LockInv, RunInv, HomeInv, FilesInv, [Next]_vars PROVE FilesInv'
<1> DEFINE Bare(e) == pc'[e] = "publish" => content' # run'[e]
<1>1. ASSUME NEW c \in Commands,
             \/ TakeLock(c) \/ RemovePart(c) \/ Emit(c) \/ Crash(c)
             \/ PlanStep(c) \/ RunStep(c),
             NEW e \in Commands
      PROVE  Bare(e)
  <2>0. Owned(c) /\ RunOK(c) /\ RunOK(e) /\ HomeOK(c) /\ HomeOK(e)
    BY <1>1, OwnedStep DEF RunInv, HomeInv
  <2>1. content' \in {content, Empty} \/ (content' = run[c] /\ ApplyPublish(c))
    BY <1>1 DEF TakeLock, RemovePart, Emit, Crash, PlanStep, PlanBegin, Begin, Scan, ProjectID,
                MakeRunDir, WritePart, WriteRun, AdoptBegin, AdoptID, RunStep, ApplyBegin,
                RecoverBegin, ApplyCheck, ApplyPublish, ApplySettle, Rollback, Discard, world
  <2>2. CASE e # c
    <3>1. pc'[e] = pc[e] /\ run'[e] = run[e] /\ (pc[e] = "publish" => run[e] \in Runs)
      BY <2>0, <2>2 DEF Owned, Others, RunOK
    <3>2. ASSUME ApplyPublish(c), pc[e] = "publish" PROVE run[e] # run[c]
      <4>1. lock[root[c]] = c /\ lock[root[e]] = e
        BY <3>2 DEF ApplyPublish, LockInv, Locked
      <4>2. home[run[c]] = root[c] /\ home[run[e]] = root[e]
        BY <2>0, <3>2 DEF ApplyPublish, HomeOK
      <4> QED
        BY <2>2, <4>1, <4>2
    <3> QED
      BY <2>1, <3>1, <3>2, ContentAssumption DEF FilesInv
  <2>3. CASE e = c
    <3>1. CASE pc[c] = "apply"
      BY <1>1, <2>0, <2>3, <3>1, ContentAssumption, ExitOwn, AnswerOwn, StepOwn
         DEF TakeLock, RemovePart, Emit, Crash, PlanStep, PlanBegin, Begin, Scan, ProjectID,
             MakeRunDir, WritePart, WriteRun, AdoptBegin, AdoptID, RunStep, ApplyBegin,
             RecoverBegin, ApplyCheck, ApplyPublish, ApplySettle, Rollback, Discard, world, RunOK
    <3>2. CASE pc[c] # "apply"
      <4>1. pc'[c] # "publish"
        BY <1>1, <2>0, <3>2, ExitOwn, AnswerOwn, StepOwn, BeginOwn, TakeOwn
           DEF TakeLock, RemovePart, Emit, Crash, PlanStep, PlanBegin, Scan, ProjectID,
               MakeRunDir, WritePart, After, WriteRun, AdoptBegin, AdoptID, RunStep, ApplyBegin,
               RecoverBegin, ApplyCheck, ApplyPublish, ApplySettle, Rollback, Discard, RunOK
      <4> QED
        BY <2>3, <4>1
    <3> QED
      BY <3>1, <3>2
  <2> QED
    BY <2>2, <2>3
<1>2. CASE GitInit \/ UserChange \/ UNCHANGED vars
  <2>1. UNCHANGED <<pc, run>> /\ content' \in {content, Empty, Other}
    BY <1>2 DEF GitInit, UserChange, Edit, vars, local, world
  <2>2. \A e \in Commands : pc[e] = "publish" => run[e] \in Runs
    BY DEF RunInv, RunOK
  <2> QED
    BY <2>1, <2>2, FilesRunStep, ContentAssumption DEF FilesInv
<1> QED
  BY <1>1, <1>2, FilesRunStep DEF Next, FilesInv

\* A directory is removed when it is empty, and made before it is filled.
LEMMA EmptyStep ==
    ASSUME ControlOK, DataOK, RunInv, HomeInv, EmptyInv, [Next]_vars PROVE EmptyInv'
<1>0. ASSUME NEW c \in Commands PROVE RunOK(c) /\ HomeOK(c) /\ run[c] \in Runs \union {None} /\ root[c] \in Roots
  BY DEF RunInv, HomeInv, ControlOK
<1> USE NoneAssumption DEF DataOK, EmptyInv
<1>1. ASSUME NEW c \in Commands, TakeLock(c) PROVE EmptyInv'
  BY <1>1 DEF TakeLock, bundle, world
<1>2. ASSUME NEW c \in Commands, RemovePart(c) PROVE EmptyInv'
  BY <1>0, <1>2 DEF RemovePart, RunOK, HomeOK, Storing, Working, At
<1>3. ASSUME NEW c \in Commands, Emit(c) PROVE EmptyInv'
  BY <1>3 DEF Emit, bundle, world
<1>4. ASSUME NEW c \in Commands, Crash(c) PROVE EmptyInv'
  BY <1>4 DEF Crash, bundle, world
<1>5. ASSUME NEW c \in Commands, PlanBegin(c) PROVE EmptyInv'
  BY <1>5 DEF PlanBegin, Begin, bundle, world
<1>6. ASSUME NEW c \in Commands, Scan(c) PROVE EmptyInv'
  BY <1>6 DEF Scan, bundle, world
<1>7. ASSUME NEW c \in Commands, ProjectID(c) PROVE EmptyInv'
  BY <1>7 DEF ProjectID, bundle, world
<1>8. ASSUME NEW c \in Commands, MakeRunDir(c) PROVE EmptyInv'
  BY <1>0, <1>8 DEF MakeRunDir, RunOK, HomeOK, Storing, Working, At
<1>9. ASSUME NEW c \in Commands, WritePart(c) PROVE EmptyInv'
  BY <1>0, <1>9 DEF WritePart, RunOK, HomeOK, Storing, Working, At
<1>10. ASSUME NEW c \in Commands, WriteRun(c) PROVE EmptyInv'
  BY <1>0, <1>10 DEF WriteRun, RunOK, HomeOK, Storing, Working, At
<1>11. ASSUME NEW c \in Commands, AdoptBegin(c) PROVE EmptyInv'
  BY <1>11 DEF AdoptBegin, Begin, bundle, world
<1>12. ASSUME NEW c \in Commands, AdoptID(c) PROVE EmptyInv'
  BY <1>12 DEF AdoptID, bundle, world
<1>13. ASSUME NEW c \in Commands, ApplyBegin(c) PROVE EmptyInv'
  BY <1>13 DEF ApplyBegin, Begin, bundle, world
<1>14. ASSUME NEW c \in Commands, ApplyCheck(c) PROVE EmptyInv'
  BY <1>14 DEF ApplyCheck, bundle, world
<1>15. ASSUME NEW c \in Commands, ApplyPublish(c) PROVE EmptyInv'
  BY <1>15 DEF ApplyPublish, bundle, world
<1>16. ASSUME NEW c \in Commands, ApplySettle(c) PROVE EmptyInv'
  BY <1>16 DEF ApplySettle, bundle, world
<1>17. ASSUME NEW c \in Commands, RecoverBegin(c) PROVE EmptyInv'
  BY <1>17 DEF RecoverBegin, Begin, bundle, world
<1>18. ASSUME NEW c \in Commands, Rollback(c) PROVE EmptyInv'
  BY <1>18 DEF Rollback, bundle, world
<1>19. ASSUME NEW c \in Commands, Discard(c) PROVE EmptyInv'
  BY <1>19 DEF Discard, bundle, world
<1>20. CASE GitInit \/ UserChange
  BY <1>20 DEF GitInit, UserChange, Edit, bundle
<1>21. CASE UNCHANGED vars
  BY <1>21 DEF vars, bundle, world
<1> QED
  BY <1>1, <1>2, <1>3, <1>4, <1>5, <1>6, <1>7, <1>8, <1>9, <1>10, <1>11, <1>12, <1>13, <1>14, <1>15, <1>16, <1>17, <1>18, <1>19, <1>20, <1>21
     DEF Next, PlanStep, RunStep

\* An identity that is there stays.
LEMMA IdentityStays ==
    ASSUME DataOK, [Next]_vars
    PROVE  \A d \in Roots : project[d] # None => project'[d] = project[d]
<1>1. ASSUME NEW c \in Commands, PlanStep(c)
      PROVE  \A d \in Roots : project[d] # None => project'[d] = project[d]
  BY <1>1 DEF PlanStep, PlanBegin, Begin, Scan, ProjectID, MakeRunDir, WritePart, WriteRun,
              AdoptBegin, AdoptID, DataOK
<1>2. ASSUME NEW c \in Commands, RunStep(c) PROVE project' = project
  BY <1>2 DEF RunStep, ApplyBegin, RecoverBegin, Begin, ApplyCheck, ApplyPublish, ApplySettle,
              Rollback, Discard
<1>3. ASSUME NEW c \in Commands, TakeLock(c) \/ RemovePart(c) \/ Emit(c) \/ Crash(c)
      PROVE  project' = project
  BY <1>3 DEF TakeLock, RemovePart, Emit, Crash
<1>4. CASE GitInit \/ UserChange \/ UNCHANGED vars
  BY <1>4 DEF GitInit, UserChange, Edit, vars
<1> QED
  BY <1>1, <1>2, <1>3, <1>4 DEF Next

LEMMA ProjectStep ==
    ASSUME ControlOK, DataOK, RunInv, HomeInv, ProjectInv, EmptyInv, [Next]_vars
    PROVE  ProjectInv'
<1> DEFINE KeepsID(e) == pc'[e] \in {"mkdir", "staging", "plan", "run"} => project'[root'[e]] # None
           StoredID(r) == home'[r] # None /\ "plan" \in parts'[r] => project'[home'[r]] # None
<1>0. ASSUME NEW c \in Commands PROVE RunOK(c) /\ HomeOK(c) /\ root[c] \in Roots
  BY DEF RunInv, HomeInv, ControlOK
<1>a. \A d \in Roots : project[d] # None => project'[d] # None
  BY IdentityStays
<1>1. ASSUME NEW c \in Commands,
             \/ TakeLock(c) \/ RemovePart(c) \/ Emit(c) \/ Crash(c)
             \/ PlanStep(c) \/ RunStep(c)
      PROVE  (\A e \in Commands : KeepsID(e)) /\ \A r \in Runs : StoredID(r)
  <2>0. Owned(c) /\ RunOK(c)
    BY <1>0, <1>1, OwnedStep
  <2>1. ASSUME NEW e \in Commands \ {c} PROVE KeepsID(e)
    BY <1>0, <1>a, <2>0 DEF ProjectInv, Owned, Others
  <2>2. KeepsID(c)
    <3>1. CASE PlanStep(c)
      <4>1. CASE ProjectID(c)
        BY <1>0, <2>0, <4>1, ExitOwn, StepOwn, NoneAssumption DEF ProjectID, DataOK, RunOK
      <4>2. CASE MakeRunDir(c) \/ WritePart(c) \/ WriteRun(c) \/ Scan(c) \/ AdoptID(c)
        BY <1>0, <1>a, <4>2, ExitOwn, StepOwn
           DEF MakeRunDir, WritePart, After, WriteRun, Scan, AdoptID, ProjectInv
      <4>3. CASE PlanBegin(c) \/ AdoptBegin(c)
        BY <4>3, BeginOwn DEF PlanBegin, AdoptBegin
      <4> QED
        BY <3>1, <4>1, <4>2, <4>3 DEF PlanStep
    <3>2. CASE RunStep(c)
      BY <3>2, ExitOwn, AnswerOwn, StepOwn, BeginOwn
         DEF RunStep, ApplyBegin, RecoverBegin, ApplyCheck, ApplyPublish, ApplySettle,
             Rollback, Discard
    <3>3. CASE TakeLock(c)
      BY <2>0, <3>3, TakeOwn DEF TakeLock, RunOK
    <3>4. CASE RemovePart(c) \/ Emit(c) \/ Crash(c)
      BY <3>4, ExitOwn DEF RemovePart, Emit, Crash
    <3> QED
      BY <1>1, <3>1, <3>2, <3>3, <3>4
  <2>3. ASSUME NEW r \in Runs PROVE StoredID(r)
    <3>1. CASE UNCHANGED <<home[r], parts[r]>>
      BY <1>a, <3>1 DEF ProjectInv, DataOK
    <3>2. CASE MakeRunDir(c)
      BY <1>0, <1>a, <3>2 DEF MakeRunDir, ProjectInv, EmptyInv, DataOK
    <3>3. CASE WritePart(c)
      BY <1>0, <1>a, <2>0, <3>3 DEF WritePart, ProjectInv, DataOK, HomeOK
    <3>4. CASE WriteRun(c)
      BY <1>0, <1>a, <3>4 DEF WriteRun, ProjectInv, DataOK
    <3>5. CASE RemovePart(c)
      BY <1>0, <1>a, <3>5 DEF RemovePart, ProjectInv, DataOK
    <3> QED
      BY <1>1, <3>1, <3>2, <3>3, <3>4, <3>5
         DEF PlanStep, RunStep, TakeLock, Emit, Crash, PlanBegin, Begin, Scan, ProjectID,
             AdoptBegin, AdoptID, ApplyBegin, RecoverBegin, ApplyCheck, ApplyPublish,
             ApplySettle, Rollback, Discard, bundle
  <2> QED
    BY <2>1, <2>2, <2>3
<1>2. CASE GitInit \/ UserChange \/ UNCHANGED vars
  BY <1>2 DEF GitInit, UserChange, Edit, vars, local, bundle, ProjectInv
<1> QED
  BY <1>1, <1>2 DEF Next, ProjectInv

\* A stored plan's identity is that of its root, which never changes.
LEMMA OneProjectStep ==
    ASSUME ControlOK, DataOK, RunInv, HomeInv, ProjectInv, EmptyInv, OneProject, [Next]_vars PROVE OneProject'
<1>0. ASSUME NEW c \in Commands PROVE RunOK(c) /\ HomeOK(c) /\ run[c] \in Runs \union {None} /\ root[c] \in Roots
  BY DEF RunInv, HomeInv, ControlOK
<1> USE NoneAssumption DEF DataOK, OneProject
<1>1. ASSUME NEW c \in Commands, TakeLock(c) PROVE OneProject'
  BY <1>1 DEF TakeLock, bundle, world
<1>2. ASSUME NEW c \in Commands, RemovePart(c) PROVE OneProject'
  BY <1>0, <1>2 DEF RemovePart, RunOK, HomeOK, Storing, Working, At
<1>3. ASSUME NEW c \in Commands, Emit(c) PROVE OneProject'
  BY <1>3 DEF Emit, bundle, world
<1>4. ASSUME NEW c \in Commands, Crash(c) PROVE OneProject'
  BY <1>4 DEF Crash, bundle, world
<1>5. ASSUME NEW c \in Commands, PlanBegin(c) PROVE OneProject'
  BY <1>5 DEF PlanBegin, Begin, bundle, world
<1>6. ASSUME NEW c \in Commands, Scan(c) PROVE OneProject'
  BY <1>6 DEF Scan, bundle, world
<1>7. ASSUME NEW c \in Commands, ProjectID(c) PROVE OneProject'
  BY <1>0, <1>7 DEF ProjectID, ProjectInv, bundle
<1>8. ASSUME NEW c \in Commands, MakeRunDir(c) PROVE OneProject'
  BY <1>0, <1>8 DEF MakeRunDir, RunOK, HomeOK, Storing, Working, At, EmptyInv
<1>9. ASSUME NEW c \in Commands, WritePart(c) PROVE OneProject'
  BY <1>0, <1>9 DEF WritePart, RunOK, HomeOK, Storing, Working, At
<1>10. ASSUME NEW c \in Commands, WriteRun(c) PROVE OneProject'
  BY <1>0, <1>10 DEF WriteRun, RunOK, HomeOK, Storing, Working, At
<1>11. ASSUME NEW c \in Commands, AdoptBegin(c) PROVE OneProject'
  BY <1>11 DEF AdoptBegin, Begin, bundle, world
<1>12. ASSUME NEW c \in Commands, AdoptID(c) PROVE OneProject'
  BY <1>0, <1>12 DEF AdoptID, Roots, ProjectInv, bundle
<1>13. ASSUME NEW c \in Commands, ApplyBegin(c) PROVE OneProject'
  BY <1>13 DEF ApplyBegin, Begin, bundle, world
<1>14. ASSUME NEW c \in Commands, ApplyCheck(c) PROVE OneProject'
  BY <1>14 DEF ApplyCheck, bundle, world
<1>15. ASSUME NEW c \in Commands, ApplyPublish(c) PROVE OneProject'
  BY <1>15 DEF ApplyPublish, bundle, world
<1>16. ASSUME NEW c \in Commands, ApplySettle(c) PROVE OneProject'
  BY <1>16 DEF ApplySettle, bundle, world
<1>17. ASSUME NEW c \in Commands, RecoverBegin(c) PROVE OneProject'
  BY <1>17 DEF RecoverBegin, Begin, bundle, world
<1>18. ASSUME NEW c \in Commands, Rollback(c) PROVE OneProject'
  BY <1>18 DEF Rollback, bundle, world
<1>19. ASSUME NEW c \in Commands, Discard(c) PROVE OneProject'
  BY <1>19 DEF Discard, bundle, world
<1>20. CASE GitInit \/ UserChange
  BY <1>20 DEF GitInit, UserChange, Edit, bundle
<1>21. CASE UNCHANGED vars
  BY <1>21 DEF vars, bundle, world
<1> QED
  BY <1>1, <1>2, <1>3, <1>4, <1>5, <1>6, <1>7, <1>8, <1>9, <1>10, <1>11, <1>12, <1>13, <1>14, <1>15, <1>16, <1>17, <1>18, <1>19, <1>20, <1>21
     DEF Next, PlanStep, RunStep

-----------------------------------------------------------------------------
LEMMA StoreInit == Init => StoreInv
<1> SUFFICES ASSUME Init PROVE StoreInv
  OBVIOUS
<1>1. ControlOK
  BY DEF Init, ControlOK, Labels, Locked, Roots
<1>2. DataOK
  <2>1. "new" \in Class /\ NoPlan \in PlanOf
    BY DEF Class, PlanOf, NoPlan
  <2>2. home \in [Runs -> Roots \union {None}] /\ parts \in [Runs -> SUBSET Parts]
    BY DEF Init
  <2>3. class \in [Runs -> Class] /\ plan \in [Runs -> PlanOf]
    BY <2>1 DEF Init
  <2>4. project \in [Roots -> Runs \union {None}] /\ git \in BOOLEAN
    BY DEF Init
  <2>5. /\ content \in Runs \union {Empty, Other}
        /\ faults \in 0..MaxFaults /\ edits \in 0..MaxEdits
    BY BoundsAssumption DEF Init
  <2> QED
    BY <2>2, <2>3, <2>4, <2>5 DEF DataOK
<1>3. LockInv
  BY NoneAssumption DEF Init, LockInv, Locked, Roots
<1>4. TypeOK
  BY <1>1, <1>2, NoneAssumption DEF Init, TypeOK, Locked, Roots
<1>5. RunInv /\ OwnInv /\ HomeInv
  BY NoneAssumption DEF Init, RunInv, RunOK, OwnInv, HomeInv, HomeOK, Storing, Working, At
<1>6. EvidenceWhole /\ FilesInv /\ EmptyInv
  BY ContentAssumption DEF Init, EvidenceWhole, FilesInv, FilesHaveRun, EmptyInv, Interrupted
<1>7. ProjectInv /\ OneProject
  BY DEF Init, ProjectInv, OneProject
<1> QED
  BY <1>3, <1>4, <1>5, <1>6, <1>7 DEF StoreInv

LEMMA StoreNext == StoreInv /\ [Next]_vars => StoreInv'
<1> SUFFICES ASSUME StoreInv, [Next]_vars PROVE StoreInv'
  OBVIOUS
<1>0. ControlOK /\ DataOK /\ LockInv /\ RunInv /\ OwnInv /\ HomeInv
  BY DEF StoreInv, TypeOK
<1>1. ControlOK' /\ DataOK' /\ LockInv'
  BY <1>0, ControlStep, DataStep, LockStep
<1>2. TypeOK'
  <2>1. \A c \in Commands : (pc'[c] \in Locked) <=> \E d \in Roots : lock'[d] = c
    BY <1>1 DEF LockInv, ControlOK
  <2> QED
    BY <1>1, <2>1 DEF TypeOK
<1>3. RunInv' /\ OwnInv' /\ HomeInv'
  BY <1>0, RelyStep
<1>4. EvidenceWhole' /\ FilesInv' /\ EmptyInv'
  BY <1>0, EvidenceStep, FilesStep, EmptyStep DEF StoreInv
<1>5. ProjectInv' /\ OneProject'
  BY <1>0, ProjectStep, OneProjectStep DEF StoreInv
<1> QED
  BY <1>1, <1>2, <1>3, <1>4, <1>5 DEF StoreInv

THEOREM StoreInductive == Spec => []StoreInv
  BY StoreInit, StoreNext, PTL DEF Spec

\* Every variable keeps to its type, and a lock is held exactly where a command is
\* in its critical section.
THEOREM StoreTypes == Spec => []TypeOK
<1>1. StoreInv => TypeOK
  BY DEF StoreInv
<1> QED
  BY <1>1, StoreInductive, PTL

\* Recovery finds all of what an interrupted run left in its bundle.
THEOREM EvidenceIsWhole == Spec => []EvidenceWhole
<1>1. StoreInv => EvidenceWhole
  BY DEF StoreInv
<1> QED
  BY <1>1, StoreInductive, PTL

\* One project identity per state root.
THEOREM ProjectIsOne == Spec => []OneProject
<1>1. StoreInv => OneProject
  BY DEF StoreInv
<1> QED
  BY <1>1, StoreInductive, PTL

\* No run that failed, or never started, has files in the target.
THEOREM FilesBelongToRun == Spec => []FilesHaveRun
<1>1. StoreInv => FilesHaveRun
  BY DEF StoreInv, FilesInv
<1> QED
  BY <1>1, StoreInductive, PTL

-----------------------------------------------------------------------------
\* What the run store assumes of the lock of each root is what ExclusiveLock states
\* and ProjectLock implements.
THEOREM StoreTakesLocks == ASSUME NEW d \in Roots PROVE Spec => Lock(d)!Spec
<1>1. Init => Lock(d)!Init
  BY DEF Init, Lock!Init
<1>2. TypeOK /\ [Next]_vars => [Lock(d)!Next]_(lock[d])
  <2> SUFFICES ASSUME TypeOK, [Next]_vars PROVE [Lock(d)!Next]_(lock[d])
    OBVIOUS
  <2>1. ASSUME NEW c \in Commands, Unlock(c) PROVE [Lock(d)!Next]_(lock[d])
    BY <2>1 DEF Unlock, Lock!Next, Lock!Leave
  <2>2. ASSUME NEW c \in Commands, TakeLock(c) PROVE [Lock(d)!Next]_(lock[d])
    <3>1. CASE Exit(c)
      BY <2>1, <3>1 DEF Exit
    <3>2. ASSUME NEW e \in Roots, lock[e] = None, lock' = [lock EXCEPT ![e] = c]
          PROVE  [Lock(d)!Next]_(lock[d])
      <4>1. CASE e = d
        <5>1. Lock(d)!Take(c)
          BY <3>2, <4>1 DEF TypeOK, ControlOK, Lock!Take
        <5> QED
          BY <5>1 DEF Lock!Next
      <4>2. CASE e # d
        BY <3>2, <4>2 DEF TypeOK, ControlOK
      <4> QED
        BY <4>1, <4>2
    <3>3. root[c] \in Roots /\ "external" \in Roots /\ RootNow \in Roots
      BY DEF TypeOK, ControlOK, Roots, RootNow
    <3> QED
      BY <2>2, <3>1, <3>2, <3>3 DEF TakeLock
  <2>3. ASSUME NEW c \in Commands, \/ RemovePart(c) \/ Emit(c) \/ Crash(c)
                                   \/ PlanStep(c) \/ RunStep(c)
        PROVE  [Lock(d)!Next]_(lock[d])
    <3>1. Unlock(c) \/ UNCHANGED lock
      BY <2>3 DEF RemovePart, Emit, Crash, PlanStep, RunStep, PlanBegin, Begin, Scan, ProjectID,
                  MakeRunDir, WritePart, WriteRun, AdoptBegin, AdoptID, ApplyBegin, ApplyCheck,
                  ApplyPublish, ApplySettle, RecoverBegin, Rollback, Discard, Exit, Answer
    <3> QED
      BY <2>1, <3>1
  <2>4. CASE GitInit \/ UserChange \/ UNCHANGED vars
    BY <2>4 DEF GitInit, UserChange, Edit, vars
  <2> QED
    BY <2>2, <2>3, <2>4 DEF Next
<1> QED
  BY <1>1, <1>2, StoreTypes, PTL DEF Spec, Lock!Spec

-----------------------------------------------------------------------------
(* Every run lives the life of RunLife, whatever the commands on the other  *)
(* runs do.                                                                 *)

LEMMA LifeInit == ASSUME Init, NEW r \in Runs PROVE Life(r)!Init
  BY ContentAssumption DEF Init, Life!Init, Stage

\* A step that leaves a run's journal alone puts none of its files in the target.
LEMMA LifeQuiet ==
    ASSUME NEW r \in Runs, UNCHANGED <<class[r], parts[r]>>, content' = r => content = r
    PROVE  [Life(r)!Next]_(Life(r)!vars)
<1>1. Stage(r)' = Stage(r)
  BY DEF Stage
<1>2. CASE content = r /\ content' # r
  <2>1. Life(r)!Vanish
    BY <1>1, <1>2 DEF Life!Vanish
  <2> QED
    BY <2>1 DEF Life!Next
<1>3. CASE (content = r) <=> (content' = r)
  BY <1>1, <1>3 DEF Life!vars
<1> QED
  BY <1>2, <1>3

\* The steps of the run's own command.
LEMMA LifeOwn ==
    ASSUME StoreInv, NEW c \in Commands, NEW r \in Runs, r = run[c],
           \/ MakeRunDir(c) \/ WritePart(c) \/ WriteRun(c) \/ RemovePart(c)
           \/ ApplyCheck(c) \/ ApplyPublish(c) \/ ApplySettle(c) \/ Rollback(c)
    PROVE  [Life(r)!Next]_(Life(r)!vars)
<1>a. /\ RunOK(c) /\ HomeOK(c)
      /\ class \in [Runs -> Class] /\ parts \in [Runs -> SUBSET Parts]
      /\ class[r] \in Interrupted => parts[r] = Parts
      /\ content = r => class[r] \in Interrupted \union {"finalized"}
  BY DEF StoreInv, TypeOK, DataOK, RunInv, HomeInv, EvidenceWhole, FilesInv, FilesHaveRun
\* What the journal of a run that is there says, before and after.
<1>b. class[r] = "new" \/ "run" \in parts[r] => Stage(r) = class[r]
  BY DEF Stage
<1>c. class'[r] = "new" \/ "run" \in parts'[r] => Stage(r)' = class'[r]
  BY DEF Stage
<1>d. class[r] \in Interrupted => Stage(r) = class[r]
  BY <1>a, <1>b DEF Parts
<1>1. CASE MakeRunDir(c)
  BY <1>1, LifeQuiet DEF MakeRunDir, world
<1>2. CASE WritePart(c)
  <2>1. class[r] = "new" /\ class' = class /\ content' = content
    BY <1>a, <1>2 DEF WritePart, RunOK, Storing, At, world
  <2> QED
    BY <1>b, <1>c, <2>1 DEF Life!vars
<1>3. CASE WriteRun(c)
  <2>1. class[r] = "new" /\ content' = content
    BY <1>a, <1>3 DEF WriteRun, RunOK, Storing, At, world
  <2>2. CASE UNCHANGED <<class, parts>>
    BY <2>1, <2>2, LifeQuiet
  <2>3. CASE class'[r] = "ready" /\ "run" \in parts'[r]
    <3>1. Life(r)!Store
      BY <1>b, <1>c, <2>1, <2>3 DEF Life!Store
    <3> QED
      BY <3>1 DEF Life!Next
  <2> QED
    BY <1>a, <1>3, <2>2, <2>3 DEF WriteRun
<1>4. CASE RemovePart(c)
  <2>1. class' = class /\ content' = content /\ class[r] \notin Interrupted
    BY <1>a, <1>4 DEF RemovePart, HomeOK, world
  <2>2. CASE class[r] = "new"
    BY <1>b, <1>c, <2>1, <2>2 DEF Life!vars
  <2>3. CASE class[r] # "new" /\ (("run" \in parts[r]) <=> ("run" \in parts'[r]))
    <3>1. Stage(r)' = Stage(r)
      BY <2>1, <2>3 DEF Stage
    <3> QED
      BY <2>1, <3>1 DEF Life!vars
  <2>4. CASE class[r] # "new" /\ "run" \in parts[r] /\ "run" \notin parts'[r]
    <3>1. Stage(r) \in {"ready", "failed", "finalized"} /\ Stage(r)' = "gone"
      BY <1>a, <2>1, <2>4, Names DEF Stage
    <3>2. Life(r)!Forget
      BY <2>1, <3>1 DEF Life!Forget
    <3> QED
      BY <3>2 DEF Life!Next
  <2>5. parts'[r] \subseteq parts[r]
    BY <1>a, <1>4 DEF RemovePart
  <2> QED
    BY <2>2, <2>3, <2>4, <2>5
<1>5. CASE ApplyCheck(c)
  <2>1. UNCHANGED <<parts, content>>
    BY <1>5 DEF ApplyCheck, world
  <2>2. CASE class' = class
    BY <2>1, <2>2, LifeQuiet
  <2>3. CASE /\ "run" \in parts[r] /\ class[r] = "ready"
             /\ class' = [class EXCEPT ![r] = "entered"]
    <3>1. Stage(r) = "ready" /\ Stage(r)' = "entered"
      BY <1>a, <1>b, <1>c, <2>1, <2>3
    <3>2. Life(r)!Enter
      BY <2>1, <3>1 DEF Life!Enter
    <3> QED
      BY <3>2 DEF Life!Next
  <2> QED
    BY <1>5, <2>2, <2>3 DEF ApplyCheck, Loadable
<1>6. CASE ApplyPublish(c)
  <2>0. class[r] = "entered" /\ Stage(r) = "entered" /\ content # r /\ parts' = parts
    BY <1>a, <1>d, <1>6, Names DEF StoreInv, FilesInv, HomeOK, ApplyPublish
  <2>1. Stage(r)' = class'[r]
    BY <1>a, <1>c, <2>0, Names DEF Parts
  <2>2. CASE content' = r /\ class'[r] \in Interrupted
    <3>1. Life(r)!Publish
      BY <2>0, <2>1, <2>2, Names DEF Life!Publish
    <3> QED
      BY <3>1 DEF Life!Next
  <2>3. CASE content' = content /\ class'[r] = "failed"
    <3>1. Life(r)!Fail
      BY <2>0, <2>1, <2>3 DEF Life!Fail, Life!Interrupted
    <3> QED
      BY <3>1 DEF Life!Next
  <2>4. CASE content' = content /\ class'[r] \in Interrupted
    <3>1. Life(r)!Journal \/ Life(r)!FallShort \/ UNCHANGED Life(r)!vars
      BY <2>0, <2>1, <2>4, Names DEF Life!Journal, Life!FallShort, Life!Interrupted, Life!vars
    <3> QED
      BY <3>1 DEF Life!Next
  <2> QED
    BY <1>a, <1>6, <2>2, <2>3, <2>4, Names DEF ApplyPublish
<1>7. CASE ApplySettle(c)
  <2>0. class[r] = "applying" /\ Stage(r) = "applying" /\ parts' = parts
    BY <1>a, <1>d, <1>7, Names DEF HomeOK, ApplySettle
  <2>1. Stage(r)' = class'[r]
    BY <1>a, <1>c, <2>0, Names DEF Parts
  <2>2. CASE content' = content /\ class'[r] = "finalized"
    <3>1. Life(r)!Finalize
      BY <2>0, <2>1, <2>2 DEF Life!Finalize
    <3> QED
      BY <3>1 DEF Life!Next
  <2>3. CASE content' = Empty /\ class'[r] = "failed"
    <3>1. Life(r)!Fail
      BY <2>0, <2>1, <2>3, ContentAssumption DEF Life!Fail, Life!Interrupted
    <3> QED
      BY <3>1 DEF Life!Next
  <2>4. CASE content' = content /\ class'[r] \in {"applying", "recovery"}
    <3>1. Life(r)!FallShort \/ UNCHANGED Life(r)!vars
      BY <2>0, <2>1, <2>4 DEF Life!FallShort, Life!Interrupted, Life!vars
    <3> QED
      BY <3>1 DEF Life!Next
  <2>5. CASE content' \in {content, Empty} /\ class' = class
    BY <2>0, <2>5, LifeQuiet, ContentAssumption
  <2> QED
    BY <1>a, <1>7, <2>2, <2>3, <2>4, <2>5 DEF ApplySettle
<1>8. CASE Rollback(c)
  <2>0. parts' = parts /\ content' \in {content, Empty}
    BY <1>8 DEF Rollback
  <2>1. CASE class' = class
    BY <2>0, <2>1, LifeQuiet, ContentAssumption
  <2>2. CASE /\ class[r] \in Interrupted /\ class' = [class EXCEPT ![r] = "failed"]
             /\ content' = Empty
    <3>1. Life(r)!Fail
      BY <1>a, <1>c, <1>d, <2>0, <2>2, ContentAssumption DEF Life!Fail, Life!Interrupted, Interrupted, Parts
    <3> QED
      BY <3>1 DEF Life!Next
  <2>3. CASE /\ class[r] \in Interrupted /\ class' = [class EXCEPT ![r] = "recovery"]
             /\ content' \in {content, Empty}
    <3>1. Stage(r) \in Interrupted /\ Stage(r)' = "recovery"
      BY <1>a, <1>c, <1>d, <2>0, <2>3 DEF Parts
    <3>2. CASE content' # r
      <4>1. Life(r)!Withdraw
        BY <3>1, <3>2 DEF Life!Withdraw, Life!Interrupted, Interrupted
      <4> QED
        BY <4>1 DEF Life!Next
    <3>3. CASE content' = r
      <4>1. Life(r)!FallShort
        BY <2>3, <3>1, <3>3, ContentAssumption DEF Life!FallShort, Life!Interrupted, Interrupted
      <4> QED
        BY <4>1 DEF Life!Next
    <3> QED
      BY <3>2, <3>3
  <2> QED
    BY <1>a, <1>8, <2>0, <2>1, <2>2, <2>3 DEF Rollback
<1> QED
  BY <1>1, <1>2, <1>3, <1>4, <1>5, <1>6, <1>7, <1>8

LEMMA LifeNext ==
    ASSUME StoreInv, [Next]_vars, NEW r \in Runs PROVE [Life(r)!Next]_(Life(r)!vars)
<1>0. ControlOK /\ DataOK /\ RunInv /\ HomeInv
  BY DEF StoreInv, TypeOK
<1>1. CASE GitInit \/ UserChange \/ UNCHANGED vars
  <2>1. UNCHANGED <<class, parts>> /\ content' \in {content, Empty, Other}
    BY <1>1 DEF GitInit, UserChange, Edit, vars, bundle, world
  <2> QED
    BY <2>1, LifeQuiet, ContentAssumption
<1>2. ASSUME NEW c \in Commands,
             \/ TakeLock(c) \/ RemovePart(c) \/ Emit(c) \/ Crash(c)
             \/ PlanStep(c) \/ RunStep(c)
      PROVE  [Life(r)!Next]_(Life(r)!vars)
  <2>1. CASE \/ MakeRunDir(c) \/ WritePart(c) \/ WriteRun(c) \/ RemovePart(c)
             \/ ApplyCheck(c) \/ ApplyPublish(c) \/ ApplySettle(c) \/ Rollback(c)
    <3>1. CASE r = run[c]
      BY <2>1, <3>1, LifeOwn
    <3>2. CASE r # run[c]
      <4>1. UNCHANGED <<class[r], parts[r]>>
        BY <1>0, <1>2, <3>2, OwnedStep DEF Owned, Touches
      <4>2. content' \in {content, Empty, run[c]}
        BY <2>1 DEF MakeRunDir, WritePart, WriteRun, RemovePart, ApplyCheck, ApplyPublish,
                    ApplySettle, Rollback, world
      <4> QED
        BY <3>2, <4>1, <4>2, LifeQuiet, ContentAssumption
    <3> QED
      BY <3>1, <3>2
  <2>2. CASE \/ TakeLock(c) \/ Emit(c) \/ Crash(c) \/ PlanBegin(c) \/ Scan(c) \/ ProjectID(c)
             \/ AdoptBegin(c) \/ AdoptID(c) \/ ApplyBegin(c) \/ RecoverBegin(c) \/ Discard(c)
    <3>1. UNCHANGED <<class, parts, content>>
      BY <2>2 DEF TakeLock, Emit, Crash, PlanBegin, Begin, Scan, ProjectID, AdoptBegin, AdoptID,
                  ApplyBegin, RecoverBegin, Discard, bundle, world
    <3> QED
      BY <3>1, LifeQuiet
  <2> QED
    BY <1>2, <2>1, <2>2 DEF PlanStep, RunStep
<1> QED
  BY <1>1, <1>2 DEF Next

\* The store implements RunLife for each run, however many commands work on the
\* others: files appear only while a run is applied, a run that fails has none,
\* and the journal of an interrupted run is never removed.
THEOREM StoreLivesLives == Spec => RunsLive
<1>1. StoreInv /\ [Next]_vars => \A r \in Runs : [Life(r)!Next]_(Life(r)!vars)
  BY LifeNext
<1> QED
  BY <1>1, StoreInductive, PTL DEF Spec, RunsLive

\* The same as a refinement, with the initial state.
THEOREM StoreImplementsLife == ASSUME NEW r \in Runs PROVE Spec => Life(r)!Spec
<1>1. Init => Life(r)!Init
  BY LifeInit
<1>2. StoreInv /\ [Next]_vars => [Life(r)!Next]_(Life(r)!vars)
  BY LifeNext
<1> QED
  BY <1>1, <1>2, StoreInductive, PTL DEF Spec, Life!Spec

-----------------------------------------------------------------------------
(* Whose files a rollback takes.  Nothing in Execute looks for interrupted  *)
(* runs; as long as no apply starts beside one, rollback keeps to its own.  *)

OneAtATime ==
    [][\A r \in Runs : class[r] = "ready" /\ class'[r] = "entered"
        => \A q \in Runs : class[q] \notin Interrupted]_vars

AloneInv ==
    /\ \A q, r \in Runs : class[q] \in Interrupted /\ class[r] \in Interrupted => q = r
    /\ \A q, r \in Runs : content = q /\ class[r] \in Interrupted => q = r

\* A run comes to be interrupted by entering its apply, on an empty target, and
\* publishes only then.
LEMMA Enters ==
    ASSUME StoreInv, [Next]_vars, NEW r \in Runs
    PROVE  /\ class[r] \notin Interrupted /\ class'[r] \in Interrupted =>
                 /\ class[r] = "ready" /\ class'[r] = "entered"
                 /\ content = Empty /\ content' = Empty
                 /\ \A q \in Runs \ {r} : class'[q] = class[q]
           /\ content # r /\ content' = r => class[r] \in Interrupted
<1>0. ControlOK /\ DataOK /\ RunInv /\ HomeInv
  BY DEF StoreInv, TypeOK
<1>1. CASE GitInit \/ UserChange \/ UNCHANGED vars
  BY <1>1, ContentAssumption DEF GitInit, UserChange, Edit, vars, bundle, world
<1>2. ASSUME NEW c \in Commands,
             \/ TakeLock(c) \/ RemovePart(c) \/ Emit(c) \/ Crash(c)
             \/ PlanStep(c) \/ RunStep(c),
             ~ApplyCheck(c), ~ApplyPublish(c)
      PROVE  /\ class'[r] \in Interrupted => class[r] \in Interrupted
             /\ content' = r => content = r
  <2>1. RunOK(c) /\ HomeOK(c) /\ class \in [Runs -> Class]
    BY <1>0 DEF RunInv, HomeInv, DataOK
  <2>2. class[r] \notin Interrupted => class'[r] \notin Interrupted
    <3>1. CASE WriteRun(c) \/ ApplySettle(c) \/ Rollback(c)
      BY <2>1, <3>1, Names DEF WriteRun, ApplySettle, Rollback, HomeOK
    <3> QED
      BY <1>2, <3>1 DEF TakeLock, RemovePart, Emit, Crash, PlanStep, PlanBegin, Begin, Scan,
             ProjectID, MakeRunDir, WritePart, AdoptBegin, AdoptID, RunStep, ApplyBegin,
             RecoverBegin, Discard, bundle
  <2>3. content' \in {content, Empty}
    BY <1>2 DEF TakeLock, RemovePart, Emit, Crash, PlanStep, PlanBegin, Begin, Scan, ProjectID,
           MakeRunDir, WritePart, WriteRun, AdoptBegin, AdoptID, RunStep, ApplyBegin,
           RecoverBegin, ApplySettle, Rollback, Discard, world
  <2> QED
    BY <2>2, <2>3, ContentAssumption
<1>3. ASSUME NEW c \in Commands, ApplyCheck(c) PROVE
             /\ class[r] \notin Interrupted /\ class'[r] \in Interrupted =>
                  /\ class[r] = "ready" /\ class'[r] = "entered" /\ content = Empty
                  /\ \A q \in Runs \ {r} : class'[q] = class[q]
             /\ content' = content
  BY <1>0, <1>3 DEF ApplyCheck, DataOK, world
<1>4. ASSUME NEW c \in Commands, ApplyPublish(c) PROVE
             /\ class[r] \notin Interrupted => class'[r] \notin Interrupted
             /\ content' = content \/ (content' = run[c] /\ class[run[c]] \in Interrupted)
  <2>1. HomeOK(c) /\ class \in [Runs -> Class]
    BY <1>0 DEF HomeInv, DataOK
  <2> QED
    BY <1>4, <2>1, Names DEF ApplyPublish, HomeOK
<1> QED
  BY <1>1, <1>2, <1>3, <1>4 DEF Next

LEMMA AloneStep ==
    ASSUME StoreInv, AloneInv, [Next]_vars,
           \A r \in Runs : class[r] = "ready" /\ class'[r] = "entered"
               => \A q \in Runs : class[q] \notin Interrupted
    PROVE  AloneInv'
<1>1. ASSUME NEW q \in Runs, NEW r \in Runs,
             class'[q] \in Interrupted, class'[r] \in Interrupted
      PROVE  q = r
  BY <1>1, Enters DEF AloneInv
<1>2. ASSUME NEW q \in Runs, NEW r \in Runs, content' = q, class'[r] \in Interrupted
      PROVE  q = r
  <2>1. content = q \/ class[q] \in Interrupted
    BY <1>2, Enters
  <2>2. class[r] \in Interrupted
    BY <1>2, Enters, ContentAssumption
  <2> QED
    BY <2>1, <2>2 DEF AloneInv
<1> QED
  BY <1>1, <1>2 DEF AloneInv

\* If no apply starts while another run is interrupted, whatever a rollback takes
\* from the target is its own run's: the takeover of store_takeover needs two.
THEOREM RollbackIsOwn == Spec /\ OneAtATime => RollbackOwnFiles
<1> DEFINE Starts == \A r \in Runs : class[r] = "ready" /\ class'[r] = "entered"
                        => \A q \in Runs : class[q] \notin Interrupted
           Takes(c) == pc[c] \in {"rollback", "settle"} /\ pc'[c] # pc[c] /\ content' # content
<1>1. Init => AloneInv
  BY ContentAssumption DEF Init, AloneInv, Interrupted
<1>2. StoreInv /\ AloneInv /\ [Next]_vars /\ [Starts]_vars => AloneInv'
  <2>1. ASSUME UNCHANGED vars, AloneInv PROVE AloneInv'
    BY <2>1 DEF vars, bundle, world, AloneInv
  <2> QED
    BY <2>1, AloneStep
<1>3. StoreInv /\ AloneInv /\ [Next]_vars => \A c \in Commands : Takes(c) => content = run[c]
  <2> SUFFICES ASSUME StoreInv, AloneInv, [Next]_vars, NEW c \in Commands, Takes(c)
               PROVE  content = run[c]
    OBVIOUS
  <2>1. ControlOK /\ DataOK /\ RunInv /\ HomeInv /\ RunOK(c)
    BY DEF StoreInv, TypeOK, RunInv
  <2>2. PICK d \in Commands :
             \/ TakeLock(d) \/ RemovePart(d) \/ Emit(d) \/ Crash(d)
             \/ PlanStep(d) \/ RunStep(d)
    BY DEF Next, GitInit, UserChange, Edit, vars, local
  <2>3. d = c
    BY <2>1, <2>2, OwnedStep DEF Owned, Others
  <2>4. CASE Rollback(c)
    <3>1. content \in Runs /\ class[run[c]] \in Interrupted /\ run[c] \in Runs
      BY <2>1, <2>4 DEF Rollback, RunOK, DataOK
    <3> QED
      BY <3>1 DEF AloneInv
  <2>5. CASE ApplySettle(c)
    BY <2>5 DEF ApplySettle
  <2> QED
    BY <2>2, <2>3, <2>4, <2>5
       DEF TakeLock, RemovePart, Emit, Crash, PlanStep, PlanBegin, Begin, Scan, ProjectID,
           MakeRunDir, WritePart, WriteRun, AdoptBegin, AdoptID, RunStep, ApplyBegin,
           RecoverBegin, ApplyCheck, ApplyPublish, Discard, world
<1> QED
  BY <1>1, <1>2, <1>3, StoreInductive, PTL DEF Spec, OneAtATime, RollbackOwnFiles

-----------------------------------------------------------------------------
(* Bundles that block and cannot be loaded: without a crash or an I/O error *)
(* a directory that is not whole is one some command is filling or removing. *)

\* A command fills its directory from the staged files to run.json.
FillInv ==
    \A c \in Commands :
        /\ pc[c] = "plan" => "staging" \in parts[run[c]]
        /\ pc[c] = "run"  => {"staging", "plan"} \subseteq parts[run[c]]

AtWork(r) == \E c \in Commands : run[c] = r /\ pc[c] \in {"staging", "plan", "run", "remove"}
CalmInv ==
    faults = 0 =>
        /\ FillInv
        /\ \A r \in Runs : home[r] # None => parts[r] = Parts \/ AtWork(r)

LEMMA CalmStep == ASSUME StoreInv, CalmInv, [Next]_vars PROVE CalmInv'
<1> SUFFICES ASSUME faults' = 0
             PROVE  /\ FillInv'
                    /\ \A r \in Runs : home'[r] # None => parts'[r] = Parts \/ AtWork(r)'
  BY DEF CalmInv
<1>0. /\ ControlOK /\ DataOK /\ RunInv /\ HomeInv /\ OwnInv
      /\ faults \in Nat
  BY BoundsAssumption DEF StoreInv, TypeOK, DataOK
<1>f. ~Fault
  BY <1>0 DEF Fault
<1>1. CASE GitInit \/ UserChange \/ UNCHANGED vars
  <2>1. UNCHANGED <<pc, run, home, parts, faults>>
    BY <1>1 DEF GitInit, UserChange, Edit, vars, local, bundle
  <2> QED
    BY <2>1 DEF CalmInv, FillInv, AtWork
<1>2. ASSUME NEW c \in Commands,
             \/ TakeLock(c) \/ RemovePart(c) \/ Emit(c) \/ Crash(c)
             \/ PlanStep(c) \/ RunStep(c)
      PROVE  /\ FillInv'
             /\ \A r \in Runs : home'[r] # None => parts'[r] = Parts \/ AtWork(r)'
  <2>0. Owned(c) /\ RunOK(c) /\ HomeOK(c) /\ ~Crash(c)
    BY <1>0, <1>2, <1>f, OwnedStep DEF RunInv, HomeInv, Crash
  <2>a. faults = 0
    BY <1>2, <1>f DEF TakeLock, RemovePart, Emit, Crash, PlanStep, PlanBegin, Begin, Scan,
           ProjectID, MakeRunDir, WritePart, WriteRun, AdoptBegin, AdoptID, RunStep, ApplyBegin,
           RecoverBegin, ApplyCheck, ApplyPublish, ApplySettle, Rollback, Discard
  <2>b. FillInv /\ \A r \in Runs : home[r] # None => parts[r] = Parts \/ AtWork(r)
    BY <2>a DEF CalmInv
  <2>1. ASSUME NEW e \in Commands \ {c}
        PROVE  /\ pc'[e] = "plan" => "staging" \in parts'[run'[e]]
               /\ pc'[e] = "run"  => {"staging", "plan"} \subseteq parts'[run'[e]]
    <3>1. pc'[e] = pc[e] /\ run'[e] = run[e]
      BY <2>0 DEF Owned, Others
    <3>2. ASSUME pc[e] \in {"plan", "run"} PROVE parts'[run[e]] = parts[run[e]]
      <4>1. run[e] \in Runs /\ class[run[e]] = "new"
        BY <1>0, <3>2 DEF RunInv, RunOK, Storing, At
      <4>2. run[e] # run[c]
        BY <1>0, <4>1 DEF OwnInv
      <4> QED
        BY <2>0, <4>1, <4>2 DEF Owned, Touches
    <3> QED
      BY <2>b, <3>1, <3>2 DEF FillInv
  <2>2. /\ pc'[c] = "plan" => "staging" \in parts'[run'[c]]
        /\ pc'[c] = "run"  => {"staging", "plan"} \subseteq parts'[run'[c]]
    <3>1. CASE WritePart(c)
      <4>1. /\ parts' = [parts EXCEPT ![run[c]] = @ \union {pc[c]}]
            /\ pc' = [pc EXCEPT ![c] = After[pc[c]]] /\ run' = run
            /\ pc[c] \in {"staging", "plan"}
        BY <1>f, <3>1 DEF WritePart, Goto, local
      <4>2. run[c] \in Runs
        BY <2>0, <4>1 DEF RunOK
      <4>3. parts'[run[c]] = parts[run[c]] \union {pc[c]} /\ pc'[c] = After[pc[c]]
        BY <1>0, <4>1, <4>2 DEF ControlOK, DataOK
      <4> QED
        BY <2>b, <4>1, <4>3 DEF FillInv, After
    <3>2. CASE MakeRunDir(c) \/ WriteRun(c) \/ Scan(c) \/ ProjectID(c) \/ AdoptID(c)
      BY <1>0, <1>f, <3>2, ExitOwn, StepOwn DEF MakeRunDir, WriteRun, Scan, ProjectID, AdoptID
    <3>3. CASE PlanBegin(c) \/ AdoptBegin(c) \/ ApplyBegin(c) \/ RecoverBegin(c)
      BY <1>0, <3>3, BeginOwn DEF PlanBegin, AdoptBegin, ApplyBegin, RecoverBegin
    <3>4. CASE TakeLock(c)
      BY <1>0, <2>0, <3>4, TakeOwn DEF TakeLock, RunOK
    <3>5. CASE RemovePart(c) \/ Emit(c) \/ Discard(c)
      BY <1>0, <3>5, ExitOwn, StepOwn DEF RemovePart, Emit, Discard
    <3>6. CASE ApplyCheck(c) \/ ApplyPublish(c) \/ ApplySettle(c) \/ Rollback(c)
      BY <1>0, <3>6, ExitOwn, AnswerOwn, StepOwn DEF ApplyCheck, ApplyPublish, ApplySettle, Rollback
    <3> QED
      BY <1>2, <2>0, <3>1, <3>2, <3>3, <3>4, <3>5, <3>6 DEF PlanStep, RunStep
  <2>3. ASSUME NEW r \in Runs, home'[r] # None PROVE parts'[r] = Parts \/ AtWork(r)'
    \* Who is at work on a directory goes on, unless it is the command that steps.
    <3>1. ASSUME NEW e \in Commands \ {c}, run[e] = r,
                 pc[e] \in {"staging", "plan", "run", "remove"}
          PROVE  AtWork(r)'
      BY <2>0, <3>1 DEF Owned, Others, AtWork
    <3>2. CASE r # run[c]
      <4>1. UNCHANGED <<home[r], parts[r]>>
        BY <2>0, <3>2 DEF Owned, Touches
      <4> QED
        BY <2>b, <2>3, <3>1, <3>2, <4>1 DEF AtWork
    <3>3. CASE r = run[c]
      <4>1. CASE MakeRunDir(c) \/ WritePart(c)
        <5>1. /\ run'[c] = r
              /\ pc'[c] \in {"staging", "plan", "run", "remove"}
          BY <1>0, <3>3, <4>1, StepOwn DEF MakeRunDir, WritePart, After
        <5> QED
          BY <5>1 DEF AtWork
      <4>2. CASE WriteRun(c)
        BY <1>0, <1>f, <2>b, <3>3, <4>2 DEF WriteRun, FillInv, DataOK, Parts
      <4>3. CASE RemovePart(c)
        BY <1>0, <1>f, <2>3, <3>3, <4>3 DEF RemovePart, AtWork, local, DataOK
      <4>4. CASE UNCHANGED <<home, parts>> /\ pc[c] \notin {"staging", "plan", "run", "remove"}
        BY <2>b, <2>3, <3>1, <4>4 DEF AtWork
      <4> QED
        BY <1>2, <2>0, <4>1, <4>2, <4>3, <4>4, <1>0, <2>0
           DEF TakeLock, Emit, PlanStep, PlanBegin, Begin, Scan, ProjectID, AdoptBegin, AdoptID,
               RunStep, ApplyBegin, RecoverBegin, ApplyCheck, ApplyPublish, ApplySettle, Rollback,
               Discard, bundle
    <3> QED
      BY <3>2, <3>3
  <2> QED
    BY <2>1, <2>2, <2>3 DEF FillInv
<1> QED
  BY <1>1, <1>2 DEF Next

\* Without a crash or an I/O error every bundle that blocks a plan can be loaded by
\* recover: what store_stuck finds takes one.
THEOREM CalmIsResolvable == Spec => [](faults = 0 => Resolvable)
<1>1. Init => CalmInv
  BY DEF Init, CalmInv, FillInv
<1>2. StoreInv /\ CalmInv /\ [Next]_vars => CalmInv'
  BY CalmStep
<1>3. CalmInv => (faults = 0 => Resolvable)
  BY DEF CalmInv, AtWork, Resolvable
<1> QED
  BY <1>1, <1>2, <1>3, StoreInductive, PTL DEF Spec

-----------------------------------------------------------------------------
(* What plan's scan is worth when it can list every run: RunStoreCap has the *)
(* case that it cannot.                                                      *)

FewRuns == IsFiniteSet(Runs) /\ Cardinality(Runs) <= MaxListed

LEMMA AllListed ==
    ASSUME FewRuns, NEW d PROVE Listed(d) = {r \in Runs : home[r] = d}
<1> DEFINE all == {r \in Runs : home[r] = d}
<1>1. ASSUME NEW r \in all PROVE Cardinality({q \in all : q < r}) < MaxListed
  <2>1. {q \in all : q < r} \subseteq Runs \ {r}
    BY RunsAssumption
  <2>2. IsFiniteSet(Runs \ {r}) /\ Cardinality(Runs \ {r}) = Cardinality(Runs) - 1
    BY FS_RemoveElement DEF FewRuns
  <2>3. Cardinality({q \in all : q < r}) <= Cardinality(Runs \ {r})
    BY <2>1, <2>2, FS_Subset
  <2>4. /\ Cardinality(Runs) \in Nat /\ Cardinality({q \in all : q < r}) \in Nat
        /\ Cardinality(Runs) <= MaxListed
    BY <2>1, <2>2, FS_Subset, FS_CardinalityType DEF FewRuns
  <2> QED
    BY <2>2, <2>3, <2>4, BoundsAssumption
<1> QED
  BY <1>1 DEF Listed

LEMMA ClosedStep ==
    ASSUME FewRuns, StoreInv, ClosedInv, [Next]_vars PROVE ClosedInv'
<1>0. ControlOK /\ DataOK /\ LockInv /\ RunInv /\ OwnInv /\ HomeInv
  BY DEF StoreInv, TypeOK
<1> DEFINE PlansOn(e) == pc'[e] \in {"project", "mkdir", "staging", "plan", "run"}
           Kept(e)    == \A r \in Runs : home'[r] = root'[e] => class'[r] \notin Interrupted
<1>1. ASSUME NEW c \in Commands,
             \/ TakeLock(c) \/ RemovePart(c) \/ Emit(c) \/ Crash(c)
             \/ PlanStep(c) \/ RunStep(c)
      PROVE  \A e \in Commands : PlansOn(e) => Kept(e)
  <2>0. Owned(c) /\ RunOK(c) /\ HomeOK(c) /\ root[c] \in Roots /\ run[c] \in Runs \union {None}
    BY <1>0, <1>1, OwnedStep DEF RunInv, HomeInv, ControlOK
  <2>1. ASSUME NEW e \in Commands \ {c}, PlansOn(e), NEW r \in Runs, home'[r] = root'[e]
        PROVE  class'[r] \notin Interrupted
    <3>1. pc[e] = pc'[e] /\ root[e] = root'[e] /\ root[e] \in Roots /\ pc[e] \in Locked
      BY <1>0, <2>0, <2>1 DEF Owned, Others, ControlOK, Locked
    <3>2. pc[c] \in Locked => root[c] # root[e]
      BY <1>0, <3>1 DEF LockInv
    <3>3. home[r] = root[e] => class[r] \notin Interrupted
      BY <2>1, <3>1 DEF ClosedInv
    <3>4. \/ home'[r] = home[r] /\ class'[r] = class[r]
          \/ /\ pc[c] \in Locked
             /\ class[r] = "new" \/ home[r] = root[c]
             /\ home'[r] \in {home[r], root[c], None}
             /\ class[r] = "new" => class'[r] \in {"new", "ready"}
      BY <2>0 DEF Owned, Touches
    <3>5. home'[r] = home[r]
      BY <2>1, <3>1, <3>2, <3>4, NoneAssumption
    <3>6. class'[r] = class[r] \/ class'[r] \in {"new", "ready"}
      BY <2>1, <3>1, <3>2, <3>4, <3>5
    <3> QED
      BY <2>1, <3>1, <3>3, <3>5, <3>6 DEF Interrupted
  <2>2. ASSUME PlansOn(c) PROVE Kept(c)
    <3>1. CASE Scan(c)
      <4>1. /\ \A r \in Runs : home[r] = root[c] => ~Blocks(r)
            /\ root'[c] = root[c] /\ UNCHANGED bundle
        BY <2>2, <3>1, <1>0, AllListed, ExitOwn, StepOwn DEF Scan
      <4> QED
        BY <4>1 DEF Blocks, bundle
    <3>2. CASE ProjectID(c)
      BY <1>0, <2>2, <3>2, ExitOwn, StepOwn DEF ProjectID, bundle, ClosedInv
    <3>3. CASE MakeRunDir(c)
      BY <1>0, <2>0, <2>2, <3>3, StepOwn
         DEF MakeRunDir, ClosedInv, RunOK, Storing, At, Interrupted, DataOK
    <3>4. CASE WritePart(c)
      BY <1>0, <2>2, <3>4, StepOwn DEF WritePart, ClosedInv, DataOK
    <3>5. CASE TakeLock(c)
      BY <1>0, <2>0, <2>2, <3>5, TakeOwn DEF TakeLock, RunOK
    <3>6. CASE WriteRun(c) \/ AdoptID(c) \/ Emit(c) \/ Crash(c)
      BY <1>0, <2>2, <3>6, ExitOwn, StepOwn DEF WriteRun, AdoptID, Emit, Crash
    <3>7. CASE PlanBegin(c) \/ AdoptBegin(c) \/ ApplyBegin(c) \/ RecoverBegin(c)
      BY <1>0, <2>2, <3>7, BeginOwn DEF PlanBegin, AdoptBegin, ApplyBegin, RecoverBegin
    <3>8. CASE ApplyCheck(c) \/ ApplyPublish(c) \/ ApplySettle(c) \/ Rollback(c) \/ Discard(c)
      BY <1>0, <2>2, <3>8, ExitOwn, AnswerOwn, StepOwn
         DEF ApplyCheck, ApplyPublish, ApplySettle, Rollback, Discard
    <3>9. CASE RemovePart(c)
      BY <1>0, <2>2, <3>9, ExitOwn DEF RemovePart
    <3> QED
      BY <1>1, <3>1, <3>2, <3>3, <3>4, <3>5, <3>6, <3>7, <3>8, <3>9 DEF PlanStep, RunStep
  <2> QED
    BY <2>1, <2>2
<1>2. CASE GitInit \/ UserChange \/ UNCHANGED vars
  BY <1>2 DEF GitInit, UserChange, Edit, vars, local, bundle, ClosedInv
<1> QED
  BY <1>1, <1>2 DEF Next, ClosedInv

\* As long as plan can list all runs, it stores no run beside an interrupted one.
THEOREM PlanIsFailClosed == ASSUME FewRuns PROVE Spec => PlanFailsClosed
<1>1. Init => ClosedInv
  BY DEF Init, ClosedInv
<1>2. StoreInv /\ ClosedInv /\ [Next]_vars => ClosedInv'
  BY ClosedStep
<1>3. StoreInv /\ ClosedInv /\ [Next]_vars =>
          (\A r, q \in Runs : class[r] = "new" /\ class'[r] = "ready" /\ home[q] = home[r]
                => class[q] \notin Interrupted)
  <2> SUFFICES ASSUME StoreInv, ClosedInv, [Next]_vars, NEW r \in Runs, NEW q \in Runs,
                      class[r] = "new", class'[r] = "ready", home[q] = home[r]
               PROVE  class[q] \notin Interrupted
    OBVIOUS
  <2>0. ControlOK /\ DataOK /\ RunInv /\ HomeInv
    BY DEF StoreInv, TypeOK
  <2>1. CASE GitInit \/ UserChange \/ UNCHANGED vars
    BY <2>1 DEF GitInit, UserChange, Edit, vars, bundle
  <2>2. ASSUME NEW c \in Commands,
               \/ TakeLock(c) \/ RemovePart(c) \/ Emit(c) \/ Crash(c)
               \/ PlanStep(c) \/ RunStep(c)
        PROVE  class[q] \notin Interrupted
    <3>1. r = run[c] /\ pc[c] = "run" /\ HomeOK(c)
      BY <2>0, <2>2, OwnedStep DEF Owned, Touches, HomeInv
    <3> QED
      BY <3>1 DEF HomeOK, ClosedInv
  <2> QED
    BY <2>1, <2>2 DEF Next
<1> QED
  BY <1>1, <1>2, <1>3, StoreInductive, PTL DEF Spec, PlanFailsClosed

=============================================================================
