--------------------------- MODULE TaskDraftsProofs ---------------------------
(***************************************************************************)
(* TaskDrafts' properties, for any number of commands, branches and IDs.   *)
(***************************************************************************)
EXTENDS TaskDrafts, FiniteSetTheorems, TLAPS

\* Where a command has the lock.
Inside == Labels \ {"out", "lock"}

LockInv ==
    excludes => \A c \in Commands : pc[c] \in Inside <=> lock = c

\* What a command remembers, and what it has found on disk for good.
MemOK(c) ==
    /\ pc[c] # "out" => branch[c] \in Branches
    /\ pc[c] \in Inside \ {"inspect"} => spec[c] \in Specs
    /\ pc[c] \in {"out", "lock", "inspect", "scan", "readdir"} => local[c] = {}
    /\ draft[c] # None => task[c] # None
    /\ pc[c] \in {"identity", "persist", "plan", "ok"} => draft[c] # None
    /\ pc[c] = "identity" => draft[c] \in dirs
    /\ pc[c] \in {"plan", "ok"} => planned[c] # None /\ identity[draft[c]] = task[c]
    /\ pc[c] = "ok" => plans[draft[c]][spec[c]] = planned[c]
MemInv == \A c \in Commands : MemOK(c)

\* A Task ID once found in Git stays there.
UsedInv ==
    \A c \in Commands : pc[c] \in {"readdir", "read"} =>
        \A t \in used[c] : \E m \in mentions : m[1] = t /\ m[2] # branch[c]

\* What the scan of the local drafts has found stays so under the lock.
ScanOK(c) ==
    /\ pc[c] = "read" =>
        /\ pending[c] \subseteq dirs
        /\ \A b \in dirs \ pending[c] : identity[b] \in local[c]
        /\ \A t \in local[c] : \E b \in dirs \ pending[c] : identity[b] = t
        /\ Wanted(c) \in dirs \ pending[c] => draft[c] # None
    /\ pc[c] = "mkdir" => \A b \in dirs : identity[b] \in local[c]
    /\ pc[c] = "identity" => \A b \in Branches : identity[b] # task[c]
ScanInv == excludes => \A c \in Commands : ScanOK(c)

\* A directory without an identity is one that a command is making.
WholeInv ==
    excludes /\ faults = 0 =>
        \A b \in dirs : identity[b] = None =>
            \E c \in Commands : pc[c] = "identity" /\ draft[c] = b

\* There is one at most, for a directory is made only when all have theirs.
LoneInv ==
    excludes => \A a, b \in dirs : identity[a] = None /\ identity[b] = None => a = b

DraftInv == /\ TypeOK /\ LockInv /\ MemInv /\ UsedInv /\ ScanInv
            /\ UniqueTasks /\ WholeInv /\ LoneInv

-----------------------------------------------------------------------------
(* Steps, as the other commands see them *)

MemorySame(e) ==
    /\ pc'[e] = pc[e]
    /\ branch'[e] = branch[e] /\ chosen'[e] = chosen[e] /\ spec'[e] = spec[e]
    /\ used'[e] = used[e] /\ pending'[e] = pending[e] /\ local'[e] = local[e]
    /\ draft'[e] = draft[e] /\ task'[e] = task[e] /\ planned'[e] = planned[e]

Others(c) == \A e \in Commands \ {c} : MemorySame(e)

Blanked(c) ==
    /\ pc'[c] = "out"
    /\ branch'[c] = None /\ chosen'[c] = None /\ spec'[c] = None
    /\ used'[c] = {} /\ pending'[c] = {} /\ local'[c] = {}
    /\ draft'[c] = None /\ task'[c] = None /\ planned'[c] = None
    /\ lock' = IF lock = c THEN None ELSE lock

LEMMA ExitStep ==
    ASSUME pc \in [Commands -> Labels], MemoryOK, NEW c \in Commands, Exit(c)
    PROVE  pc' \in [Commands -> Labels] /\ MemoryOK' /\ Others(c) /\ Blanked(c)
<1>1. pc' \in [Commands -> Labels]
  BY DEF Exit, Goto, Labels
<1>2. MemoryOK'
  BY DEF Exit, MemoryOK
<1>3. Others(c)
  BY DEF Exit, Goto, MemoryOK, Others, MemorySame
<1>4. Blanked(c)
  BY DEF Exit, Goto, MemoryOK, Blanked
<1> QED
  BY <1>1, <1>2, <1>3, <1>4

LEMMA GotoStep ==
    ASSUME pc \in [Commands -> Labels], NEW c \in Commands, NEW l \in Labels, Goto(c, l)
    PROVE  /\ pc' \in [Commands -> Labels] /\ pc'[c] = l
           /\ \A e \in Commands \ {c} : pc'[e] = pc[e]
  BY DEF Goto

LEMMA LabelNames ==
    /\ Labels = {"out", "lock", "inspect", "scan", "readdir", "read", "mkdir",
                 "identity", "persist", "plan", "ok"}
    /\ Inside = {"inspect", "scan", "readdir", "read", "mkdir",
                 "identity", "persist", "plan", "ok"}
  BY DEF Labels, Inside

CommandStep(c) ==
    \/ Begin(c) \/ TakeLock(c) \/ Inspect(c) \/ ScanIDs(c) \/ Resolve(c)
    \/ Persist(c) \/ PublishPlan(c) \/ Answer(c) \/ Crash(c)

\* A command's step leaves the other commands alone, and the store too unless it is
\* inside; what is published stays.
Kept ==
    /\ dirs \subseteq dirs' /\ excludes' = excludes
    /\ dirs' = dirs \/ \E b : dirs' = dirs \union {b}
    /\ \A b \in Branches : identity[b] # None => identity'[b] = identity[b]
    /\ \A b \in Branches, s \in Specs : plans[b][s] # None => plans'[b][s] = plans[b][s]

LEMMA KeptStep == TypeOK /\ [Next]_vars => Kept
<1> SUFFICES ASSUME TypeOK, [Next]_vars PROVE Kept
  OBVIOUS
<1>1. CASE UNCHANGED <<store, excludes>>
  BY <1>1 DEF Kept, store
<1>2. ASSUME NEW c \in Commands, MakeDir(c) PROVE Kept
  BY <1>2 DEF MakeDir, Kept, world
<1>3. ASSUME NEW c \in Commands, PublishIdentity(c) PROVE Kept
  BY <1>3 DEF PublishIdentity, Kept, world, TypeOK
<1>4. ASSUME NEW c \in Commands, PublishPlan(c) PROVE Kept
  <2>1. CASE UNCHANGED plans
    BY <1>4, <2>1 DEF PublishPlan, Kept, world
  <2>2. CASE /\ plans[draft[c]][spec[c]] = None
             /\ plans' = [plans EXCEPT ![draft[c]][spec[c]] = planned[c]]
    <3>1. \A b \in Branches, s \in Specs : plans[b][s] # None => plans'[b][s] = plans[b][s]
      BY <2>2 DEF TypeOK
    <3> QED
      BY <1>4, <3>1 DEF PublishPlan, Kept, world
  <2> QED
    BY <1>4, <2>1, <2>2 DEF PublishPlan
<1>5. ASSUME NEW c \in Commands,
             Begin(c) \/ TakeLock(c) \/ Inspect(c) \/ ScanIDs(c) \/ ReadDir(c)
             \/ ReadIdentity(c) \/ Select(c) \/ Persist(c) \/ Answer(c) \/ Crash(c)
      PROVE  UNCHANGED <<store, excludes>>
  BY <1>5 DEF Begin, TakeLock, Inspect, ScanIDs, ReadDir, ReadIdentity, Select, Persist, Answer,
              Crash, world
<1>6. CASE Mention \/ Damage \/ UNCHANGED vars
  BY <1>1, <1>6 DEF Mention, Damage, Edit, vars, world
<1> QED
  BY <1>1, <1>2, <1>3, <1>4, <1>5, <1>6 DEF Next, Resolve

\* The type of what a command remembers, and of the lock.
ControlOK == pc \in [Commands -> Labels] /\ MemoryOK /\ lock \in Commands \union {None}

LEMMA ExitControl ==
    ASSUME ControlOK, NEW c \in Commands, Exit(c) PROVE ControlOK' /\ Others(c)
<1>1. lock' \in Commands \union {None}
  BY DEF Exit, ControlOK
<1> QED
  BY <1>1, ExitStep DEF ControlOK

LEMMA GoControl ==
    ASSUME ControlOK, NEW c \in Commands, NEW l \in Labels, Goto(c, l), MemoryOK',
           lock' = lock \/ lock' = c,
           \A e \in Commands \ {c} :
               /\ branch'[e] = branch[e] /\ chosen'[e] = chosen[e] /\ spec'[e] = spec[e]
               /\ used'[e] = used[e] /\ pending'[e] = pending[e] /\ local'[e] = local[e]
               /\ draft'[e] = draft[e] /\ task'[e] = task[e] /\ planned'[e] = planned[e]
    PROVE  ControlOK' /\ Others(c)
  BY GotoStep DEF ControlOK, Others, MemorySame

LEMMA ControlStep ==
    ASSUME TypeOK, MemInv, NEW c \in Commands, CommandStep(c) PROVE ControlOK' /\ Others(c)
<1>0. ControlOK /\ pc[c] \in Labels
  BY DEF TypeOK, ControlOK
<1>e. CASE Exit(c)
  BY <1>0, <1>e, ExitControl
<1>1. ASSUME Begin(c), ~Exit(c) PROVE ControlOK' /\ Others(c)
  <2>1. Goto(c, "lock")
    BY <1>1 DEF Begin
  <2>2. "lock" \in Labels
    BY DEF Labels
  <2>3. MemoryOK'
    BY <1>1 DEF Begin, memory, TypeOK, MemoryOK
  <2>4. lock' = lock \/ lock' = c
    BY <1>1 DEF Begin
  <2> QED
    BY <1>0, <1>1, <2>1, <2>2, <2>3, <2>4, GoControl DEF Begin, memory, TypeOK, MemoryOK
<1>2. ASSUME TakeLock(c), ~Exit(c) PROVE ControlOK' /\ Others(c)
  <2>1. Goto(c, "inspect")
    BY <1>2 DEF TakeLock
  <2>2. "inspect" \in Labels
    BY DEF Labels
  <2>3. MemoryOK'
    BY <1>2 DEF TakeLock, memory, TypeOK, MemoryOK
  <2>4. lock' = lock \/ lock' = c
    BY <1>2 DEF TakeLock
  <2> QED
    BY <1>0, <1>2, <2>1, <2>2, <2>3, <2>4, GoControl DEF TakeLock, memory, TypeOK, MemoryOK
<1>3. ASSUME Inspect(c), ~Exit(c) PROVE ControlOK' /\ Others(c)
  <2>1. Goto(c, "scan")
    BY <1>3 DEF Inspect
  <2>2. "scan" \in Labels
    BY DEF Labels
  <2>3. MemoryOK'
    BY <1>3 DEF Inspect, memory, TypeOK, MemoryOK
  <2>4. lock' = lock \/ lock' = c
    BY <1>3 DEF Inspect
  <2> QED
    BY <1>0, <1>3, <2>1, <2>2, <2>3, <2>4, GoControl DEF Inspect, memory, TypeOK, MemoryOK
<1>4. ASSUME ScanIDs(c), ~Exit(c) PROVE ControlOK' /\ Others(c)
  <2>1. Goto(c, "readdir")
    BY <1>4 DEF ScanIDs
  <2>2. "readdir" \in Labels
    BY DEF Labels
  <2>3. MemoryOK'
    BY <1>4 DEF ScanIDs, Found, memory, TypeOK, MemoryOK
  <2>4. lock' = lock \/ lock' = c
    BY <1>4 DEF ScanIDs
  <2> QED
    BY <1>0, <1>4, <2>1, <2>2, <2>3, <2>4, GoControl DEF ScanIDs, Found, memory, TypeOK, MemoryOK
<1>5. ASSUME ReadDir(c), ~Exit(c) PROVE ControlOK' /\ Others(c)
  <2>1. Goto(c, "read")
    BY <1>5 DEF ReadDir
  <2>2. "read" \in Labels
    BY DEF Labels
  <2>3. MemoryOK'
    BY <1>5 DEF ReadDir, memory, TypeOK, MemoryOK
  <2>4. lock' = lock \/ lock' = c
    BY <1>5 DEF ReadDir
  <2> QED
    BY <1>0, <1>5, <2>1, <2>2, <2>3, <2>4, GoControl DEF ReadDir, memory, TypeOK, MemoryOK
<1>6. ASSUME ReadIdentity(c), ~Exit(c) PROVE ControlOK' /\ Others(c)
  <2>1. PICK b \in pending[c] :
            /\ identity[b] # None
            /\ pending' = [pending EXCEPT ![c] = @ \ {b}]
            /\ local' = [local EXCEPT ![c] = @ \union {identity[b]}]
            /\ draft' = [draft EXCEPT ![c] = IF b = Wanted(c) THEN b ELSE @]
            /\ task' = [task EXCEPT ![c] = IF b = Wanted(c) THEN identity[b] ELSE @]
            /\ UNCHANGED <<pc, branch, chosen, used, spec, planned, lock>>
    BY <1>6 DEF ReadIdentity
  <2>2. b \in Branches /\ identity[b] \in TaskIDs
    BY <2>1 DEF TypeOK, MemoryOK
  <2>3. MemoryOK'
    BY <2>1, <2>2 DEF TypeOK, MemoryOK
  <2>4. Others(c)
    BY <2>1 DEF TypeOK, MemoryOK, Others, MemorySame
  <2> QED
    BY <1>0, <2>1, <2>3, <2>4 DEF ControlOK
<1>7. ASSUME Select(c), ~Exit(c) PROVE ControlOK' /\ Others(c)
  <2>1. PICK l \in {"persist", "mkdir"} : Goto(c, l)
    BY <1>7 DEF Select
  <2>2. l \in Labels
    BY <2>1 DEF Labels
  <2>3. MemoryOK'
    BY <1>7 DEF Select, Settle, memory, TypeOK, MemoryOK
  <2>4. lock' = lock \/ lock' = c
    BY <1>7 DEF Select
  <2> QED
    BY <1>0, <1>7, <2>1, <2>2, <2>3, <2>4, GoControl DEF Select, Settle, memory, TypeOK, MemoryOK
<1>8. ASSUME MakeDir(c), ~Exit(c) PROVE ControlOK' /\ Others(c)
  <2>1. Goto(c, "identity")
    BY <1>8 DEF MakeDir
  <2>2. "identity" \in Labels
    BY DEF Labels
  <2>3. MemoryOK'
    <3>1. PICK t \in TaskIDs : task' = [task EXCEPT ![c] = t]
      BY <1>8 DEF MakeDir, Allocatable
    <3>2. draft' = [draft EXCEPT ![c] = branch[c]] /\ branch[c] \in Branches
      BY <1>8 DEF MakeDir, MemInv, MemOK
    <3>3. used' = [used EXCEPT ![c] = {}] /\ local' = [local EXCEPT ![c] = {}]
      BY <1>8 DEF MakeDir, Settle
    <3>4. UNCHANGED <<branch, chosen, spec, pending, planned>>
      BY <1>8 DEF MakeDir
    <3> QED
      BY <3>1, <3>2, <3>3, <3>4 DEF TypeOK, MemoryOK
  <2>4. lock' = lock \/ lock' = c
    BY <1>8 DEF MakeDir
  <2> QED
    BY <1>0, <1>8, <2>1, <2>2, <2>3, <2>4, GoControl DEF MakeDir, Settle, Allocatable, memory, TypeOK, MemoryOK
<1>9. ASSUME PublishIdentity(c), ~Exit(c) PROVE ControlOK' /\ Others(c)
  <2>1. Goto(c, "persist")
    BY <1>9 DEF PublishIdentity
  <2>2. "persist" \in Labels
    BY DEF Labels
  <2>3. MemoryOK'
    BY <1>9 DEF PublishIdentity, memory, TypeOK, MemoryOK
  <2>4. lock' = lock \/ lock' = c
    BY <1>9 DEF PublishIdentity
  <2> QED
    BY <1>0, <1>9, <2>1, <2>2, <2>3, <2>4, GoControl DEF PublishIdentity, memory, TypeOK, MemoryOK
<1>10. ASSUME Persist(c), ~Exit(c) PROVE ControlOK' /\ Others(c)
  <2>1. PICK l \in {"plan", "ok"} : Goto(c, l)
    BY <1>10 DEF Persist
  <2>2. l \in Labels
    BY <2>1 DEF Labels
  <2>3. MemoryOK'
    <3>1. draft[c] \in Branches /\ spec[c] \in Specs
      BY <1>10, LabelNames DEF Persist, MemInv, MemOK, TypeOK, MemoryOK
    <3>2. PICK x \in PlanIDs \union {None} : planned' = [planned EXCEPT ![c] = x]
      BY <1>10, <3>1 DEF Persist, TypeOK
    <3> QED
      BY <1>10, <3>2 DEF Persist, TypeOK, MemoryOK
  <2>4. lock' = lock \/ lock' = c
    BY <1>10 DEF Persist
  <2> QED
    BY <1>0, <1>10, <2>1, <2>2, <2>3, <2>4, GoControl DEF Persist, memory, TypeOK, MemoryOK
<1>11. ASSUME PublishPlan(c), ~Exit(c) PROVE ControlOK' /\ Others(c)
  <2>1. Goto(c, "ok")
    BY <1>11 DEF PublishPlan
  <2>2. "ok" \in Labels
    BY DEF Labels
  <2>3. MemoryOK'
    BY <1>11 DEF PublishPlan, memory, TypeOK, MemoryOK
  <2>4. lock' = lock \/ lock' = c
    BY <1>11 DEF PublishPlan
  <2> QED
    BY <1>0, <1>11, <2>1, <2>2, <2>3, <2>4, GoControl DEF PublishPlan, memory, TypeOK, MemoryOK
<1>12. ASSUME Answer(c), ~Exit(c) PROVE ControlOK' /\ Others(c)
  BY <1>12 DEF Answer
<1>13. ASSUME Crash(c), ~Exit(c) PROVE ControlOK' /\ Others(c)
  BY <1>13 DEF Crash
<1> QED
  BY <1>e, <1>1, <1>2, <1>3, <1>4, <1>5, <1>6, <1>7, <1>8, <1>9, <1>10, <1>11, <1>12, <1>13 DEF CommandStep, Resolve

StoreOK ==
    /\ dirs \subseteq Branches /\ identity \in [Branches -> TaskIDs \union {None}]
    /\ plans \in [Branches -> [Specs -> PlanIDs \union {None}]]
    /\ \A b \in Branches : identity[b] # None => b \in dirs

LEMMA TypeStep == TypeOK /\ MemInv /\ [Next]_vars => TypeOK'
<1> SUFFICES ASSUME TypeOK, MemInv, [Next]_vars PROVE TypeOK'
  OBVIOUS
<1>1. ControlOK'
  <2>1. CASE UNCHANGED <<pc, memory, lock>>
    BY <2>1 DEF TypeOK, ControlOK, MemoryOK, memory
  <2> QED
    BY <2>1, ControlStep DEF Next, CommandStep, Mention, Damage, Edit, vars
<1>2. faults' \in 0..MaxFaults
  <2>1. CASE Fault
    BY <2>1, BoundsAssumption DEF Fault, TypeOK
  <2>2. Fault \/ faults' = faults
    BY DEF Next, Begin, TakeLock, Inspect, ScanIDs, Resolve, ReadDir, ReadIdentity, Select,
           MakeDir, PublishIdentity, Persist, PublishPlan, Answer, Crash, Mention, Damage,
           Edit, vars
  <2> QED
    BY <2>1, <2>2 DEF TypeOK
<1>3. excludes' \in BOOLEAN
  BY KeptStep DEF Kept, TypeOK
<1>4. mentions' \subseteq TaskIDs \X (Branches \union {Elsewhere}) /\ damaged' \subseteq Branches
  <2>1. CASE UNCHANGED <<mentions, damaged>>
    BY <2>1 DEF TypeOK
  <2>2. CASE Mention
    BY <2>2 DEF Mention, TypeOK
  <2>3. CASE Damage
    BY <2>3 DEF Damage, TypeOK
  <2>4. ASSUME NEW c \in Commands, CommandStep(c) PROVE UNCHANGED <<mentions, damaged>>
    BY <2>4 DEF CommandStep, Begin, TakeLock, Inspect, ScanIDs, Resolve, ReadDir, ReadIdentity,
           Select, MakeDir, PublishIdentity, Persist, PublishPlan, Answer, Crash, world
  <2> QED
    BY <2>1, <2>2, <2>3, <2>4 DEF Next, CommandStep, vars, world
<1>5. StoreOK'
  <2>1. CASE UNCHANGED store
    BY <2>1 DEF TypeOK, StoreOK, store
  <2>2. ASSUME NEW c \in Commands, MakeDir(c)
        PROVE  StoreOK'
    <3>1. branch[c] \in Branches
      BY <2>2 DEF MakeDir, MemInv, MemOK
    <3> QED
      BY <2>2, <3>1 DEF MakeDir, TypeOK, StoreOK
  <2>3. ASSUME NEW c \in Commands, PublishIdentity(c)
        PROVE  StoreOK'
    <3>1. draft[c] \in dirs /\ task[c] \in TaskIDs
      BY <2>3 DEF PublishIdentity, MemInv, MemOK, TypeOK, MemoryOK
    <3> QED
      BY <2>3, <3>1 DEF PublishIdentity, TypeOK, StoreOK
  <2>4. ASSUME NEW c \in Commands, PublishPlan(c)
        PROVE  StoreOK'
    <3>1. planned[c] \in PlanIDs
      BY <2>4 DEF PublishPlan, MemInv, MemOK, TypeOK, MemoryOK
    <3> QED
      BY <2>4, <3>1 DEF PublishPlan, TypeOK, StoreOK
  <2>5. ASSUME NEW c \in Commands,
               Begin(c) \/ TakeLock(c) \/ Inspect(c) \/ ScanIDs(c) \/ ReadDir(c)
               \/ ReadIdentity(c) \/ Select(c) \/ Persist(c) \/ Answer(c) \/ Crash(c)
        PROVE  UNCHANGED store
    BY <2>5 DEF Begin, TakeLock, Inspect, ScanIDs, ReadDir, ReadIdentity, Select, Persist,
                Answer, Crash
  <2>6. CASE Mention \/ Damage \/ UNCHANGED vars
    BY <2>1, <2>6 DEF Mention, Damage, Edit, vars
  <2> QED
    BY <2>1, <2>2, <2>3, <2>4, <2>5, <2>6 DEF Next, Resolve
<1> QED
  BY <1>1, <1>2, <1>3, <1>4, <1>5 DEF TypeOK, ControlOK, StoreOK

LEMMA LockStep == TypeOK /\ MemInv /\ LockInv /\ [Next]_vars => LockInv'
<1> SUFFICES ASSUME TypeOK, MemInv, LockInv, [Next]_vars, excludes PROVE LockInv'
  BY KeptStep DEF LockInv, Kept
<1>0. \A e \in Commands : pc[e] \in Inside <=> lock = e
  BY DEF LockInv
<1>1. ASSUME NEW c \in Commands, CommandStep(c) PROVE LockInv'
  <2>0. \A e \in Commands \ {c} : pc'[e] = pc[e]
    BY <1>1, ControlStep DEF Others, MemorySame
  <2>1. CASE Exit(c)
    <3>1. pc'[c] = "out" /\ lock' = IF lock = c THEN None ELSE lock
      BY <2>1, ExitStep DEF TypeOK, Blanked
    <3> QED
      BY <1>0, <2>0, <3>1, NoneAssumption, LabelNames DEF LockInv
  <2>2. CASE lock = None /\ lock' = c /\ pc'[c] = "inspect"
    BY <1>0, <2>0, <2>2, NoneAssumption, LabelNames DEF LockInv
  <2>3. CASE UNCHANGED lock /\ (pc[c] \in Inside <=> pc'[c] \in Inside)
    BY <1>0, <2>0, <2>3 DEF LockInv
  <2>4. CASE Begin(c) \/ TakeLock(c) \/ Inspect(c) \/ ScanIDs(c)
    BY <2>1, <2>2, <2>3, <2>4, LabelNames DEF Begin, TakeLock, Inspect, ScanIDs, Goto, TypeOK
  <2>5. CASE ReadDir(c) \/ ReadIdentity(c) \/ Select(c)
    BY <2>1, <2>3, <2>5, LabelNames DEF ReadDir, ReadIdentity, Select, Goto, TypeOK
  <2>6. CASE MakeDir(c) \/ PublishIdentity(c) \/ Persist(c) \/ PublishPlan(c)
    BY <2>1, <2>3, <2>6, LabelNames
       DEF MakeDir, PublishIdentity, Persist, PublishPlan, Goto, TypeOK
  <2>7. CASE Answer(c) \/ Crash(c)
    BY <2>1, <2>7 DEF Answer, Crash
  <2> QED
    BY <1>1, <2>4, <2>5, <2>6, <2>7 DEF CommandStep, Resolve
<1>2. CASE Mention \/ Damage \/ UNCHANGED vars
  BY <1>0, <1>2 DEF Mention, Damage, Edit, vars, LockInv
<1> QED
  BY <1>1, <1>2 DEF Next, CommandStep

LEMMA MemStep == TypeOK /\ MemInv /\ [Next]_vars => MemInv'
<1> SUFFICES ASSUME TypeOK, MemInv, [Next]_vars PROVE MemInv'
  OBVIOUS
<1>0. Kept
  BY KeptStep
<1>1. ASSUME NEW e \in Commands, MemorySame(e) PROVE MemOK(e)'
  <2>1. /\ draft[e] # None => draft[e] \in Branches
        /\ pc[e] \in {"plan", "ok"} => spec[e] \in Specs /\ draft[e] \in Branches
    BY LabelNames DEF TypeOK, MemoryOK, MemInv, MemOK
  <2>2. pc[e] \in {"plan", "ok"} => identity'[draft[e]] = task[e]
    BY <1>0, <2>1 DEF Kept, MemInv, MemOK
  <2>3. pc[e] = "ok" => plans'[draft[e]][spec[e]] = planned[e]
    BY <1>0, <2>1 DEF Kept, MemInv, MemOK
  <2> QED
    BY <1>0, <1>1, <2>2, <2>3 DEF MemorySame, Kept, MemInv, MemOK
<1>2. ASSUME NEW c \in Commands, CommandStep(c) PROVE MemOK(c)'
  <2>0. MemOK(c)
    BY DEF MemInv
  <2>1. CASE Exit(c)
    <3>1. Blanked(c)
      BY <2>1, ExitStep DEF TypeOK
    <3> QED
      BY <3>1, LabelNames DEF Blanked, MemOK
  <2>2. ASSUME Begin(c) PROVE MemOK(c)'
    BY <2>0, <2>2, LabelNames DEF Begin, Goto, TypeOK, MemoryOK, MemOK
  <2>3. ASSUME TakeLock(c), ~Exit(c) PROVE MemOK(c)'
    BY <2>0, <2>3, LabelNames DEF TakeLock, Goto, TypeOK, memory, MemOK
  <2>4. ASSUME Inspect(c), ~Exit(c) PROVE MemOK(c)'
    BY <2>0, <2>4, LabelNames DEF Inspect, Goto, TypeOK, MemoryOK, MemOK
  <2>5. ASSUME ScanIDs(c), ~Exit(c) PROVE MemOK(c)'
    BY <2>0, <2>5, LabelNames DEF ScanIDs, Goto, TypeOK, MemoryOK, MemOK
  <2>6. ASSUME ReadDir(c), ~Exit(c) PROVE MemOK(c)'
    BY <2>0, <2>6, LabelNames DEF ReadDir, Goto, TypeOK, MemoryOK, MemOK
  <2>7. ASSUME ReadIdentity(c), ~Exit(c) PROVE MemOK(c)'
    BY <2>0, <2>7, LabelNames DEF ReadIdentity, TypeOK, MemoryOK, MemOK
  <2>8. ASSUME Select(c), ~Exit(c) PROVE MemOK(c)'
    BY <2>0, <2>8, LabelNames DEF Select, Settle, Goto, TypeOK, MemoryOK, memory, MemOK
  <2>9. ASSUME MakeDir(c), ~Exit(c) PROVE MemOK(c)'
    <3>1. PICK t \in TaskIDs : task' = [task EXCEPT ![c] = t]
      BY <2>9 DEF MakeDir, Allocatable
    <3>2. t # None /\ branch[c] \in Branches /\ branch[c] # None
      BY <2>0, <2>9, NoneAssumption DEF MakeDir, MemOK
    <3>3. /\ pc'[c] = "identity" /\ task'[c] = t /\ draft'[c] = branch[c] /\ branch[c] \in dirs'
          /\ branch'[c] = branch[c] /\ spec'[c] = spec[c] /\ pc[c] = "mkdir"
      BY <2>9, <3>1 DEF MakeDir, Goto, TypeOK, MemoryOK
    <3> QED
      BY <2>0, <3>2, <3>3, LabelNames DEF MemOK
  <2>10. ASSUME PublishIdentity(c), ~Exit(c) PROVE MemOK(c)'
    BY <2>0, <2>10, LabelNames DEF PublishIdentity, Goto, TypeOK, memory, MemOK
  <2>11. ASSUME Persist(c), ~Exit(c) PROVE MemOK(c)'
    <3>1. draft[c] \in Branches /\ spec[c] \in Specs
      BY <2>0, <2>11, LabelNames DEF Persist, MemOK, TypeOK, MemoryOK
    <3>2. /\ pc'[c] \in {"plan", "ok"} /\ identity[draft[c]] = task[c]
          /\ pc'[c] = "ok" => planned'[c] = plans[draft[c]][spec[c]]
          /\ planned'[c] # None
      BY <2>11, <3>1, NoneAssumption DEF Persist, Goto, TypeOK, MemoryOK
    <3> QED
      BY <2>0, <2>11, <3>2, LabelNames DEF Persist, store, MemOK
  <2>12. ASSUME PublishPlan(c), ~Exit(c) PROVE MemOK(c)'
    <3>1. draft[c] \in Branches /\ spec[c] \in Specs
      BY <2>0, <2>12, LabelNames DEF PublishPlan, MemOK, TypeOK, MemoryOK
    <3>2. plans'[draft[c]][spec[c]] = planned[c]
      BY <2>12, <3>1 DEF PublishPlan, TypeOK
    <3> QED
      BY <2>0, <2>12, <3>2, LabelNames DEF PublishPlan, Goto, TypeOK, memory, MemOK
  <2> QED
    BY <1>2, <2>1, <2>2, <2>3, <2>4, <2>5, <2>6, <2>7, <2>8, <2>9, <2>10, <2>11, <2>12
       DEF CommandStep, Resolve, Answer, Crash
<1>3. ASSUME NEW c \in Commands, CommandStep(c) PROVE MemInv'
  BY <1>1, <1>2, <1>3, ControlStep DEF Others, MemInv
<1>4. CASE Mention \/ Damage \/ UNCHANGED vars
  BY <1>1, <1>4 DEF Mention, Damage, Edit, vars, memory, MemorySame, MemInv
<1> QED
  BY <1>3, <1>4 DEF Next, CommandStep

LEMMA UsedStep == TypeOK /\ MemInv /\ UsedInv /\ [Next]_vars => UsedInv'
<1> SUFFICES ASSUME TypeOK, MemInv, UsedInv, [Next]_vars PROVE UsedInv'
  OBVIOUS
<1> DEFINE UsedOK(c) == pc[c] \in {"readdir", "read"} =>
              \A t \in used[c] : \E m \in mentions : m[1] = t /\ m[2] # branch[c]
<1>1. mentions \subseteq mentions'
  BY DEF Next, Begin, TakeLock, Inspect, ScanIDs, Resolve, ReadDir, ReadIdentity,
         Select, MakeDir, PublishIdentity, Persist, PublishPlan, Answer, Crash, world,
         Mention, Damage, vars
<1>2. ASSUME NEW e \in Commands, MemorySame(e) PROVE UsedOK(e)'
  BY <1>1, <1>2 DEF MemorySame, UsedInv
<1>3. ASSUME NEW c \in Commands, CommandStep(c) PROVE UsedOK(c)'
  <2>1. CASE ScanIDs(c) /\ ~Exit(c)
    <3>1. used'[c] = Found(branch[c]) /\ branch'[c] = branch[c]
      BY <2>1 DEF ScanIDs, TypeOK, MemoryOK
    <3>2. \A t \in Found(branch[c]) : \E m \in mentions : m[1] = t /\ m[2] # branch[c]
      BY DEF Found
    <3> QED
      BY <1>1, <3>1, <3>2
  <2>2. CASE pc'[c] \notin {"readdir", "read"}
    BY <2>2
  <2>3. CASE pc[c] \in {"readdir", "read"} /\ used'[c] = used[c] /\ branch'[c] = branch[c]
    BY <1>1, <2>3 DEF UsedInv
  <2>4. CASE Exit(c)
    BY <2>2, <2>4, ExitStep DEF TypeOK, Blanked
  <2>5. CASE (ReadDir(c) \/ ReadIdentity(c)) /\ ~Exit(c)
    BY <2>3, <2>5 DEF ReadDir, ReadIdentity
  <2>6. CASE /\ Begin(c) \/ TakeLock(c) \/ Inspect(c) \/ Select(c) \/ MakeDir(c)
                \/ PublishIdentity(c) \/ Persist(c) \/ PublishPlan(c)
             /\ ~Exit(c)
    BY <2>2, <2>6 DEF Begin, TakeLock, Inspect, Select, MakeDir, PublishIdentity, Persist,
                      PublishPlan, Goto, TypeOK
  <2> QED
    BY <1>3, <2>1, <2>4, <2>5, <2>6 DEF CommandStep, Resolve, Answer, Crash
<1>4. ASSUME NEW c \in Commands, CommandStep(c) PROVE UsedInv'
  BY <1>2, <1>3, <1>4, ControlStep DEF Others, UsedInv
<1>5. CASE Mention \/ Damage \/ UNCHANGED vars
  BY <1>2, <1>5 DEF Mention, Damage, Edit, vars, memory, MemorySame, UsedInv
<1> QED
  BY <1>4, <1>5 DEF Next, CommandStep

LEMMA OutsideStep ==
    ASSUME TypeOK, NEW c \in Commands, CommandStep(c), pc[c] \notin Inside
    PROVE  UNCHANGED store
  BY LabelNames
     DEF CommandStep, Begin, TakeLock, Inspect, ScanIDs, Resolve, ReadDir, ReadIdentity, Select,
         MakeDir, PublishIdentity, Persist, PublishPlan, Answer, Crash

LEMMA ScanStep ==
    TypeOK /\ MemInv /\ LockInv /\ ScanInv /\ [Next]_vars => ScanInv'
<1> SUFFICES ASSUME TypeOK, MemInv, LockInv, ScanInv, [Next]_vars, excludes PROVE ScanInv'
  BY KeptStep DEF ScanInv, Kept
<1>0. \A e \in Commands : ScanOK(e) /\ (pc[e] \in Inside <=> lock = e)
  BY DEF LockInv, ScanInv
<1>1. ASSUME NEW e \in Commands, MemorySame(e), pc[e] \in Inside => UNCHANGED store
      PROVE  ScanOK(e)'
  BY <1>0, <1>1, LabelNames DEF ScanOK, MemorySame, Wanted, store
<1>2. ASSUME NEW c \in Commands, CommandStep(c) PROVE ScanOK(c)'
  <2>1. CASE pc'[c] \notin {"read", "mkdir", "identity"}
    BY <2>1 DEF ScanOK
  <2>2. ASSUME ReadDir(c), ~Exit(c) PROVE ScanOK(c)'
    <3>1. pc'[c] = "read" /\ pending'[c] = dirs /\ local'[c] = {} /\ dirs' = dirs
      BY <2>2 DEF ReadDir, Goto, store, TypeOK, MemoryOK, MemInv, MemOK
    <3> QED
      BY <3>1 DEF ScanOK
  <2>3. ASSUME ReadIdentity(c), ~Exit(c) PROVE ScanOK(c)'
    <3>1. PICK b \in pending[c] :
              /\ pending' = [pending EXCEPT ![c] = @ \ {b}]
              /\ local' = [local EXCEPT ![c] = @ \union {identity[b]}]
              /\ draft' = [draft EXCEPT ![c] = IF b = Wanted(c) THEN b ELSE @]
              /\ UNCHANGED <<pc, branch, chosen, store>> /\ pc[c] = "read"
      BY <2>3 DEF ReadIdentity
    <3>2. /\ pending'[c] = pending[c] \ {b} /\ local'[c] = local[c] \union {identity[b]}
          /\ draft'[c] = IF b = Wanted(c) THEN b ELSE draft[c]
          /\ Wanted(c)' = Wanted(c)
      BY <3>1 DEF TypeOK, MemoryOK, Wanted
    <3>3. b \in Branches /\ b # None /\ b \in dirs /\ ScanOK(c)
      BY <1>0, <3>1, NoneAssumption DEF TypeOK, MemoryOK, ScanOK
    <3>4. dirs' = dirs /\ identity' = identity /\ pc'[c] = "read"
      BY <3>1 DEF store
    <3>5. dirs \ pending'[c] = (dirs \ pending[c]) \union {b}
      BY <3>2, <3>3
    <3>6. pending'[c] \subseteq dirs
      BY <3>1, <3>2, <3>3 DEF ScanOK
    <3>7. \A x \in dirs \ pending'[c] : identity[x] \in local'[c]
      BY <3>1, <3>2, <3>3, <3>5 DEF ScanOK
    <3>8. \A t \in local'[c] : \E x \in dirs \ pending'[c] : identity[x] = t
      BY <3>1, <3>2, <3>3, <3>5 DEF ScanOK
    <3>9. Wanted(c) \in dirs \ pending'[c] => draft'[c] # None
      BY <3>1, <3>2, <3>3, <3>5 DEF ScanOK
    <3> QED
      BY <3>2, <3>4, <3>6, <3>7, <3>8, <3>9 DEF ScanOK
  <2>4. ASSUME Select(c), ~Exit(c) PROVE ScanOK(c)'
    <3>1. CASE pc'[c] = "persist"
      BY <2>1, <3>1
    <3>2. CASE pc'[c] # "persist"
      <4>1. /\ pc[c] = "read" /\ pending[c] = {} /\ pc'[c] = "mkdir"
            /\ local' = local /\ UNCHANGED store
        BY <2>4, <3>2 DEF Select, Goto, memory, TypeOK
      <4> QED
        BY <1>0, <4>1 DEF ScanOK, store
    <3> QED
      BY <3>1, <3>2
  <2>5. ASSUME MakeDir(c), ~Exit(c) PROVE ScanOK(c)'
    <3>1. PICK t \in TaskIDs : task' = [task EXCEPT ![c] = t] /\ t \notin local[c]
      BY <2>5 DEF MakeDir, Allocatable
    <3>2. /\ pc[c] = "mkdir" /\ pc'[c] = "identity" /\ task'[c] = t /\ identity' = identity
      BY <2>5, <3>1 DEF MakeDir, Goto, TypeOK, MemoryOK
    <3>3. \A b \in dirs : identity[b] \in local[c]
      BY <1>0, <3>2 DEF ScanOK
    <3>4. \A b \in Branches : identity[b] # t
      BY <3>1, <3>3, NoneAssumption DEF TypeOK
    <3> QED
      BY <3>2, <3>4 DEF ScanOK
  <2>6. CASE Exit(c)
    BY <2>1, <2>6, ExitStep DEF TypeOK, Blanked
  <2>7. CASE /\ Begin(c) \/ TakeLock(c) \/ Inspect(c) \/ ScanIDs(c)
                \/ PublishIdentity(c) \/ Persist(c) \/ PublishPlan(c)
             /\ ~Exit(c)
    BY <2>1, <2>7 DEF Begin, TakeLock, Inspect, ScanIDs, PublishIdentity, Persist,
                      PublishPlan, Goto, TypeOK
  <2> QED
    BY <1>2, <2>2, <2>3, <2>4, <2>5, <2>6, <2>7 DEF CommandStep, Resolve, Answer, Crash
<1>3. ASSUME NEW c \in Commands, CommandStep(c) PROVE ScanInv'
  <2>1. ASSUME NEW e \in Commands \ {c} PROVE ScanOK(e)'
    <3>1. pc[e] \in Inside => pc[c] \notin Inside
      BY <1>0
    <3> QED
      BY <1>1, <1>3, <3>1, ControlStep, OutsideStep DEF Others
  <2> QED
    BY <1>2, <1>3, <2>1 DEF ScanInv
<1>4. CASE Mention \/ Damage \/ UNCHANGED vars
  BY <1>1, <1>4 DEF Mention, Damage, Edit, vars, memory, MemorySame, ScanInv
<1> QED
  BY <1>3, <1>4 DEF Next, CommandStep

LEMMA IdentityStep ==
    ASSUME [Next]_vars, ~\E c \in Commands : PublishIdentity(c) PROVE identity' = identity
  BY DEF Next, Begin, TakeLock, Inspect, ScanIDs, Resolve, ReadDir, ReadIdentity,
         Select, MakeDir, Persist, PublishPlan, Answer, Crash, store,
         Mention, Damage, Edit, vars

LEMMA UniqueStep ==
    TypeOK /\ MemInv /\ ScanInv /\ UniqueTasks /\ [Next]_vars => UniqueTasks'
<1> SUFFICES ASSUME TypeOK, MemInv, ScanInv, UniqueTasks, [Next]_vars, excludes
             PROVE  UniqueTasks'
  BY KeptStep DEF UniqueTasks, Kept
<1>1. CASE identity' = identity
  BY <1>1 DEF UniqueTasks
<1>2. ASSUME NEW c \in Commands, PublishIdentity(c), identity' # identity PROVE UniqueTasks'
  <2>1. identity' = [identity EXCEPT ![draft[c]] = task[c]] /\ pc[c] = "identity"
    BY <1>2 DEF PublishIdentity
  <2>2. \A b \in Branches : identity[b] # task[c]
    BY <2>1 DEF ScanInv, ScanOK
  <2> QED
    BY <2>1, <2>2 DEF UniqueTasks, TypeOK
<1> QED
  BY <1>1, <1>2, IdentityStep

LEMMA WholeStep ==
    TypeOK /\ MemInv /\ WholeInv /\ [Next]_vars => WholeInv'
<1> SUFFICES ASSUME TypeOK, MemInv, WholeInv, [Next]_vars, excludes, faults' = 0,
                    NEW b \in dirs', identity'[b] = None
             PROVE  \E c \in Commands : pc'[c] = "identity" /\ draft'[c] = b
  BY KeptStep DEF WholeInv, Kept
<1>0. b \in Branches /\ (b \in dirs => identity[b] = None)
  BY TypeStep, KeptStep DEF TypeOK, Kept
<1>1. faults = 0 /\ ~Fault
  <2>1. ~Fault
    BY DEF Fault, TypeOK
  <2>2. Fault \/ faults' = faults
    BY DEF Next, Begin, TakeLock, Inspect, ScanIDs, Resolve, ReadDir, ReadIdentity, Select,
           MakeDir, PublishIdentity, Persist, PublishPlan, Answer, Crash, Mention, Damage,
           Edit, vars
  <2> QED
    BY <2>1, <2>2
<1>2. ASSUME b \in dirs, ~\E c \in Commands : PublishIdentity(c)
      PROVE  \E c \in Commands : pc'[c] = "identity" /\ draft'[c] = b
  <2>1. PICK e \in Commands : pc[e] = "identity" /\ draft[e] = b
    BY <1>0, <1>1, <1>2 DEF WholeInv
  <2>2. CASE \E c \in Commands \ {e} : CommandStep(c)
    BY <2>1, <2>2, ControlStep DEF Others, MemorySame
  <2>3. CASE UNCHANGED <<pc, memory>>
    BY <2>1, <2>3 DEF memory
  <2>4. CASE CommandStep(e)
    BY <1>1, <1>2, <2>1, <2>4
       DEF CommandStep, Begin, TakeLock, Inspect, ScanIDs, Resolve, ReadDir, ReadIdentity,
           Select, MakeDir, Persist, PublishPlan, Answer, Crash
  <2> QED
    BY <2>2, <2>3, <2>4 DEF Next, CommandStep, Mention, Damage, Edit, vars
<1>3. ASSUME NEW c \in Commands, PublishIdentity(c)
      PROVE  \E d \in Commands : pc'[d] = "identity" /\ draft'[d] = b
  <2>1. pc[c] = "identity" /\ dirs' = dirs /\ draft[c] \in Branches /\ task[c] # None
    BY <1>3, NoneAssumption DEF PublishIdentity, MemInv, MemOK, TypeOK, MemoryOK
  <2>2. PICK e \in Commands : pc[e] = "identity" /\ draft[e] = b
    BY <1>0, <1>1, <2>1 DEF WholeInv
  <2>3. draft[c] # b
    BY <1>0, <1>1, <1>3, <2>1 DEF PublishIdentity, TypeOK
  <2>4. MemorySame(e)
    BY <1>3, <2>2, <2>3, ControlStep DEF CommandStep, Resolve, Others
  <2> QED
    BY <2>2, <2>4 DEF MemorySame
<1>4. ASSUME b \notin dirs
      PROVE  \E c \in Commands : pc'[c] = "identity" /\ draft'[c] = b
  <2>1. PICK c \in Commands : MakeDir(c)
    BY <1>4
       DEF Next, Begin, TakeLock, Inspect, ScanIDs, Resolve, ReadDir, ReadIdentity, Select,
           PublishIdentity, Persist, PublishPlan, Answer, Crash, Mention, Damage,
           Edit, store, vars
  <2>2. /\ dirs' = dirs \union {branch[c]} /\ draft' = [draft EXCEPT ![c] = branch[c]]
        /\ Goto(c, "identity")
    BY <1>1, <2>1 DEF MakeDir
  <2> QED
    BY <1>4, <2>2 DEF Goto, TypeOK, MemoryOK
<1> QED
  BY <1>2, <1>3, <1>4

-----------------------------------------------------------------------------
LEMMA LoneStep ==
    TypeOK /\ ScanInv /\ LoneInv /\ [Next]_vars => LoneInv'
<1> SUFFICES ASSUME TypeOK, ScanInv, LoneInv, [Next]_vars, excludes,
                    NEW a \in dirs', NEW b \in dirs', identity'[a] = None, identity'[b] = None
             PROVE  a = b
  BY KeptStep DEF LoneInv, Kept
<1>0. \A x \in {a, b} : x \in dirs => identity[x] = None
  BY KeptStep DEF TypeOK, Kept
<1>1. CASE dirs' = dirs
  BY <1>0, <1>1 DEF LoneInv
<1>2. CASE dirs' # dirs
  <2>1. PICK c \in Commands : MakeDir(c)
    BY <1>2
       DEF Next, Begin, TakeLock, Inspect, ScanIDs, Resolve, ReadDir, ReadIdentity, Select,
           PublishIdentity, Persist, PublishPlan, Answer, Crash, Mention, Damage,
           Edit, store, vars
  <2>2. dirs' \subseteq dirs \union {branch[c]} /\ pc[c] = "mkdir"
    BY <2>1 DEF MakeDir
  <2>3. \A x \in dirs : identity[x] \in local[c]
    BY <2>2 DEF ScanInv, ScanOK
  <2>4. None \notin local[c]
    BY NoneAssumption DEF TypeOK, MemoryOK
  <2> QED
    BY <1>0, <2>2, <2>3, <2>4
<1> QED
  BY <1>1, <1>2

LEMMA DraftInit == Init => DraftInv
<1> SUFFICES ASSUME Init PROVE DraftInv
  OBVIOUS
<1>1. TypeOK
  BY BoundsAssumption DEF Init, TypeOK, MemoryOK, Labels, Blank
<1>2. LockInv
  BY NoneAssumption, LabelNames DEF Init, LockInv, Blank
<1>3. MemInv /\ UsedInv /\ ScanInv
  BY LabelNames DEF Init, MemInv, MemOK, UsedInv, ScanInv, ScanOK, Blank
<1>4. UniqueTasks /\ WholeInv /\ LoneInv
  BY DEF Init, UniqueTasks, WholeInv, LoneInv
<1> QED
  BY <1>1, <1>2, <1>3, <1>4 DEF DraftInv

LEMMA DraftNext == DraftInv /\ [Next]_vars => DraftInv'
  BY TypeStep, LockStep, MemStep, UsedStep, ScanStep, UniqueStep, WholeStep, LoneStep DEF DraftInv

THEOREM DraftInductive == Spec => []DraftInv
  BY DraftInit, DraftNext, PTL DEF Spec

\* What the drafts assume of the project lock is what ExclusiveLock states and
\* ProjectLock implements.
THEOREM DraftsTakeLock == Spec /\ excludes => TakesLock
<1>1. Init => Lock!Init
  BY DEF Init, Lock!Init
<1>2. DraftInv /\ [Next]_vars /\ excludes => excludes'
  BY KeptStep DEF DraftInv, Kept
<1>3. [Next]_vars /\ excludes => [Lock!Next]_lock
  <2> SUFFICES ASSUME [Next]_vars, excludes PROVE [Lock!Next]_lock
    OBVIOUS
  <2>1. ASSUME NEW c \in Commands, Exit(c) PROVE [Lock!Next]_lock
    BY <2>1 DEF Exit, Lock!Next, Lock!Leave
  <2>2. ASSUME NEW c \in Commands, TakeLock(c) PROVE [Lock!Next]_lock
    BY <2>1, <2>2 DEF TakeLock, Lock!Next, Lock!Take
  <2>3. ASSUME NEW c \in Commands, CommandStep(c), ~TakeLock(c) PROVE [Lock!Next]_lock
    <3>1. Exit(c) \/ UNCHANGED lock
      BY <2>3 DEF CommandStep, Begin, Inspect, ScanIDs, Resolve, ReadDir, ReadIdentity, Select,
                  MakeDir, PublishIdentity, Persist, PublishPlan, Answer, Crash, memory
    <3> QED
      BY <2>1, <3>1
  <2>4. CASE Mention \/ Damage \/ UNCHANGED vars
    BY <2>4 DEF Mention, Damage, Edit, vars
  <2> QED
    BY <2>2, <2>3, <2>4 DEF Next, CommandStep
<1> QED
  BY <1>1, <1>2, <1>3, DraftInductive, PTL DEF Spec, TakesLock, Lock!Spec

\* Each step of a command is one of the registry's, or none.
LEMMA RegistryStep ==
    ASSUME DraftInv, excludes, [Next]_vars PROVE [Registry!Next]_(Registry!vars)
<1>0. TypeOK /\ MemInv /\ ScanInv
  BY DEF DraftInv
<1>1. CASE UNCHANGED <<identity, plans>>
  BY <1>1 DEF Registry!vars
<1>2. ASSUME NEW c \in Commands, PublishIdentity(c) PROVE [Registry!Next]_(Registry!vars)
  <2>1. CASE UNCHANGED identity
    BY <1>1, <1>2, <2>1 DEF PublishIdentity
  <2>2. CASE identity' = [identity EXCEPT ![draft[c]] = task[c]] /\ identity[draft[c]] = None
    <3>1. /\ MemOK(c) /\ ScanOK(c) /\ pc[c] = "identity"
          /\ task[c] \in TaskIDs \union {None} /\ dirs \subseteq Branches
      BY <1>0, <1>2 DEF PublishIdentity, MemInv, ScanInv, TypeOK, MemoryOK
    <3>2. draft[c] \in Branches /\ task[c] \in TaskIDs
      BY <3>1 DEF MemOK
    <3>3. Registry!Register(draft[c], task[c])
      BY <1>2, <2>2, <3>1 DEF PublishIdentity, ScanOK, Registry!Register
    <3> QED
      BY <3>2, <3>3 DEF Registry!Next
  <2> QED
    BY <1>2, <2>1, <2>2 DEF PublishIdentity
<1>3. ASSUME NEW c \in Commands, PublishPlan(c) PROVE [Registry!Next]_(Registry!vars)
  <2>1. CASE UNCHANGED plans
    BY <1>1, <1>3, <2>1 DEF PublishPlan
  <2>2. CASE /\ plans[draft[c]][spec[c]] = None
             /\ plans' = [plans EXCEPT ![draft[c]][spec[c]] = planned[c]]
    <3>1. /\ MemOK(c) /\ pc[c] = "plan"
          /\ spec[c] \in Specs /\ planned[c] \in PlanIDs
          /\ draft[c] \in Branches /\ identity[draft[c]] # None
      BY <1>0, <1>3, LabelNames DEF PublishPlan, MemInv, MemOK, TypeOK, MemoryOK
    <3>2. Registry!File(draft[c], spec[c], planned[c])
      BY <1>3, <2>2, <3>1 DEF PublishPlan, Registry!File
    <3> QED
      BY <3>1, <3>2 DEF Registry!Next
  <2> QED
    BY <1>3, <2>1, <2>2 DEF PublishPlan
<1>4. ASSUME NEW c \in Commands, CommandStep(c), ~PublishIdentity(c), ~PublishPlan(c)
      PROVE  UNCHANGED <<identity, plans>>
  BY <1>4 DEF CommandStep, Begin, TakeLock, Inspect, ScanIDs, Resolve, ReadDir, ReadIdentity,
              Select, MakeDir, Persist, Answer, Crash, store
<1>5. CASE Mention \/ Damage \/ UNCHANGED vars
  BY <1>1, <1>5 DEF Mention, Damage, Edit, vars, store
<1> QED
  BY <1>1, <1>2, <1>3, <1>4, <1>5 DEF Next, CommandStep

\* Commands that interleave, die and fail keep the registry that DraftRegistry states.
THEOREM DraftsAreRegistered == Spec /\ excludes => KeepsRegistry
<1>1. Init => Registry!Init
  BY DEF Init, Registry!Init
<1>2. DraftInv /\ [Next]_vars /\ excludes => excludes'
  BY KeptStep DEF DraftInv, Kept
<1> QED
  BY <1>1, <1>2, RegistryStep, DraftInductive, PTL DEF Spec, KeepsRegistry, Registry!Spec

\* Every variable keeps to its type, and a published record has its directory.
THEOREM DraftTypes == Spec => []TypeOK
<1>1. DraftInv => TypeOK
  BY DEF DraftInv
<1> QED
  BY <1>1, DraftInductive, PTL

\* No two drafts share a Task ID.
THEOREM TasksAreUnique == Spec => []UniqueTasks
<1>1. DraftInv => UniqueTasks
  BY DEF DraftInv
<1> QED
  BY <1>1, DraftInductive, PTL

\* What is answered is on disk.
THEOREM AnswerIsStored == Spec => []AnswerStored
<1>1. DraftInv => AnswerStored
  BY DEF DraftInv, MemInv, MemOK, AnswerStored
<1> QED
  BY <1>1, DraftInductive, PTL

\* Commands that nothing disturbs leave no draft half made, and crashes and I/O
\* errors, however many, never more than one.
THEOREM DraftsAreWhole == Spec => []WholeDrafts
<1>1. DraftInv => WholeDrafts
  <2> SUFFICES ASSUME DraftInv, excludes
               PROVE  /\ faults = 0 /\ lock = None => \A b \in dirs : identity[b] # None
                      /\ \A a, b \in dirs : identity[a] = None /\ identity[b] = None => a = b
    BY DEF WholeDrafts
  <2>1. ASSUME faults = 0, lock = None, NEW b \in dirs, identity[b] = None PROVE FALSE
    <3>1. PICK c \in Commands : pc[c] = "identity"
      BY <2>1 DEF DraftInv, WholeInv
    <3> QED
      BY <2>1, <3>1, NoneAssumption, LabelNames DEF DraftInv, LockInv
  <2> QED
    BY <2>1 DEF DraftInv, LoneInv
<1> QED
  BY <1>1, DraftInductive, PTL

\* A draft keeps its Task ID and a revision its plan, with or without a lock.
THEOREM RecordsStay == Spec => RecordsImmutable
<1>1. DraftInv /\ [Next]_vars =>
        [/\ \A b \in Branches : identity[b] # None => identity'[b] = identity[b]
         /\ \A b \in Branches, s \in Specs :
              plans[b][s] # None => plans'[b][s] = plans[b][s]]_vars
  BY KeptStep DEF DraftInv, Kept
<1> QED
  BY <1>1, DraftInductive, PTL DEF Spec, RecordsImmutable

\* A draft that is there is refused only for drafts without an intact identity, or
\* for too many of them.
THEOREM RefusedForDamage == Spec => ResumeUnlessDamaged
<1> DEFINE Excuse == \/ Cardinality(dirs) > MaxDrafts
                     \/ \E b \in dirs : identity[b] = None \/ b \in damaged
<1>1. ASSUME DraftInv, [Next]_vars, excludes, NEW c \in Commands, RefusesDraft(c), ~Excuse
      PROVE  FALSE
  <2> DEFINE w == Wanted(c)
  <2>1. /\ pc[c] \in {"readdir", "read"} /\ pc'[c] = "out" /\ faults' = faults
        /\ w \in Branches /\ identity[w] # None
        /\ \A m \in mentions : m[1] = identity[w] => m[2] = branch[c]
    BY <1>1 DEF RefusesDraft
  <2>2. TypeOK /\ MemInv /\ ScanOK(c) /\ UniqueTasks /\ w \in dirs
    BY <1>1, <2>1 DEF DraftInv, ScanInv, TypeOK
  <2>3. identity[w] \notin used[c]
    BY <1>1, <2>1 DEF DraftInv, UsedInv
  <2>4. ~Fault
    BY <2>1, <2>2 DEF Fault, TypeOK
  <2>5. CommandStep(c)
    <3>1. ASSUME NEW e \in Commands \ {c}, CommandStep(e) PROVE FALSE
      BY <2>1, <2>2, <3>1, ControlStep DEF Others, MemorySame
    <3> QED
      BY <1>1, <2>1, <3>1 DEF Next, CommandStep, Mention, Damage, Edit, vars
  <2>6. ReadDir(c) \/ ReadIdentity(c) \/ Select(c)
    BY <2>1, <2>4, <2>5 DEF CommandStep, Begin, TakeLock, Inspect, ScanIDs, Resolve, MakeDir,
                            PublishIdentity, Persist, PublishPlan, Answer, Crash
  <2>7. CASE ReadDir(c)
    BY <1>1, <2>1, <2>2, <2>4, <2>7 DEF ReadDir, Goto, TypeOK
  <2>8. CASE ReadIdentity(c)
    <3>1. PICK b \in pending[c] :
             \/ identity[b] = None \/ b \in damaged
             \/ identity[b] \in local[c]
             \/ b = w /\ identity[b] \in used[c]
      BY <2>1, <2>4, <2>8 DEF ReadIdentity
    <3>2. b \in dirs /\ b \in Branches /\ identity[b] # None /\ b \notin damaged
      BY <1>1, <2>2, <2>8, <3>1 DEF ReadIdentity, ScanOK, TypeOK
    <3>3. CASE identity[b] \in local[c]
      <4>1. PICK x \in dirs \ pending[c] : identity[x] = identity[b]
        BY <2>2, <2>8, <3>3 DEF ReadIdentity, ScanOK
      <4> QED
        BY <1>1, <2>2, <3>2, <4>1 DEF UniqueTasks, TypeOK
    <3> QED
      BY <2>3, <3>1, <3>2, <3>3
  <2>9. CASE Select(c)
    <3>1. pc[c] = "read" /\ pending[c] = {} /\ draft[c] = None
      BY <2>1, <2>2, <2>9 DEF Select, Goto, TypeOK
    <3> QED
      BY <2>2, <3>1 DEF ScanOK
  <2> QED
    BY <2>6, <2>7, <2>8, <2>9
<1>2. DraftInv /\ [Next]_vars =>
        [excludes => \A c \in Commands : RefusesDraft(c) =>
            Cardinality(dirs) > MaxDrafts \/ \E b \in dirs : identity[b] = None \/ b \in damaged]_vars
  BY <1>1
<1> HIDE DEF Excuse
<1> QED
  BY <1>2, DraftInductive, PTL DEF Spec, ResumeUnlessDamaged

\* Directories are made one by one.
LEMMA DirsFinite == Spec => []IsFiniteSet(dirs)
<1>1. Init => IsFiniteSet(dirs)
  BY FS_EmptySet DEF Init
<1>2. DraftInv /\ [Next]_vars /\ IsFiniteSet(dirs) => IsFiniteSet(dirs)'
  BY KeptStep, FS_AddElement DEF DraftInv, Kept
<1> QED
  BY <1>1, <1>2, DraftInductive, PTL DEF Spec

LEMMA CalmRefusesNone ==
    ASSUME DraftInv, IsFiniteSet(dirs), excludes, faults = 0, damaged = {}, Cardinality(dirs) <= MaxDrafts,
           NEW c \in Commands, RefusesDraft(c),
           Cardinality(dirs) > MaxDrafts \/ \E b \in dirs : identity[b] = None \/ b \in damaged
    PROVE  FALSE
<1>1. PICK b \in dirs : identity[b] = None
  BY FS_CardinalityType, BoundsAssumption
<1>2. PICK e \in Commands : pc[e] = "identity"
  BY <1>1 DEF DraftInv, WholeInv
<1>3. pc[c] \in {"readdir", "read"}
  BY DEF RefusesDraft
<1> QED
  BY <1>2, <1>3, LabelNames, NoneAssumption DEF DraftInv, LockInv

\* README.md's promise, where nothing failed, no identity was changed and the drafts
\* are not too many: the limit is all that keeps a draft from being used again.
THEOREM LimitIsAllThatRefuses ==
    Spec /\ [](faults = 0 /\ damaged = {} /\ Cardinality(dirs) <= MaxDrafts) => Reusable
<1>1. DraftInv /\ IsFiniteSet(dirs) /\ (faults = 0 /\ damaged = {} /\ Cardinality(dirs) <= MaxDrafts)
      /\ [excludes => \A c \in Commands : RefusesDraft(c) =>
            Cardinality(dirs) > MaxDrafts \/ \E b \in dirs : identity[b] = None \/ b \in damaged]_vars
        => [excludes => \A c \in Commands : ~RefusesDraft(c)]_vars
  BY CalmRefusesNone
<1> QED
  BY <1>1, DraftInductive, DirsFinite, RefusedForDamage, PTL DEF ResumeUnlessDamaged, Reusable

\* So a project of no more branches than the limit never meets it.
THEOREM FewBranchesReuse ==
    ASSUME IsFiniteSet(Branches), Cardinality(Branches) <= MaxDrafts
    PROVE  Spec /\ [](faults = 0 /\ damaged = {}) => Reusable
<1>1. DraftInv => Cardinality(dirs) <= MaxDrafts
  <2> SUFFICES ASSUME DraftInv PROVE Cardinality(dirs) <= MaxDrafts
    OBVIOUS
  <2>1. dirs \subseteq Branches
    BY DEF DraftInv, TypeOK
  <2>2. IsFiniteSet(dirs) /\ Cardinality(dirs) <= Cardinality(Branches)
    BY <2>1, FS_Subset
  <2>3. Cardinality(dirs) \in Nat /\ Cardinality(Branches) \in Nat
    BY <2>2, FS_CardinalityType
  <2> QED
    BY <2>2, <2>3, BoundsAssumption
<1> QED
  BY <1>1, LimitIsAllThatRefuses, DraftInductive, PTL
=============================================================================
