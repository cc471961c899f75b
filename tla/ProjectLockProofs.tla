-------------------------- MODULE ProjectLockProofs --------------------------
(***************************************************************************)
(* Where an open file cannot be removed the project lock excludes: all     *)
(* commands that have lock.json open have the same file open.  Where it    *)
(* can be removed TLC finds the counterexample (run lock_race).            *)
(***************************************************************************)
EXTENDS ProjectLock, TLAPS

LEMMA LabelFacts ==
    /\ Holding \subseteq Open
    /\ Open \subseteq Labels
    /\ "out" \notin Open /\ "remove" \notin Open
    /\ "out" \in Labels /\ "remove" \in Labels
    /\ "lock" \in Open \ Holding /\ "close" \in Open \ Holding
    /\ {"write", "held", "check", "unlock"} \subseteq Holding
  BY DEF Holding, Open, Labels

LEMMA TypeInit == Init => TypeOK
  BY NoneAssumption, FaultsAssumption, LabelFacts DEF Init, TypeOK

\* What is left of a process once the kernel has dropped it.
LEMMA DropType ==
    ASSUME TypeOK, NEW p \in Procs, Drop(p)
    PROVE  /\ pc' \in [Procs -> Labels]
           /\ fd' \in [Procs -> Files \union {None}]
           /\ owner' \in [Files -> Procs \union {None}]
           /\ sure' \in [Procs -> BOOLEAN]
           /\ \A q \in Procs : fd'[q] # None <=> pc'[q] \in Open
<1>1. /\ pc' \in [Procs -> Labels]
      /\ fd' \in [Procs -> Files \union {None}]
  BY LabelFacts DEF TypeOK, Drop, Goto
<1>2. owner' \in [Files -> Procs \union {None}]
  BY DEF TypeOK, Drop
<1>3. sure' \in [Procs -> BOOLEAN]
  BY DEF TypeOK, Drop
<1>4. \A q \in Procs : fd'[q] # None <=> pc'[q] \in Open
  BY LabelFacts DEF TypeOK, Drop, Goto
<1> QED
  BY <1>1, <1>2, <1>3, <1>4

LEMMA TypeNext == TypeOK /\ [Next]_vars => TypeOK'
<1> SUFFICES ASSUME TypeOK, [Next]_vars PROVE TypeOK'
  OBVIOUS
<1> USE NoneAssumption, FaultsAssumption, LabelFacts DEF TypeOK, Goto, Fault
<1>1. ASSUME NEW p \in Procs, OpenFile(p) PROVE TypeOK'
  BY <1>1 DEF OpenFile, Fresh
<1>2. ASSUME NEW p \in Procs, TryLock(p) PROVE TypeOK'
  <2>1. fd[p] \in Files
    BY <1>2 DEF TryLock
  <2>2. CASE owner[fd[p]] = None
    BY <1>2, <2>1, <2>2 DEF TryLock
  <2>3. CASE owner[fd[p]] # None
    BY <1>2, <2>3, DropType DEF TryLock
  <2> QED
    BY <2>2, <2>3
<1>3. ASSUME NEW p \in Procs, WriteToken(p) PROVE TypeOK'
  <2>1. fd[p] \in Files
    BY <1>3 DEF WriteToken
  <2>2. token' \in [Files -> Procs \union {None}]
    BY <1>3, <2>1 DEF WriteToken
  <2>3. CASE Drop(p) /\ faults' \in 0..MaxFaults
    BY <1>3, <2>2, <2>3, DropType DEF WriteToken
  <2>4. CASE Goto(p, "held") /\ UNCHANGED <<fd, owner, sure, faults>>
    BY <1>3, <2>2, <2>4 DEF WriteToken
  <2> QED
    BY <1>3, <2>3, <2>4 DEF WriteToken
<1>4. ASSUME NEW p \in Procs, Finish(p) PROVE TypeOK'
  BY <1>4 DEF Finish
<1>5. ASSUME NEW p \in Procs, CheckOwner(p) PROVE TypeOK'
  <2>1. sure' \in [Procs -> BOOLEAN]
    <3>1. CASE sure' = [sure EXCEPT ![p] = token[fd[p]] = p]
      <4> DEFINE t == token[fd[p]] = p
      <4>1. t \in BOOLEAN
        OBVIOUS
      <4> HIDE DEF t
      <4>2. sure' = [sure EXCEPT ![p] = t]
        BY <3>1 DEF t
      <4> QED
        BY <4>1, <4>2
    <3>2. CASE sure' = [sure EXCEPT ![p] = FALSE]
      BY <3>2
    <3> QED
      BY <1>5, <3>1, <3>2 DEF CheckOwner
  <2>2. faults' \in 0..MaxFaults
    BY <1>5 DEF CheckOwner
  <2> QED
    BY <1>5, <2>1, <2>2 DEF CheckOwner
<1>6. ASSUME NEW p \in Procs, Unlock(p) PROVE TypeOK'
  BY <1>6 DEF Unlock
<1>7. ASSUME NEW p \in Procs, CloseFile(p) PROVE TypeOK'
  BY <1>7 DEF CloseFile
<1>8. ASSUME NEW p \in Procs, RemovePath(p) PROVE TypeOK'
  BY <1>8 DEF RemovePath
<1>9. ASSUME NEW p \in Procs, Crash(p) PROVE TypeOK'
  BY <1>9, DropType DEF Crash
<1>10. CASE UNCHANGED vars
  BY <1>10 DEF vars
<1> QED
  BY <1>1, <1>2, <1>3, <1>4, <1>5, <1>6, <1>7, <1>8, <1>9, <1>10 DEF Next, Step

LEMMA HoldsNext == TypeOK /\ HoldsLock /\ [Next]_vars => HoldsLock'
<1> SUFFICES ASSUME TypeOK, HoldsLock, [Next]_vars PROVE HoldsLock'
  OBVIOUS
<1> USE NoneAssumption DEF TypeOK, HoldsLock, Goto, Holding
<1>1. ASSUME NEW p \in Procs, OpenFile(p) PROVE HoldsLock'
  BY <1>1 DEF OpenFile
<1>2. ASSUME NEW p \in Procs, TryLock(p) PROVE HoldsLock'
  <2>1. fd[p] \in Files
    BY <1>2, LabelFacts DEF TryLock
  <2>2. CASE owner[fd[p]] = None
    <3>1. /\ owner' = [owner EXCEPT ![fd[p]] = p] /\ pc' = [pc EXCEPT ![p] = "write"]
          /\ fd' = fd
      BY <1>2, <2>2 DEF TryLock
    <3>2. owner'[fd'[p]] = p
      BY <2>1, <3>1
    <3>3. ASSUME NEW q \in Procs \ {p}, pc'[q] \in Holding PROVE owner'[fd'[q]] = q
      <4>1. pc[q] \in Holding
        BY <3>1, <3>3
      <4>2. fd[q] \in Files /\ owner[fd[q]] = q
        BY <4>1, LabelFacts
      <4> QED
        BY <2>1, <2>2, <3>1, <4>2
    <3> QED
      BY <3>2, <3>3
  <2>3. CASE Drop(p)
    BY <1>2, <2>3, LabelFacts DEF Drop
  <2> QED
    BY <1>2, <2>2, <2>3 DEF TryLock
<1>3. ASSUME NEW p \in Procs, WriteToken(p) PROVE HoldsLock'
  <2>1. CASE Drop(p)
    BY <2>1, LabelFacts DEF Drop
  <2> QED
    BY <1>3, <2>1 DEF WriteToken
<1>4. ASSUME NEW p \in Procs, Finish(p) PROVE HoldsLock'
  BY <1>4 DEF Finish
<1>5. ASSUME NEW p \in Procs, CheckOwner(p) PROVE HoldsLock'
  BY <1>5 DEF CheckOwner
<1>6. ASSUME NEW p \in Procs, Unlock(p) PROVE HoldsLock'
  BY <1>6 DEF Unlock
<1>7. ASSUME NEW p \in Procs, CloseFile(p) PROVE HoldsLock'
  BY <1>7 DEF CloseFile
<1>8. ASSUME NEW p \in Procs, RemovePath(p) PROVE HoldsLock'
  BY <1>8 DEF RemovePath
<1>9. ASSUME NEW p \in Procs, Crash(p) PROVE HoldsLock'
  BY <1>9, LabelFacts DEF Crash, Drop
<1>10. CASE UNCHANGED vars
  BY <1>10 DEF vars
<1> QED
  BY <1>1, <1>2, <1>3, <1>4, <1>5, <1>6, <1>7, <1>8, <1>9, <1>10 DEF Next, Step

\* A file that is open keeps its name through the step ...
NameStays == path # None /\ path' = None => \A q \in Procs : fd[q] # path

\* ... on a platform that has it so.
LEMMA NameKept == ASSUME ~UnlinkOpen PROVE TypeOK /\ [Next]_vars => NameStays
<1> SUFFICES ASSUME TypeOK, [Next]_vars, path # None, path' = None
             PROVE  \A q \in Procs : fd[q] # path
  BY DEF NameStays
<1>1. PICK p \in Procs : RemovePath(p)
  BY NoneAssumption DEF Next, Step, OpenFile, TryLock, WriteToken, Finish, CheckOwner, Unlock,
                        CloseFile, Crash, vars
<1> QED
  BY <1>1 DEF RemovePath, Removable

\* Only here it matters.
LEMMA SameFileNext == TypeOK /\ SameFile /\ [Next]_vars /\ NameStays => SameFile'
<1> SUFFICES ASSUME TypeOK, SameFile, [Next]_vars, NameStays PROVE SameFile'
  OBVIOUS
<1> USE NoneAssumption DEF TypeOK, SameFile, Goto
<1>1. ASSUME NEW p \in Procs, OpenFile(p) PROVE SameFile'
  BY <1>1 DEF OpenFile
<1>2. ASSUME NEW p \in Procs, TryLock(p) PROVE SameFile'
  BY <1>2 DEF TryLock, Drop
<1>3. ASSUME NEW p \in Procs, WriteToken(p) PROVE SameFile'
  BY <1>3 DEF WriteToken, Drop
<1>4. ASSUME NEW p \in Procs, Finish(p) PROVE SameFile'
  BY <1>4 DEF Finish
<1>5. ASSUME NEW p \in Procs, CheckOwner(p) PROVE SameFile'
  BY <1>5 DEF CheckOwner
<1>6. ASSUME NEW p \in Procs, Unlock(p) PROVE SameFile'
  BY <1>6 DEF Unlock
<1>7. ASSUME NEW p \in Procs, CloseFile(p) PROVE SameFile'
  BY <1>7 DEF CloseFile
<1>8. ASSUME NEW p \in Procs, RemovePath(p) PROVE SameFile'
  BY <1>8 DEF RemovePath, NameStays
<1>9. ASSUME NEW p \in Procs, Crash(p) PROVE SameFile'
  BY <1>9 DEF Crash, Drop
<1>10. CASE UNCHANGED vars
  BY <1>10 DEF vars
<1> QED
  BY <1>1, <1>2, <1>3, <1>4, <1>5, <1>6, <1>7, <1>8, <1>9, <1>10 DEF Next, Step

LEMMA TokenNext == TypeOK /\ HoldsLock /\ TokenIntact /\ [Next]_vars => TokenIntact'
<1> SUFFICES ASSUME TypeOK, HoldsLock, TokenIntact, [Next]_vars PROVE TokenIntact'
  OBVIOUS
<1> USE NoneAssumption DEF TypeOK, TokenIntact, Goto
<1>1. ASSUME NEW p \in Procs, OpenFile(p) PROVE TokenIntact'
  BY <1>1, LabelFacts DEF OpenFile, Fresh
<1>2. ASSUME NEW p \in Procs, TryLock(p) PROVE TokenIntact'
  BY <1>2 DEF TryLock, Drop
<1>3. ASSUME NEW p \in Procs, WriteToken(p) PROVE TokenIntact'
  <2>1. \A q \in Procs \ {p} : pc[q] \in {"held", "check"} => fd[q] # fd[p]
    BY <1>3, LabelFacts DEF WriteToken, HoldsLock
  <2>2. fd[p] \in Files
    BY <1>3, LabelFacts DEF WriteToken
  <2>3. /\ \A q \in Procs \ {p} : pc'[q] = pc[q] /\ fd'[q] = fd[q]
        /\ \A f \in Files \ {fd[p]} : token'[f] = token[f]
    BY <1>3, <2>2 DEF WriteToken, Drop
  <2>4. pc'[p] \in {"held", "check"} => token'[fd'[p]] = p
    BY <1>3, <2>2 DEF WriteToken, Drop
  <2>5. \A q \in Procs : pc[q] \in {"held", "check"} => fd[q] \in Files
    BY LabelFacts
  <2> QED
    BY <2>1, <2>3, <2>4, <2>5
<1>4. ASSUME NEW p \in Procs, Finish(p) PROVE TokenIntact'
  BY <1>4 DEF Finish
<1>5. ASSUME NEW p \in Procs, CheckOwner(p) PROVE TokenIntact'
  BY <1>5 DEF CheckOwner
<1>6. ASSUME NEW p \in Procs, Unlock(p) PROVE TokenIntact'
  BY <1>6 DEF Unlock
<1>7. ASSUME NEW p \in Procs, CloseFile(p) PROVE TokenIntact'
  BY <1>7 DEF CloseFile
<1>8. ASSUME NEW p \in Procs, RemovePath(p) PROVE TokenIntact'
  BY <1>8 DEF RemovePath
<1>9. ASSUME NEW p \in Procs, Crash(p) PROVE TokenIntact'
  BY <1>9 DEF Crash, Drop
<1>10. CASE UNCHANGED vars
  BY <1>10 DEF vars
<1> QED
  BY <1>1, <1>2, <1>3, <1>4, <1>5, <1>6, <1>7, <1>8, <1>9, <1>10 DEF Next, Step

-----------------------------------------------------------------------------
\* Every variable of the lock keeps its type, on either platform.
THEOREM LockTypeCorrect == Spec => []TypeOK
  BY TypeInit, TypeNext, PTL DEF Spec

\* A process at work finds its own token in its file, on either platform: the
\* owner check of Release never meets another command's token.
THEOREM TokenStays == Spec => []TokenIntact
<1>1. Init => TypeOK /\ HoldsLock /\ TokenIntact
  BY TypeInit, LabelFacts DEF Init, HoldsLock, TokenIntact, Holding
<1>2. TypeOK /\ HoldsLock /\ TokenIntact /\ [Next]_vars
        => (TypeOK /\ HoldsLock /\ TokenIntact)'
  BY TypeNext, HoldsNext, TokenNext
<1> QED
  BY <1>1, <1>2, PTL DEF Spec

\* The lock's inductive invariant, on either platform: it needs no more than that
\* an open lock.json keeps its name.
THEOREM LockInductive == Spec /\ OpenNameStays => []LockInv
<1>1. Init => LockInv
  BY TypeInit, LabelFacts DEF Init, LockInv, HoldsLock, SameFile
<1>2. LockInv /\ [Next]_vars /\ [NameStays]_vars => LockInv'
  <2>1. UNCHANGED vars /\ LockInv => LockInv'
    BY DEF vars, LockInv, TypeOK, HoldsLock, SameFile
  <2> QED
    BY <2>1, TypeNext, HoldsNext, SameFileNext DEF LockInv
<1> QED
  BY <1>1, <1>2, PTL DEF Spec, OpenNameStays, NameStays

LEMMA HolderIsOne ==
    ASSUME LockInv, NEW p \in Procs, NEW q \in Procs, pc[p] \in Holding, pc[q] \in Holding
    PROVE  p = q
<1>1. fd[p] = path /\ fd[q] = path
  BY LabelFacts DEF LockInv, SameFile, TypeOK
<1>2. owner[fd[p]] = p /\ owner[fd[q]] = q
  BY LabelFacts DEF LockInv, HoldsLock
<1> QED
  BY <1>1, <1>2

\* Two commands work on one project at the same time only if one of them removes
\* a lock.json that another has open: any platform, any number of commands,
\* crashes and failed system calls.
THEOREM ExclusionByName == Spec /\ OpenNameStays => []MutualExclusion
<1>1. LockInv => MutualExclusion
  BY HolderIsOne, LabelFacts DEF MutualExclusion
<1> QED
  BY <1>1, LockInductive, PTL

LEMMA WindowsKeepsName == ASSUME ~UnlinkOpen PROVE Spec => OpenNameStays
<1>1. TypeOK /\ [Next]_vars => NameStays
  BY NameKept
<1> QED
  BY <1>1, LockTypeCorrect, PTL DEF Spec, OpenNameStays, NameStays

\* Two commands never work on one project, where an open file cannot be
\* removed.
THEOREM Exclusion ==
    ASSUME ~UnlinkOpen
    PROVE  Spec => []MutualExclusion
  BY ExclusionByName, WindowsKeepsName, PTL

-----------------------------------------------------------------------------
(* The protocol of lock.json implements the lock the other modules use.     *)

LEMMA LockInit == Init => Lock!Init
  BY LabelFacts DEF Init, Lock!Init, Holder, Holding

\* Who holds it, given that it is one.
HolderOK ==
    /\ \A p \in Procs : pc[p] \in Holding => Holder = p
    /\ (\A p \in Procs : pc[p] \notin Holding) => Holder = None

LEMMA HolderFacts == LockInv => HolderOK
<1> SUFFICES ASSUME LockInv PROVE HolderOK
  OBVIOUS
<1>1. ASSUME NEW p \in Procs, pc[p] \in Holding PROVE Holder = p
  <2>1. \A q \in Procs : pc[q] \in Holding => q = p
    BY <1>1, HolderIsOne
  <2> QED
    BY <1>1, <2>1 DEF Holder
<1> QED
  BY <1>1 DEF Holder, HolderOK

\* A step moves one process, into the section, out of it, or neither.
LEMMA MovesOne ==
    ASSUME TypeOK, [Next]_vars
    PROVE  \/ pc' = pc
           \/ \E p \in Procs : \A q \in Procs \ {p} : pc'[q] = pc[q]
<1>1. ASSUME NEW p \in Procs, OpenFile(p) \/ Step(p) \/ Crash(p)
      PROVE  \A q \in Procs \ {p} : pc'[q] = pc[q]
  BY <1>1 DEF TypeOK, OpenFile, Step, Crash, TryLock, WriteToken, Finish, CheckOwner, Unlock,
              CloseFile, RemovePath, Drop, Goto
<1> QED
  BY <1>1 DEF Next, vars

LEMMA LockStep ==
    ASSUME LockInv, LockInv', [Next]_vars PROVE [Lock!Next]_Holder
<1>1. CASE pc' = pc
  BY <1>1 DEF Holder
<1>2. ASSUME NEW p \in Procs, \A q \in Procs \ {p} : pc'[q] = pc[q]
      PROVE  [Lock!Next]_Holder
  <2>a. /\ \A q \in Procs : pc'[q] \in Holding => Holder' = q
        /\ (\A q \in Procs : pc'[q] \notin Holding) => Holder' = None
    <3>1. HolderOK'
      BY HolderFacts, PTL
    <3> QED
      BY <3>1 DEF HolderOK
  <2>1. CASE pc[p] \in Holding /\ pc'[p] \notin Holding
    <3>1. Holder = p /\ \A q \in Procs : pc'[q] \notin Holding
      BY <1>2, <2>1, HolderFacts, HolderIsOne DEF HolderOK
    <3>2. Lock!Leave(p)
      BY <2>a, <3>1 DEF Lock!Leave
    <3> QED
      BY <3>2 DEF Lock!Next
  <2>2. CASE pc[p] \notin Holding /\ pc'[p] \in Holding
    <3>1. Holder' = p
      BY <2>a, <2>2
    <3>2. \A q \in Procs : pc[q] \notin Holding
      BY <1>2, <2>2, <2>a, <3>1
    <3>3. Lock!Take(p)
      BY <3>1, <3>2, HolderFacts DEF HolderOK, Lock!Take
    <3> QED
      BY <3>3 DEF Lock!Next
  <2>3. CASE (pc[p] \in Holding) <=> (pc'[p] \in Holding)
    <3>1. \A q \in Procs : (pc[q] \in Holding) <=> (pc'[q] \in Holding)
      BY <1>2, <2>3
    <3>2. Holder' = Holder
      BY <2>a, <3>1, HolderFacts DEF HolderOK
    <3> QED
      BY <3>2
  <2> QED
    BY <2>1, <2>2, <2>3
<1> QED
  BY <1>1, <1>2, MovesOne DEF LockInv

\* The many system calls of Acquire and Release, with crashes and errors anywhere
\* among them, are the two steps of ExclusiveLock, as long as an open lock.json
\* keeps its name.
THEOREM LockByName == Spec /\ OpenNameStays => IsExclusiveLock
<1>1. LockInv /\ LockInv' /\ [Next]_vars => [Lock!Next]_Holder
  BY LockStep
<1> QED
  BY <1>1, LockInit, LockInductive, PTL DEF Spec, IsExclusiveLock, Lock!Spec

\* So it is where an open file cannot be removed.
THEOREM ImplementsLock == ASSUME ~UnlinkOpen PROVE Spec => IsExclusiveLock
  BY LockByName, WindowsKeepsName, PTL

-----------------------------------------------------------------------------
\* A lock belongs to a process that is past TryLock and has the file open.
OwnerInv ==
    \A f \in Files : owner[f] # None =>
        pc[owner[f]] \in Holding /\ fd[owner[f]] = f

LEMMA OwnerNext == TypeOK /\ HoldsLock /\ OwnerInv /\ [Next]_vars => OwnerInv'
<1> SUFFICES ASSUME TypeOK, HoldsLock, OwnerInv, [Next]_vars PROVE OwnerInv'
  OBVIOUS
<1> USE NoneAssumption DEF TypeOK, OwnerInv, Goto, Holding
\* What a process that ends had locked is free again; the others keep theirs.
<1>a. ASSUME NEW p \in Procs, Drop(p) PROVE OwnerInv'
  BY <1>a DEF Drop
<1>1. ASSUME NEW p \in Procs, OpenFile(p) PROVE OwnerInv'
  <2>1. pc[p] \notin Holding
    BY <1>1 DEF OpenFile
  <2>2. \A f \in Files : owner[f] # p
    BY <2>1
  <2>3. /\ owner' = owner
        /\ \A q \in Procs \ {p} : pc'[q] = pc[q] /\ fd'[q] = fd[q]
    BY <1>1 DEF OpenFile
  <2> QED
    BY <2>2, <2>3
<1>2. ASSUME NEW p \in Procs, TryLock(p) PROVE OwnerInv'
  <2>1. CASE Drop(p)
    BY <1>a, <2>1
  <2>2. CASE owner' = [owner EXCEPT ![fd[p]] = p] /\ pc' = [pc EXCEPT ![p] = "write"] /\ fd' = fd
    <3>1. fd[p] \in Files
      BY <1>2, LabelFacts DEF TryLock
    <3>2. \A f \in Files : owner'[f] = IF f = fd[p] THEN p ELSE owner[f]
      BY <2>2, <3>1
    <3>3. \A q \in Procs : pc'[q] = IF q = p THEN "write" ELSE pc[q]
      BY <2>2
    <3> QED
      BY <2>2, <3>1, <3>2, <3>3
  <2> QED
    BY <1>2, <2>1, <2>2 DEF TryLock
<1>3. ASSUME NEW p \in Procs, WriteToken(p) PROVE OwnerInv'
  BY <1>3, <1>a DEF WriteToken
<1>4. ASSUME NEW p \in Procs, Finish(p) PROVE OwnerInv'
  BY <1>4 DEF Finish
<1>5. ASSUME NEW p \in Procs, CheckOwner(p) PROVE OwnerInv'
  BY <1>5 DEF CheckOwner
<1>6. ASSUME NEW p \in Procs, Unlock(p) PROVE OwnerInv'
  <2>1. fd[p] \in Files
    BY <1>6, LabelFacts DEF Unlock
  <2>2. \A f \in Files : owner'[f] = IF f = fd[p] THEN None ELSE owner[f]
    BY <1>6, <2>1 DEF Unlock
  <2>3. fd' = fd /\ \A q \in Procs \ {p} : pc'[q] = pc[q]
    BY <1>6 DEF Unlock
  <2> QED
    BY <2>2, <2>3
<1>7. ASSUME NEW p \in Procs, CloseFile(p) PROVE OwnerInv'
  <2>1. \A f \in Files : owner[f] # p
    BY <1>7 DEF CloseFile
  <2>2. /\ owner' = owner
        /\ \A q \in Procs \ {p} : pc'[q] = pc[q] /\ fd'[q] = fd[q]
    BY <1>7 DEF CloseFile
  <2> QED
    BY <2>1, <2>2
<1>8. ASSUME NEW p \in Procs, RemovePath(p) PROVE OwnerInv'
  BY <1>8 DEF RemovePath
<1>9. ASSUME NEW p \in Procs, Crash(p) PROVE OwnerInv'
  BY <1>9, <1>a DEF Crash
<1>10. CASE UNCHANGED vars
  BY <1>10 DEF vars
<1> QED
  BY <1>1, <1>2, <1>3, <1>4, <1>5, <1>6, <1>7, <1>8, <1>9, <1>10 DEF Next, Step

LEMMA OwnersInductive == Spec => [](TypeOK /\ HoldsLock /\ OwnerInv)
<1>1. Init => TypeOK /\ HoldsLock /\ OwnerInv
  BY TypeInit, LabelFacts DEF Init, HoldsLock, OwnerInv, Holding
<1>2. TypeOK /\ HoldsLock /\ OwnerInv /\ [Next]_vars => (TypeOK /\ HoldsLock /\ OwnerInv)'
  BY TypeNext, HoldsNext, OwnerNext
<1> QED
  BY <1>1, <1>2, PTL DEF Spec

\* LOCKED is answered only while another live command has the lock, on either
\* platform: neither a crash nor a leftover lock.json locks the project.
THEOREM LockedIsLive == Spec => LockedMeansRunning
<1> DEFINE Refused(p) == pc[p] = "lock" /\ pc'[p] = "out" /\ faults' = faults
           Live(p) == \E q \in Procs \ {p} : fd[q] = fd[p] /\ pc[q] \in Holding
<1>1. TypeOK /\ OwnerInv /\ [Next]_vars => \A p \in Procs : Refused(p) => Live(p)
  <2> SUFFICES ASSUME TypeOK, OwnerInv, [Next]_vars, NEW p \in Procs, Refused(p) PROVE Live(p)
    OBVIOUS
  <2>1. TryLock(p) /\ owner[fd[p]] # None
    BY DEF Next, Step, OpenFile, TryLock, WriteToken, Finish, CheckOwner, Unlock, CloseFile,
           RemovePath, Crash, Fault, Drop, Goto, TypeOK, vars
  <2>2. fd[p] \in Files
    BY LabelFacts DEF TypeOK
  <2>3. owner[fd[p]] \in Procs
    BY <2>1, <2>2 DEF TypeOK
  <2>4. pc[owner[fd[p]]] \in Holding /\ fd[owner[fd[p]]] = fd[p]
    BY <2>1, <2>2 DEF OwnerInv
  <2>5. owner[fd[p]] # p
    BY <2>4 DEF Holding
  <2> QED
    BY <2>3, <2>4, <2>5
<1> QED
  BY <1>1, OwnersInductive, PTL DEF Spec, LockedMeansRunning

=============================================================================
