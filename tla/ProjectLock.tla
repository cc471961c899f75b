----------------------------- MODULE ProjectLock -----------------------------
(***************************************************************************)
(* The per-project run lock: Acquire and Release of                        *)
(* internal/state/state.go over the advisory locks of lock_unix.go and     *)
(* lock_windows.go.  The lock belongs to an open lock.json, a file, while  *)
(* Release removes lock.json, a name; every system call is a step, and a   *)
(* process is one command of the engine, which may die at any of them.     *)
(***************************************************************************)
EXTENDS Naturals

CONSTANTS
    Procs,     \* commands that run on the project
    Files,     \* what lock.json can be, one after another: inodes
    None,
    UnlinkOpen,\* a file that is open can be removed: TRUE on unix, FALSE on Windows
    MaxFaults  \* bound: crashes and I/O errors in a behaviour

ASSUME NoneAssumption   == None \notin Procs /\ None \notin Files
ASSUME UnlinkAssumption == UnlinkOpen \in BOOLEAN
ASSUME FaultsAssumption == MaxFaults \in Nat

VARIABLES
    pc,      \* what each process does next, "out" before and after its command
    path,    \* the file that the name lock.json stands for, if any
    fd,      \* the file each process has open
    owner,   \* the process that has the advisory lock of each file
    token,   \* whose owner token each file holds: None if empty or torn
    sure,    \* ownershipOK of each process in Release
    faults   \* crashes and I/O errors so far

vars == <<pc, path, fd, owner, token, sure, faults>>

\* A process that has the advisory lock, the ones that have the file open, and
\* the one whose command is at work.
Holding == {"write", "held", "check", "unlock"}
Open    == Holding \union {"lock", "close"}
Labels  == Open \union {"out", "remove"}

TypeOK ==
    /\ pc \in [Procs -> Labels]
    /\ path \in Files \union {None}
    /\ fd \in [Procs -> Files \union {None}]
    /\ owner \in [Files -> Procs \union {None}]
    /\ token \in [Files -> Procs \union {None}]
    /\ sure \in [Procs -> BOOLEAN]
    /\ faults \in 0..MaxFaults
    /\ \A p \in Procs : fd[p] # None <=> pc[p] \in Open

Init ==
    /\ pc = [p \in Procs |-> "out"]
    /\ path = None
    /\ fd = [p \in Procs |-> None]
    /\ owner = [f \in Files |-> None]
    /\ token = [f \in Files |-> None]
    /\ sure = [p \in Procs |-> FALSE]
    /\ faults = 0

-----------------------------------------------------------------------------
Goto(p, label) == pc' = [pc EXCEPT ![p] = label]
Fault == faults < MaxFaults /\ faults' = faults + 1

\* The process ends: the kernel drops its lock and closes its file.
Drop(p) ==
    /\ Goto(p, "out")
    /\ sure' = [sure EXCEPT ![p] = FALSE]
    /\ fd' = [fd EXCEPT ![p] = None]
    /\ owner' = [f \in Files |-> IF owner[f] = p THEN None ELSE owner[f]]

Fresh(f) == f # path /\ \A p \in Procs : fd[p] # f

(* Acquire. *)

\* Mutant: O_TRUNC.
OpenFileTruncating(p) ==
    /\ pc[p] = "out"
    /\ \E f \in Files :
        /\ f = path \/ (path = None /\ Fresh(f))
        /\ path' = f
        /\ fd' = [fd EXCEPT ![p] = f]
        /\ token' = [token EXCEPT ![f] = None]
    /\ Goto(p, "lock")
    /\ UNCHANGED <<owner, sure, faults>>

\* OpenFile with O_CREATE: the file lock.json names, else a new empty one.
OpenFile(p) ==
    /\ pc[p] = "out"
    /\ \E f \in Files :
        /\ \/ f = path /\ UNCHANGED token
           \/ path = None /\ Fresh(f) /\ token' = [token EXCEPT ![f] = None]
        /\ path' = f
        /\ fd' = [fd EXCEPT ![p] = f]
    /\ Goto(p, "lock")
    /\ UNCHANGED <<owner, sure, faults>>

\* Mutant: a lock error is ignored.
TryLockUnchecked(p) ==
    /\ pc[p] = "lock"
    /\ owner' = [owner EXCEPT ![fd[p]] = IF @ = None THEN p ELSE @]
    /\ Goto(p, "write")
    /\ UNCHANGED <<path, fd, token, sure, faults>>

\* Mutant: the lock is the file's content, as if no process ever died.
TryLockByToken(p) ==
    /\ pc[p] = "lock"
    /\ \/ /\ token[fd[p]] = None /\ owner[fd[p]] = None
          /\ owner' = [owner EXCEPT ![fd[p]] = p]
          /\ Goto(p, "write") /\ UNCHANGED <<fd, sure>>
       \/ /\ (token[fd[p]] # None \/ owner[fd[p]] # None)
          /\ Drop(p)
    /\ UNCHANGED <<path, token, faults>>

\* Mutant: a refused command leaves the file open.
TryLockLeaking(p) ==
    /\ pc[p] = "lock"
    /\ \/ /\ owner[fd[p]] = None
          /\ owner' = [owner EXCEPT ![fd[p]] = p]
          /\ Goto(p, "write")
       \/ owner[fd[p]] # None /\ Goto(p, "out") /\ UNCHANGED owner
    /\ UNCHANGED <<path, fd, token, sure, faults>>

\* LOCK_NB: the command that does not get the lock ends with LOCKED.
TryLock(p) ==
    /\ pc[p] = "lock"
    /\ \/ /\ owner[fd[p]] = None
          /\ owner' = [owner EXCEPT ![fd[p]] = p]
          /\ Goto(p, "write") /\ UNCHANGED <<fd, sure>>
       \/ /\ owner[fd[p]] # None
          /\ Drop(p)
    /\ UNCHANGED <<path, token, faults>>

\* Truncate and write; a failure may leave the file with either payload or with
\* none, and gives the lock up.
WriteToken(p) ==
    /\ pc[p] = "write"
    /\ \/ /\ token' = [token EXCEPT ![fd[p]] = p]
          /\ Goto(p, "held") /\ UNCHANGED <<fd, owner, sure, faults>>
       \/ /\ Fault
          /\ \E t \in {token[fd[p]], None, p} : token' = [token EXCEPT ![fd[p]] = t]
          /\ Drop(p)
    /\ UNCHANGED path

(* The command does its work, then Release. *)

Finish(p) ==
    /\ pc[p] = "held"
    /\ Goto(p, "check")
    /\ UNCHANGED <<path, fd, owner, token, sure, faults>>

\* Mutant: Release unlocks before it checks the owner.
CheckOwnerUnlocked(p) ==
    /\ pc[p] = "check"
    /\ owner' = [owner EXCEPT ![fd[p]] = None]
    /\ sure' = [sure EXCEPT ![p] = token[fd[p]] = p]
    /\ Goto(p, "unlock")
    /\ UNCHANGED <<path, fd, token, faults>>

\* ownsLockFile reads the token back through the open file.
CheckOwner(p) ==
    /\ pc[p] = "check"
    /\ \/ sure' = [sure EXCEPT ![p] = token[fd[p]] = p] /\ UNCHANGED faults
       \/ Fault /\ sure' = [sure EXCEPT ![p] = FALSE]
    /\ Goto(p, "unlock")
    /\ UNCHANGED <<path, fd, owner, token>>

Unlock(p) ==
    /\ pc[p] = "unlock"
    /\ owner' = [owner EXCEPT ![fd[p]] = None]
    /\ Goto(p, "close")
    /\ UNCHANGED <<path, fd, token, sure, faults>>

CloseFile(p) ==
    /\ pc[p] = "close"
    /\ fd' = [fd EXCEPT ![p] = None]
    /\ sure' = [sure EXCEPT ![p] = FALSE]
    /\ \/ sure[p] /\ Goto(p, "remove") /\ UNCHANGED faults
       \/ ~sure[p] /\ Goto(p, "out") /\ UNCHANGED faults
       \/ Fault /\ Goto(p, "out")
    /\ UNCHANGED <<path, owner, token>>

Removable == UnlinkOpen \/ \A q \in Procs : fd[q] # path

\* Mutant: a removal that fails is tried again.
RemovePathRetry(p) ==
    /\ pc[p] = "remove" /\ path # None /\ Removable
    /\ path' = None
    /\ Goto(p, "out")
    /\ UNCHANGED <<fd, owner, token, sure, faults>>

\* The name is removed, whatever file it stands for by now; a failure is a
\* warning of a finished command.
RemovePath(p) ==
    /\ pc[p] = "remove"
    /\ \/ path # None /\ Removable /\ path' = None /\ UNCHANGED faults
       \/ (path = None \/ ~Removable) /\ UNCHANGED <<path, faults>>
       \/ Fault /\ UNCHANGED path
    /\ Goto(p, "out")
    /\ UNCHANGED <<fd, owner, token, sure>>

Crash(p) ==
    /\ pc[p] # "out"
    /\ Fault
    /\ Drop(p)
    /\ UNCHANGED <<path, token>>

Step(p) ==
    \/ TryLock(p) \/ WriteToken(p) \/ Finish(p) \/ CheckOwner(p)
    \/ Unlock(p) \/ CloseFile(p) \/ RemovePath(p)

Next == \E p \in Procs : OpenFile(p) \/ Step(p) \/ Crash(p)

Spec == Init /\ [][Next]_vars

\* A command that has started runs on: nothing in Acquire or Release blocks.
FairSpec == Spec /\ \A p \in Procs : WF_vars(Step(p))

-----------------------------------------------------------------------------
\* Two commands never work on the project at the same time.
MutualExclusion ==
    \A p, q \in Procs : pc[p] = "held" /\ pc[q] = "held" => p = q

\* Why: a process past TryLock has the lock of the file it has open, and that
\* file is the one lock.json stands for, the same for all.
HoldsLock == \A p \in Procs : pc[p] \in Holding => owner[fd[p]] = p
SameFile  == \A p \in Procs : fd[p] # None => fd[p] = path
LockInv   == TypeOK /\ HoldsLock /\ SameFile

\* The token of the process at work stays in its own file: no other Acquire
\* resets it, so Release fails its owner check on a read error only.
TokenIntact ==
    \A p \in Procs : pc[p] \in {"held", "check"} => token[fd[p]] = p

\* LOCKED is answered only while another live command has the lock: neither a
\* crash nor a leftover lock.json locks the project.
LockedMeansRunning ==
    [][\A p \in Procs :
        pc[p] = "lock" /\ pc'[p] = "out" /\ faults' = faults =>
            \E q \in Procs \ {p} : fd[q] = fd[p] /\ pc[q] \in Holding]_vars

\* What mutual exclusion rests on: while a process has lock.json open the name
\* stays, so that the next command opens the same file.
OpenNameStays ==
    [][path # None /\ path' = None => \A q \in Procs : fd[q] # path]_vars

\* Refinement: the holder is the process between TryLock and Unlock.  With all
\* their system calls, failures and crashes Acquire and Release are a lock that
\* is taken when nobody has it and left by the one who does, each in one step.
Holder ==
    IF \E p \in Procs : pc[p] \in Holding
    THEN CHOOSE p \in Procs : pc[p] \in Holding
    ELSE None

Lock == INSTANCE ExclusiveLock WITH holder <- Holder
IsExclusiveLock == Lock!Spec

\* Every command gets past the lock: taken, refused or released.
LockEnds == \A p \in Procs : pc[p] # "out" ~> pc[p] = "out"

=============================================================================
