------------------------------ MODULE TaskDrafts ------------------------------
(***************************************************************************)
(* Local Task drafts: `task plan --prepare` (cmd/exord-init/               *)
(* task_prepare.go) over internal/state/task_draft.go and                  *)
(* internal/target/task_ids.go.  A draft is a directory task-drafts/<hash  *)
(* of project and branch>/ with identity.json, which gives the branch its  *)
(* Task ID for good, and plans/<spec hash>.json, one per revision.  A      *)
(* record is published by a create-only link: whole or not at all.  The    *)
(* directory is a step of its own, so a command may die between the two.   *)
(* One project on one target; a draft UUID is named by the draft's branch. *)
(***************************************************************************)
EXTENDS Naturals, FiniteSets

CONSTANTS
    Commands,  \* processes that prepare task after task
    Branches,  \* work branches
    TaskIDs,   \* what uniqueID may draw
    Specs,     \* preparation specs: intent, review facts and collision scan
    PlanIDs,   \* what a preparation may be numbered with
    None,
    Stranger,  \* a draft UUID that no draft has
    MaxDrafts, \* local drafts a command scans: 256
    MaxFaults, \* bound: crashes and I/O errors in a behaviour
    MaxEdits   \* bound: interventions of users in a behaviour

ASSUME NoneAssumption ==
    \A S \in {Commands, Branches, TaskIDs, Specs, PlanIDs} : None \notin S
ASSUME StrangerAssumption == Stranger \notin Branches \union {None}
ASSUME BoundsAssumption ==
    MaxDrafts \in Nat /\ MaxFaults \in Nat /\ MaxEdits \in Nat
\* The 2^40 IDs of a day are never all taken; 32 collisions are a fault.
ASSUME TaskIDsAssumption ==
    Cardinality(TaskIDs) >= Cardinality(Branches) + MaxEdits

VARIABLES
    pc,       \* what each command does next
    branch,   \* intent.WorkBranch
    chosen,   \* --draft-id
    spec,     \* what PrepareTask makes of intent and inspection
    used,     \* Task IDs InspectTaskIDs found in Git
    pending,  \* directory entries still to be read
    local,    \* Task IDs of the local drafts read so far
    draft,    \* the draft it works on
    task,     \* its Task ID
    planned,  \* the plan ID of its preparation
    lock,     \* the command that has the project lock
    excludes, \* whether the project lock excludes: ProjectLock says where
    dirs,     \* task-drafts/*
    identity, \* Task ID in each draft's identity.json
    plans,    \* plan ID in each draft's plans/<spec>.json
    mentions, \* Task IDs in Git: <<id, branch>> in a branch name, or elsewhere
    damaged,  \* drafts whose identity.json a user has changed
    faults

memory == <<branch, chosen, spec, used, pending, local, draft, task, planned>>
store  == <<dirs, identity, plans>>
world  == <<excludes, mentions, damaged>>
vars   == <<pc, memory, lock, store, world, faults>>

Elsewhere == None
Labels == {"out", "lock", "inspect", "scan", "readdir", "read", "mkdir",
           "identity", "persist", "plan", "ok"}

MemoryOK ==
    /\ branch \in [Commands -> Branches \union {None}]
    /\ chosen \in [Commands -> Branches \union {Stranger, None}]
    /\ spec \in [Commands -> Specs \union {None}]
    /\ used \in [Commands -> SUBSET TaskIDs]
    /\ pending \in [Commands -> SUBSET Branches]
    /\ local \in [Commands -> SUBSET TaskIDs]
    /\ draft \in [Commands -> Branches \union {None}]
    /\ task \in [Commands -> TaskIDs \union {None}]
    /\ planned \in [Commands -> PlanIDs \union {None}]

\* A published record has its directory.
TypeOK ==
    /\ pc \in [Commands -> Labels]
    /\ MemoryOK
    /\ lock \in Commands \union {None}
    /\ excludes \in BOOLEAN
    /\ dirs \subseteq Branches
    /\ identity \in [Branches -> TaskIDs \union {None}]
    /\ plans \in [Branches -> [Specs -> PlanIDs \union {None}]]
    /\ mentions \subseteq TaskIDs \X (Branches \union {Elsewhere})
    /\ damaged \subseteq Branches
    /\ faults \in 0..MaxFaults
    /\ \A b \in Branches : identity[b] # None => b \in dirs

Blank(value) == [c \in Commands |-> value]

Init ==
    /\ pc = Blank("out")
    /\ branch = Blank(None) /\ chosen = Blank(None) /\ spec = Blank(None)
    /\ used = Blank({}) /\ pending = Blank({}) /\ local = Blank({})
    /\ draft = Blank(None) /\ task = Blank(None) /\ planned = Blank(None)
    /\ lock = None
    /\ excludes \in BOOLEAN
    /\ dirs = {}
    /\ identity = [b \in Branches |-> None]
    /\ plans = [b \in Branches |-> [s \in Specs |-> None]]
    /\ mentions = {} /\ damaged = {}
    /\ faults = 0

-----------------------------------------------------------------------------
Goto(c, label) == pc' = [pc EXCEPT ![c] = label]
Fault == faults < MaxFaults /\ faults' = faults + 1

\* The command ends, with an answer or without; its lock goes with it.
Exit(c) ==
    /\ Goto(c, "out")
    /\ branch' = [branch EXCEPT ![c] = None] /\ chosen' = [chosen EXCEPT ![c] = None]
    /\ spec' = [spec EXCEPT ![c] = None]
    /\ used' = [used EXCEPT ![c] = {}] /\ pending' = [pending EXCEPT ![c] = {}]
    /\ local' = [local EXCEPT ![c] = {}]
    /\ draft' = [draft EXCEPT ![c] = None] /\ task' = [task EXCEPT ![c] = None]
    /\ planned' = [planned EXCEPT ![c] = None]
    /\ lock' = IF lock = c THEN None ELSE lock

Begin(c) ==
    /\ pc[c] = "out"
    /\ \E b \in Branches, d \in Branches \union {Stranger, None} :
        /\ d \in Branches => identity[d] # None
        /\ branch' = [branch EXCEPT ![c] = b]
        /\ chosen' = [chosen EXCEPT ![c] = d]
    /\ Goto(c, "lock")
    /\ UNCHANGED <<spec, used, pending, local, draft, task, planned, lock,
                   store, world, faults>>

\* OpenTaskDraftState, or LOCKED.
TakeLock(c) ==
    /\ pc[c] = "lock"
    /\ \/ /\ excludes => lock = None
          /\ lock' = c /\ Goto(c, "inspect") /\ UNCHANGED <<memory, faults>>
       \/ lock # None /\ Exit(c) /\ UNCHANGED faults
       \/ Fault /\ Exit(c)
    /\ UNCHANGED <<store, world>>

\* The target, the review and the retained runs, each of which may refuse.
Inspect(c) ==
    /\ pc[c] = "inspect"
    /\ \/ /\ \E s \in Specs : spec' = [spec EXCEPT ![c] = s]
          /\ Goto(c, "scan")
          /\ UNCHANGED <<branch, chosen, used, pending, local, draft, task, planned, lock>>
       \/ Exit(c)
    /\ UNCHANGED <<store, world, faults>>

\* Mutant: the name of the current branch counts too.
FoundInAllNames(b) == {m[1] : m \in mentions}

\* Task IDs of other branch names, of the history and of worktree files.
Found(b) == {m[1] : m \in {x \in mentions : x[2] # b}}

ScanIDs(c) ==
    /\ pc[c] = "scan"
    /\ \/ /\ used' = [used EXCEPT ![c] = Found(branch[c])]
          /\ Goto(c, "readdir")
          /\ UNCHANGED <<branch, chosen, spec, pending, local, draft, task, planned, lock,
                         faults>>
       \/ Fault /\ Exit(c)
    /\ UNCHANGED <<store, world>>

(* ResolveTaskDraft *)

\* The entries of task-drafts/, unless they are too many.
ReadDir(c) ==
    /\ pc[c] = "readdir"
    /\ \/ /\ Cardinality(dirs) <= MaxDrafts
          /\ pending' = [pending EXCEPT ![c] = dirs]
          /\ Goto(c, "read")
          /\ UNCHANGED <<branch, chosen, spec, used, local, draft, task, planned, lock,
                         faults>>
       \/ Cardinality(dirs) > MaxDrafts /\ Exit(c) /\ UNCHANGED faults
       \/ Fault /\ Exit(c)
    /\ UNCHANGED <<store, world>>

Wanted(c) == IF chosen[c] # None THEN chosen[c] ELSE branch[c]

\* Mutant: a draft without an identity is passed over.
ReadIdentitySkipping(c) ==
    /\ pc[c] = "read"
    /\ \E b \in pending[c] :
        LET found == b = Wanted(c) /\ identity[b] # None IN
        /\ pending' = [pending EXCEPT ![c] = @ \ {b}]
        /\ local' = [local EXCEPT ![c] = @ \union ({identity[b]} \ {None})]
        /\ draft' = [draft EXCEPT ![c] = IF found THEN b ELSE @]
        /\ task' = [task EXCEPT ![c] = IF found THEN identity[b] ELSE @]
    /\ UNCHANGED <<pc, branch, chosen, spec, used, planned, lock, faults, store, world>>

\* Every identity is read.  One that is missing or damaged, a Task ID of two
\* drafts, or the wanted draft's in Git, stop the command.
ReadIdentity(c) ==
    /\ pc[c] = "read"
    /\ \E b \in pending[c] :
        LET t == identity[b]
            collides == \/ t = None \/ b \in damaged
                        \/ t \in local[c]
                        \/ b = Wanted(c) /\ t \in used[c]
        IN
        \/ /\ ~collides
           /\ pending' = [pending EXCEPT ![c] = @ \ {b}]
           /\ local' = [local EXCEPT ![c] = @ \union {t}]
           /\ draft' = [draft EXCEPT ![c] = IF b = Wanted(c) THEN b ELSE @]
           /\ task' = [task EXCEPT ![c] = IF b = Wanted(c) THEN t ELSE @]
           /\ UNCHANGED <<pc, branch, chosen, spec, used, planned, lock, faults>>
        \/ collides /\ Exit(c) /\ UNCHANGED faults
        \/ Fault /\ Exit(c)
    /\ UNCHANGED <<store, world>>

\* What was read is not looked at again.
Settle(c) == used' = [used EXCEPT ![c] = {}] /\ local' = [local EXCEPT ![c] = {}]

\* The draft of the branch or of --draft-id is resumed, or the branch gets one.
Select(c) ==
    /\ pc[c] = "read" /\ pending[c] = {}
    /\ \/ /\ draft[c] # None
          /\ Goto(c, "persist") /\ Settle(c)
          /\ UNCHANGED <<branch, chosen, spec, pending, draft, task, planned, lock>>
       \/ /\ draft[c] = None /\ chosen[c] = None
          /\ Goto(c, "mkdir") /\ UNCHANGED <<memory, lock>>
       \/ draft[c] = None /\ chosen[c] # None /\ Exit(c)
    /\ UNCHANGED <<store, world, faults>>

\* Mutant: the IDs of other local drafts are not excluded.
AllocatableAny(c) == TaskIDs \ used[c]

Allocatable(c) == TaskIDs \ (used[c] \union local[c])

\* Mutant: the directory is taken for made.
MakeDirForgotten(c) ==
    /\ pc[c] = "mkdir"
    /\ \E t \in Allocatable(c) : task' = [task EXCEPT ![c] = t]
    /\ draft' = [draft EXCEPT ![c] = branch[c]]
    /\ Goto(c, "identity")
    /\ UNCHANGED <<branch, chosen, spec, used, pending, local, planned, lock, faults,
                   store, world>>

\* The directory, which stays if the command goes no further, and a Task ID.
MakeDir(c) ==
    /\ pc[c] = "mkdir"
    /\ \/ /\ \E t \in Allocatable(c) : task' = [task EXCEPT ![c] = t]
          /\ dirs' = dirs \union {branch[c]}
          /\ draft' = [draft EXCEPT ![c] = branch[c]]
          /\ Goto(c, "identity") /\ Settle(c)
          /\ UNCHANGED <<branch, chosen, spec, pending, planned, lock, faults>>
       \/ Fault /\ Exit(c) /\ dirs' \in {dirs, dirs \union {branch[c]}}
    /\ UNCHANGED <<identity, plans, world>>

PublishIdentity(c) ==
    LET d == draft[c] IN
    /\ pc[c] = "identity"
    /\ \/ /\ identity[d] = None
          /\ identity' = [identity EXCEPT ![d] = task[c]]
          /\ Goto(c, "persist") /\ UNCHANGED <<memory, lock, faults>>
       \/ identity[d] # None /\ Exit(c) /\ UNCHANGED <<identity, faults>>
       \/ Fault /\ Exit(c) /\ UNCHANGED identity
    /\ UNCHANGED <<dirs, plans, world>>

(* PrepareTask and PersistTaskPreparation *)

\* Mutant: the new plan is answered where an equal one is stored.
PersistAnswersNew(c) ==
    /\ pc[c] = "persist"
    /\ \E i \in PlanIDs : planned' = [planned EXCEPT ![c] = i]
    /\ Goto(c, IF plans[draft[c]][spec[c]] = None THEN "plan" ELSE "ok")
    /\ UNCHANGED <<branch, chosen, spec, used, pending, local, draft, task, lock,
                   faults, store, world>>

\* The stored identity must still be the draft's; a stored revision is reused.
Persist(c) ==
    LET d == draft[c]
        stored == plans[d][spec[c]]
    IN
    /\ pc[c] = "persist"
    /\ \/ /\ identity[d] = task[c] /\ d \notin damaged
          /\ \/ /\ stored = None
                /\ \E i \in PlanIDs : planned' = [planned EXCEPT ![c] = i]
                /\ Goto(c, "plan")
             \/ /\ stored # None
                /\ planned' = [planned EXCEPT ![c] = stored]
                /\ Goto(c, "ok")
          /\ UNCHANGED <<branch, chosen, spec, used, pending, local, draft, task, lock,
                         faults>>
       \/ (identity[d] # task[c] \/ d \in damaged) /\ Exit(c) /\ UNCHANGED faults
       \/ Fault /\ Exit(c)
    /\ UNCHANGED <<store, world>>

\* Mutant: plans are written in place.
PublishPlanByRename(c) ==
    /\ pc[c] = "plan"
    /\ plans' = [plans EXCEPT ![draft[c]][spec[c]] = planned[c]]
    /\ Goto(c, "ok")
    /\ UNCHANGED <<memory, lock, faults, dirs, identity, world>>

PublishPlan(c) ==
    LET d == draft[c]
        s == spec[c]
    IN
    /\ pc[c] = "plan"
    /\ \/ /\ plans[d][s] = None
          /\ plans' = [plans EXCEPT ![d][s] = planned[c]]
          /\ Goto(c, "ok") /\ UNCHANGED <<memory, lock, faults>>
       \/ plans[d][s] # None /\ Exit(c) /\ UNCHANGED <<plans, faults>>
       \/ Fault /\ Exit(c) /\ UNCHANGED plans
    /\ UNCHANGED <<dirs, identity, world>>

\* The lock is released and the preparation answered.
Answer(c) ==
    /\ pc[c] = "ok"
    /\ Exit(c)
    /\ UNCHANGED <<store, world, faults>>

-----------------------------------------------------------------------------
Crash(c) ==
    /\ pc[c] # "out"
    /\ Fault /\ Exit(c)
    /\ UNCHANGED <<store, world>>

(* Users. *)

Edit == /\ Cardinality(mentions) + Cardinality(damaged) < MaxEdits
        /\ UNCHANGED <<pc, memory, lock, excludes, store, faults>>

\* A branch is named after a draft's Task ID, or a commit or a worktree's task
\* file holds any.
Mention ==
    /\ Edit /\ UNCHANGED damaged
    /\ \E t \in TaskIDs, place \in Branches \union {Elsewhere} :
        /\ place # Elsewhere => \E b \in Branches : identity[b] = t
        /\ mentions' = mentions \union {<<t, place>>}

Damage ==
    /\ Edit /\ UNCHANGED mentions
    /\ \E b \in Branches : identity[b] # None /\ damaged' = damaged \union {b}

Resolve(c) ==
    \/ ReadDir(c) \/ ReadIdentity(c) \/ Select(c) \/ MakeDir(c) \/ PublishIdentity(c)

Next ==
    \/ \E c \in Commands :
        \/ Begin(c) \/ TakeLock(c) \/ Inspect(c) \/ ScanIDs(c) \/ Resolve(c)
        \/ Persist(c) \/ PublishPlan(c) \/ Answer(c) \/ Crash(c)
    \/ Mention \/ Damage

Spec == Init /\ [][Next]_vars

-----------------------------------------------------------------------------
\* Two drafts never share a Task ID, as long as the lock excludes.
UniqueTasks ==
    excludes => \A a, b \in Branches :
        identity[a] # None /\ identity[a] = identity[b] => a = b

\* An answered preparation is on disk: the draft's identity with its Task ID,
\* and this revision with the plan ID that was answered.
AnswerStored ==
    \A c \in Commands : pc[c] = "ok" =>
        /\ identity[draft[c]] = task[c]
        /\ plans[draft[c]][spec[c]] = planned[c]

\* Drafts without an identity: none but the running command's own, unless there
\* was a crash or an I/O error, and never two of them, however many there were,
\* for a preparation stops at the first it finds.
WholeDrafts ==
    excludes =>
        /\ faults = 0 /\ lock = None => \A b \in dirs : identity[b] # None
        /\ \A a, b \in dirs : identity[a] = None /\ identity[b] = None => a = b

\* A draft keeps its Task ID and a revision its plan, even when two commands
\* hold the lock at once.
RecordsImmutable ==
    [][/\ \A b \in Branches : identity[b] # None => identity'[b] = identity[b]
       /\ \A b \in Branches, s \in Specs :
            plans[b][s] # None => plans'[b][s] = plans[b][s]]_vars

\* The wanted draft is there, its Task ID nowhere in Git but perhaps in the name
\* of the current branch, and ResolveTaskDraft refuses it.
RefusesDraft(c) ==
    /\ pc[c] \in {"readdir", "read"} /\ pc'[c] = "out" /\ faults' = faults
    /\ Wanted(c) \in Branches /\ identity[Wanted(c)] # None
    /\ \A m \in mentions : m[1] = identity[Wanted(c)] => m[2] = branch[c]

\* A draft is refused only for a draft without an intact identity, or for too
\* many of them.
ResumeUnlessDamaged ==
    [][excludes => \A c \in Commands : RefusesDraft(c) =>
        Cardinality(dirs) > MaxDrafts \/ \E b \in dirs : identity[b] = None \/ b \in damaged]_vars

\* README.md: "Repeat on that branch to reuse its identity, or pass the returned
\* draft_id": no draft is refused.
Reusable ==
    [][excludes => \A c \in Commands : ~RefusesDraft(c)]_vars

-----------------------------------------------------------------------------
(* Refinement, where the lock excludes. *)

\* The drafts on disk, with their steps, crashes and I/O errors, are a registry.
Registry == INSTANCE DraftRegistry WITH ids <- identity, filed <- plans
KeepsRegistry == Registry!Spec

\* The lock is the one ProjectLock implements.
Lock == INSTANCE ExclusiveLock WITH Procs <- Commands, holder <- lock
TakesLock == Lock!Spec

=============================================================================
