------------------------------- MODULE RunStore -------------------------------
(***************************************************************************)
(* The run bundles of one target: who writes them, lists them and removes  *)
(* them (internal/state/state.go, retained.go) under the commands of       *)
(* cmd/exord-init/main.go.  A bundle is a directory runs/<run-id>/ with    *)
(* staging/, plan.json and run.json, written and removed one by one.  The  *)
(* run itself is taken in large steps (CreateRun has the small ones) and   *)
(* the project lock excludes (ProjectLock says where it does).  `plan`     *)
(* here is of a CREATE run; ADOPT only meets the project identity.         *)
(***************************************************************************)
EXTENDS Naturals, FiniteSets

CONSTANTS
    Commands,  \* processes that run command after command
    Runs,      \* run IDs, drawn at random, each used once
    None,
    Empty,     \* what the target holds if nothing ...
    Other,     \* ... or files in the place of a run's
    MaxListed, \* maxListedRuns
    MaxFaults, \* bound: crashes and I/O errors in a behaviour
    MaxEdits   \* bound: interventions of the user in a behaviour

\* Local state is in the Git directory, or in the user's state directory.
Roots == {"git", "external"}

ASSUME RunsAssumption == Runs \subseteq Nat
ASSUME NoneAssumption == None \notin Commands /\ None \notin Runs /\ None \notin Roots
ASSUME ContentAssumption == Empty \notin Runs /\ Other \notin Runs /\ Empty # Other
ASSUME BoundsAssumption ==
    MaxListed \in Nat /\ MaxFaults \in Nat /\ MaxEdits \in Nat

Parts == {"staging", "plan", "run"}

\* A run's journal, in the classes ListRetainedRuns tells apart; "new" before
\* run.json is first written.  The last class is kept once run.json is gone.
\* "entered" is an interrupted run that has not journaled all of its files.
Interrupted == {"entered", "applying", "recovery"}
Settled     == {"failed", "finalized"}
Class       == {"new", "ready"} \union Interrupted \union Settled

VARIABLES
    pc,       \* what each command does next
    goal,     \* where a command that waits for the lock goes on
    run,      \* the run it works on
    root,     \* the state root it works in
    seen,     \* plan: InspectCreate found .git
    lock,     \* the command that has each root's lock
    home,     \* the root that has each run's directory, if it exists
    parts,    \* what is in the directory
    class,    \* each run's journal
    plan,     \* each run's plan: was there a .git, which project identity
    project,  \* project.json of each root
    git,      \* the target has a .git directory
    content,  \* what the target holds: Empty, some run's files, Other
    faults, edits

local  == <<goal, run, root, seen>>
bundle == <<home, parts, class, plan>>
world  == <<git, content, edits>>
vars   == <<pc, local, lock, bundle, project, world, faults>>

\* Where a command has the lock.
Locked == {"scan", "project", "adopt", "mkdir", "staging", "plan", "run",
           "remove", "apply", "publish", "settle", "rollback", "discard"}
Labels == Locked \union {"idle", "lock", "PLAN_STALE", "PLAN_INVALID"}

NoPlan == [git |-> FALSE, project |-> None]
PlanOf == [git : BOOLEAN, project : Runs \union {None}]

ControlOK ==
    /\ pc \in [Commands -> Labels]
    /\ goal \in [Commands -> Locked]
    /\ run \in [Commands -> Runs \union {None}]
    /\ root \in [Commands -> Roots]
    /\ seen \in [Commands -> BOOLEAN]
    /\ lock \in [Roots -> Commands \union {None}]

DataOK ==
    /\ home \in [Runs -> Roots \union {None}]
    /\ parts \in [Runs -> SUBSET Parts]
    /\ class \in [Runs -> Class]
    /\ plan \in [Runs -> PlanOf]
    /\ project \in [Roots -> Runs \union {None}]
    /\ git \in BOOLEAN
    /\ content \in Runs \union {Empty, Other}
    /\ faults \in 0..MaxFaults
    /\ edits \in 0..MaxEdits

TypeOK ==
    /\ ControlOK /\ DataOK
    /\ \A c \in Commands : pc[c] \in Locked <=> \E d \in Roots : lock[d] = c

Init ==
    /\ pc = [c \in Commands |-> "idle"]
    /\ goal = [c \in Commands |-> "scan"]
    /\ run = [c \in Commands |-> None]
    /\ root = [c \in Commands |-> "external"]
    /\ seen = [c \in Commands |-> FALSE]
    /\ lock = [d \in Roots |-> None]
    /\ home = [r \in Runs |-> None]
    /\ parts = [r \in Runs |-> {}]
    /\ class = [r \in Runs |-> "new"]
    /\ plan = [r \in Runs |-> NoPlan]
    /\ project = [d \in Roots |-> None]
    /\ git = FALSE
    /\ content = Empty
    /\ faults = 0 /\ edits = 0

-----------------------------------------------------------------------------
\* ProjectRoot: it is looked up by every command anew.
RootNow == IF git THEN "git" ELSE "external"

\* classifyRetainedRun: what cannot be read blocks too.
Blocks(r) == "run" \notin parts[r] \/ class[r] \in Interrupted

\* ListRetainedRuns: the first of the bundles, as many as it may list.
Listed(d) ==
    LET all == {r \in Runs : home[r] = d}
    IN {r \in all : Cardinality({q \in all : q < r}) < MaxListed}

\* Load and its checks, in the root of the command.
Loadable(c) == home[run[c]] = root[c] /\ {"plan", "run"} \subseteq parts[run[c]]

Fault == faults < MaxFaults /\ faults' = faults + 1

Goto(c, label) == pc' = [pc EXCEPT ![c] = label]

Forget(c) ==
    /\ goal' = [goal EXCEPT ![c] = "scan"]
    /\ run' = [run EXCEPT ![c] = None]
    /\ root' = [root EXCEPT ![c] = "external"]
    /\ seen' = [seen EXCEPT ![c] = FALSE]

Unlock(c) == lock' = [d \in Roots |-> IF lock[d] = c THEN None ELSE lock[d]]

\* Release, and the end of the process.
Exit(c) == Goto(c, "idle") /\ Forget(c) /\ Unlock(c)

\* Release, and the answer that is emitted next.
Answer(c, code) == Goto(c, code) /\ Unlock(c) /\ UNCHANGED local

Emit(c) ==
    /\ pc[c] \in {"PLAN_STALE", "PLAN_INVALID"}
    /\ Exit(c)
    /\ UNCHANGED <<bundle, project, world, faults>>

Begin(c, label, r) ==
    /\ pc[c] = "idle"
    /\ Goto(c, "lock")
    /\ goal' = [goal EXCEPT ![c] = label]
    /\ run' = [run EXCEPT ![c] = r]
    /\ root' = [root EXCEPT ![c] = IF label = "adopt" THEN "external" ELSE RootNow]
    /\ UNCHANGED <<lock, bundle, project, world, faults>>

\* Acquire, in a root that is looked up before or after a git init meanwhile;
\* LOCKED ends the command.
TakeLock(c) ==
    /\ pc[c] = "lock"
    /\ \E d \in {root[c], IF goal[c] = "adopt" THEN "external" ELSE RootNow} :
        \/ /\ lock[d] = None
           /\ lock' = [lock EXCEPT ![d] = c]
           /\ root' = [root EXCEPT ![c] = d]
           /\ Goto(c, goal[c])
           /\ UNCHANGED <<goal, run, seen>>
        \/ lock[d] # None /\ Exit(c)
    /\ UNCHANGED <<bundle, project, world, faults>>

-----------------------------------------------------------------------------
(* plan *)

\* Mutant: retained runs are scanned before the lock is taken.
PlanBeginScanned(c) ==
    \E r \in Runs :
        /\ content = Empty
        /\ class[r] = "new" /\ home[r] = None /\ \A d \in Commands : run[d] # r
        /\ \A q \in Listed(RootNow) : ~Blocks(q)
        /\ Begin(c, "project", r)
        /\ seen' = [seen EXCEPT ![c] = git]

\* InspectCreate accepts the target; the run ID is new.
PlanBegin(c) ==
    \E r \in Runs :
        /\ content = Empty
        /\ class[r] = "new" /\ home[r] = None /\ \A d \in Commands : run[d] # r
        /\ Begin(c, "scan", r)
        /\ seen' = [seen EXCEPT ![c] = git]

\* Mutant: BLOCKED without Release.
ScanUnreleased(c) ==
    /\ pc[c] = "scan"
    /\ \/ /\ \A r \in Listed(root[c]) : ~Blocks(r)
          /\ Goto(c, "project") /\ UNCHANGED local
       \/ /\ \E r \in Listed(root[c]) : Blocks(r)
          /\ Goto(c, "idle") /\ Forget(c)
    /\ UNCHANGED <<lock, bundle, project, world, faults>>

\* BLOCKED if a listed run blocks.
Scan(c) ==
    /\ pc[c] = "scan"
    /\ \/ /\ \A r \in Listed(root[c]) : ~Blocks(r)
          /\ Goto(c, "project") /\ UNCHANGED <<local, lock>>
       \/ (\E r \in Listed(root[c]) : Blocks(r)) /\ Exit(c)
    /\ UNCHANGED <<bundle, project, world, faults>>

\* Mutant: an identity is created for every plan.
ProjectIDFresh(c) ==
    /\ pc[c] = "project"
    /\ project' = [project EXCEPT ![root[c]] = run[c]]
    /\ Goto(c, "mkdir")
    /\ UNCHANGED <<local, lock, bundle, world, faults>>

\* The identity of project.json, created if there is none.
ProjectID(c) ==
    /\ pc[c] = "project"
    /\ \/ /\ project' = [project EXCEPT ![root[c]] = IF @ = None THEN run[c] ELSE @]
          /\ Goto(c, "mkdir") /\ UNCHANGED <<local, lock, faults>>
       \/ Fault /\ Exit(c) /\ UNCHANGED project
    /\ UNCHANGED <<bundle, world>>

MakeRunDir(c) ==
    /\ pc[c] = "mkdir"
    /\ \/ /\ home' = [home EXCEPT ![run[c]] = root[c]]
          /\ Goto(c, "staging") /\ UNCHANGED faults
       \/ Fault /\ Goto(c, "remove") /\ UNCHANGED home
    /\ UNCHANGED <<local, lock, parts, class, plan, project, world>>

After == [staging |-> "plan", plan |-> "run"]

\* The staged files, then plan.json.  After an error RemoveRun takes back what
\* there is.
WritePart(c) ==
    LET r == run[c] IN
    /\ pc[c] \in {"staging", "plan"}
    /\ \/ /\ parts' = [parts EXCEPT ![r] = @ \union {pc[c]}]
          /\ plan' = [plan EXCEPT ![r] = [git |-> seen[c], project |-> project[root[c]]]]
          /\ Goto(c, After[pc[c]]) /\ UNCHANGED faults
       \/ Fault /\ Goto(c, "remove") /\ UNCHANGED <<parts, plan>>
    /\ UNCHANGED <<local, lock, home, class, project, world>>

\* run.json comes last; plan then releases the lock.
WriteRun(c) ==
    /\ pc[c] = "run"
    /\ \/ /\ parts' = [parts EXCEPT ![run[c]] = @ \union {"run"}]
          /\ class' = [class EXCEPT ![run[c]] = "ready"]
          /\ Exit(c) /\ UNCHANGED faults
       \/ Fault /\ Goto(c, "remove") /\ UNCHANGED <<local, lock, parts, class>>
    /\ UNCHANGED <<home, plan, project, world>>

\* RemoveAll takes the entries in any order, then the directory, and stops at
\* the first error.
RemovePart(c) ==
    LET r == run[c] IN
    /\ pc[c] = "remove"
    /\ \/ /\ \E e \in parts[r] : parts' = [parts EXCEPT ![r] = @ \ {e}]
          /\ UNCHANGED <<pc, local, lock, home, faults>>
       \/ /\ parts[r] = {}
          /\ home' = [home EXCEPT ![r] = None]
          /\ Exit(c) /\ UNCHANGED <<parts, faults>>
       \/ Fault /\ Exit(c) /\ UNCHANGED <<home, parts>>
    /\ UNCHANGED <<class, plan, project, world>>

(* plan of an ADOPT intent, for a target without a manifest *)

AdoptBegin(c) ==
    /\ content \notin Runs
    /\ \E r \in Runs :
        /\ class[r] = "new" /\ home[r] = None /\ \A d \in Commands : run[d] # r
        /\ Begin(c, "adopt", r)
    /\ UNCHANGED seen

\* Its lock ID stands for the identity it may create.
AdoptID(c) ==
    /\ pc[c] = "adopt"
    /\ \/ /\ project' = [project EXCEPT !["external"] = IF @ = None THEN run[c] ELSE @]
          /\ UNCHANGED faults
       \/ Fault /\ UNCHANGED project
    /\ Exit(c)
    /\ UNCHANGED <<bundle, world>>

-----------------------------------------------------------------------------
(* apply, recover rollback and recover discard of a run *)

\* InspectCreate accepts the target, else PLAN_STALE.
ApplyBegin(c) ==
    /\ content = Empty
    /\ \E r \in Runs : class[r] # "new" /\ Begin(c, "apply", r)
    /\ UNCHANGED seen

\* Mutant: a run is entered again after it failed.
ApplyCheckAgain(c) ==
    LET r == run[c]
        stored == Loadable(c) /\ class[r] \in {"ready", "failed"}
        fresh  == content = Empty /\ plan[r].git = git
    IN
    /\ pc[c] = "apply"
    /\ \/ ~(stored /\ fresh) /\ Exit(c) /\ UNCHANGED class
       \/ /\ stored /\ fresh /\ "staging" \in parts[r]
          /\ class' = [class EXCEPT ![r] = "entered"]
          /\ Goto(c, "publish") /\ UNCHANGED <<local, lock>>
    /\ UNCHANGED <<home, parts, plan, project, world, faults>>

\* Execute: the stored run, the target once more, the staged files.
ApplyCheck(c) ==
    LET r == run[c]
        stored == Loadable(c) /\ class[r] = "ready"
        fresh  == content = Empty /\ plan[r].git = git
    IN
    /\ pc[c] = "apply"
    /\ \/ /\ ~stored \/ (fresh /\ "staging" \notin parts[r])
          /\ Answer(c, "PLAN_INVALID") /\ UNCHANGED <<class, faults>>
       \/ /\ stored /\ ~fresh
          /\ Answer(c, "PLAN_STALE") /\ UNCHANGED <<class, faults>>
       \/ /\ stored /\ fresh /\ "staging" \in parts[r]
          /\ class' = [class EXCEPT ![r] = "entered"]
          /\ Goto(c, "publish") /\ UNCHANGED <<local, lock, faults>>
       \/ Fault /\ Exit(c) /\ UNCHANGED class
    /\ UNCHANGED <<home, parts, plan, project, world>>

\* Files are journaled and published.  Where a path is taken or the apply fails,
\* some files may be published by then and some journal writes lost, and the
\* rollback may be cut short.
ApplyPublish(c) ==
    LET r == run[c] IN
    /\ pc[c] = "publish"
    /\ \/ /\ content = Empty /\ content' = r
          /\ class' = [class EXCEPT ![r] = "applying"]
          /\ Goto(c, "settle") /\ UNCHANGED <<local, lock, faults>>
       \/ /\ content # Empty
          /\ \E s \in {"entered", "failed"} : class' = [class EXCEPT ![r] = s]
          /\ Exit(c) /\ UNCHANGED <<content, faults>>
       \/ /\ Fault /\ Exit(c)
          /\ \/ class' = [class EXCEPT ![r] = "failed"] /\ UNCHANGED content
             \/ /\ \E s \in Interrupted : class' = [class EXCEPT ![r] = s]
                /\ content' \in {content} \union {x \in {r} : content = Empty}
    /\ UNCHANGED <<home, parts, plan, project, git, edits>>

\* The run is finalized and its bundle removed; or it rolls back, completely or
\* not, and the last write of its journal may fail.
ApplySettle(c) ==
    LET r == run[c] IN
    /\ pc[c] = "settle"
    /\ \/ /\ content = r /\ class' = [class EXCEPT ![r] = "finalized"]
          /\ Goto(c, "remove") /\ UNCHANGED <<local, lock, content, faults>>
       \/ /\ content = r /\ content' = Empty
          /\ class' = [class EXCEPT ![r] = "failed"]
          /\ Exit(c) /\ UNCHANGED faults
       \/ /\ content # r /\ class' = [class EXCEPT ![r] = "recovery"]
          /\ Exit(c) /\ UNCHANGED <<content, faults>>
       \/ /\ Fault /\ Exit(c)
          /\ \/ content' = (IF content = r THEN Empty ELSE content) /\ UNCHANGED class
             \/ /\ \E s \in {"applying", "recovery"} : class' = [class EXCEPT ![r] = s]
                /\ UNCHANGED content
    /\ UNCHANGED <<home, parts, plan, project, git, edits>>

RecoverBegin(c) ==
    /\ \E r \in Runs, l \in {"rollback", "discard"} : class[r] # "new" /\ Begin(c, l, r)
    /\ UNCHANGED seen

\* Mutant: a file that matches is taken for missing.
RollbackKeeping(c) ==
    LET r == run[c]
        ready == Loadable(c) /\ class[r] \in Interrupted
    IN
    /\ pc[c] = "rollback"
    /\ \/ (~ready \/ content = Other) /\ UNCHANGED class
       \/ ready /\ content # Other /\ class' = [class EXCEPT ![r] = "failed"]
    /\ Exit(c)
    /\ UNCHANGED <<home, parts, plan, project, world, faults>>

\* A run that cannot be loaded or is not eligible, and a conflict, change
\* nothing.  Files of another run with the same bytes may count as those the run
\* has journaled; at a path it has not any file is a conflict.
Rollback(c) ==
    LET r == run[c]
        ready == Loadable(c) /\ class[r] \in Interrupted
        alien == \E q \in Runs \ {r} : content = q /\ class[q] = "finalized"
        clear == content # Other /\ ~(class[r] = "entered" /\ alien)
    IN
    /\ pc[c] = "rollback"
    /\ \/ (~ready \/ content \notin {r, Empty}) /\ UNCHANGED <<class, content, faults>>
       \/ /\ ready /\ clear
          /\ content' = Empty
          /\ class' = [class EXCEPT ![r] = "failed"] /\ UNCHANGED faults
       \/ /\ ready /\ Fault
          /\ content' \in {content} \union {x \in {Empty} : clear}
          /\ \E s \in {class[r]} \union {x \in {"recovery"} : class[r] # "entered"} :
                class' = [class EXCEPT ![r] = s]
    /\ Exit(c)
    /\ UNCHANGED <<home, parts, plan, project, git, edits>>

\* Mutant: any run that can be loaded may be discarded.
DiscardAnything(c) ==
    /\ pc[c] = "discard"
    /\ \/ Loadable(c) /\ Goto(c, "remove") /\ UNCHANGED <<local, lock>>
       \/ ~Loadable(c) /\ Exit(c)
    /\ UNCHANGED <<bundle, project, world, faults>>

Discard(c) ==
    LET ready == Loadable(c) /\ class[run[c]] \in Settled \union {"ready"} IN
    /\ pc[c] = "discard"
    /\ \/ ready /\ Goto(c, "remove") /\ UNCHANGED <<local, lock>>
       \/ ~ready /\ Exit(c)
    /\ UNCHANGED <<bundle, project, world, faults>>

-----------------------------------------------------------------------------
Crash(c) ==
    /\ pc[c] # "idle"
    /\ Fault /\ Exit(c)
    /\ UNCHANGED <<bundle, project, world>>

(* The user: git init, and changes to the target by hand. *)

Edit == edits < MaxEdits /\ edits' = edits + 1
      /\ UNCHANGED <<pc, local, lock, bundle, project, faults>>

GitInit == ~git /\ git' = TRUE /\ Edit /\ UNCHANGED content

UserChange ==
    /\ Edit /\ UNCHANGED git
    /\ content' \in {Empty, Other} \ {content}

PlanStep(c) ==
    \/ PlanBegin(c) \/ Scan(c) \/ ProjectID(c) \/ MakeRunDir(c) \/ WritePart(c)
    \/ WriteRun(c) \/ AdoptBegin(c) \/ AdoptID(c)
RunStep(c) ==
    \/ ApplyBegin(c) \/ ApplyCheck(c) \/ ApplyPublish(c) \/ ApplySettle(c)
    \/ RecoverBegin(c) \/ Rollback(c) \/ Discard(c)

Next ==
    \/ \E c \in Commands :
        \/ TakeLock(c) \/ RemovePart(c) \/ Emit(c) \/ Crash(c)
        \/ PlanStep(c) \/ RunStep(c)
    \/ GitInit \/ UserChange

Spec == Init /\ [][Next]_vars

-----------------------------------------------------------------------------
(* Refinement: every run lives the life of RunLife. *)

Stage(r) == IF class[r] # "new" /\ "run" \notin parts[r] THEN "gone" ELSE class[r]

Life(r) == INSTANCE RunLife WITH stage <- Stage(r), files <- content = r

RunsLive == [][\A r \in Runs : [Life(r)!Next]_(Life(r)!vars)]_vars

\* Each root's lock is the one ProjectLock implements.
Lock(d) == INSTANCE ExclusiveLock WITH Procs <- Commands, holder <- lock[d]

-----------------------------------------------------------------------------
\* A new run is stored only when no run of its root is interrupted.
PlanFailsClosed ==
    [][\A r, q \in Runs :
        class[r] = "new" /\ class'[r] = "ready" /\ home[q] = home[r]
            => class[q] \notin Interrupted]_vars

\* The evidence of an interrupted run is whole, whatever was being written or
\* removed when: recovery can load it, and no command removes any of it.
EvidenceWhole ==
    \A r \in Runs : class[r] \in Interrupted => home[r] # None /\ parts[r] = Parts

\* All plans of a root, and the identity that ADOPT reads, are of one project.
OneProject ==
    \A r \in Runs : home[r] # None /\ "plan" \in parts[r]
        => plan[r].project = project[home[r]]

\* A run that failed or was discarded has no files in the target.
FilesHaveRun ==
    \A r \in Runs : content = r => class[r] \in Interrupted \union {"finalized"}

\* What blocks a plan can be resolved: some recover command can load it.
Resolvable ==
    (\A c \in Commands : pc[c] = "idle") =>
        \A r \in Runs : home[r] # None /\ Blocks(r) => parts[r] = Parts

\* README.md: "Rollback removes only unchanged files created by the current run",
\* asked of the two ways a run is rolled back: by recover and by apply itself.
RollbackOwnFiles ==
    [][\A c \in Commands :
        pc[c] \in {"rollback", "settle"} /\ pc'[c] # pc[c] /\ content' # content
            => content = run[c]]_vars

=============================================================================
