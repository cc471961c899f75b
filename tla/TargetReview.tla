----------------------------- MODULE TargetReview -----------------------------
(***************************************************************************)
(* What the read-only plans make of a target its user goes on working in:  *)
(* InspectCreate with the CREATE planner, InspectAdopt with the ADOPT      *)
(* planner, and InspectTask, which begins with InspectAdopt, with the Task *)
(* review (internal/target/{inspect,adopt,task}.go, internal/planner/      *)
(* {planner,task}.go).  The walk, the second readings and the Git commands *)
(* are steps of their own; all writes here are the user's.                 *)
(***************************************************************************)
EXTENDS Naturals, Sequences

CONSTANTS
    Order,     \* the names the target may hold, in the order of fs.WalkDir
    Dir,       \* the directory each of them and each known path is in, or Root
    Root,
    Fold,      \* pathKey: what their lower-case form is
    Core,      \* the files every project has, the manifest aside
    Bridges,   \* the files of the optional agents
    Harmless,  \* names CREATE accepts
    Contents,  \* of files
    Says,      \* the contents that are an exord manifest, and what they say
    Branches,
    BranchKey, \* what strings.EqualFold compares of a branch
    Reserved,  \* of main, dev and master
    Worlds,    \* targets and repositories to begin with
    GitStates, \* what Git commands of the user may make of the repository
    Nodes,     \* what the user may put at each name
    Jobs,      \* the commands that may be run
    None,
    MaxEdits,  \* bound: changes by the user
    MaxFaults  \* bound: failed reads and failed Git commands

Names    == {Order[i] : i \in DOMAIN Order}
Place(n) == CHOOSE i \in DOMAIN Order : Order[i] = n
Manifest == ".exord/manifest.json"
Tasks    == {"TASK.md", ".exord/TASK.md"}
Known    == Core \union Bridges \union Tasks \union {Manifest}

\* The data of a file is its content; of a link, and of a .git that is a file, it is
\* the size, which is all the walk takes of them.
Kind  == {"absent", "DIRECTORY", "NESTED", "SYMLINK", "SPECIAL", "REGULAR"}
Node  == [kind : Kind, data : Contents]
Empty == [kind |-> "absent", data |-> ""]

\* Whether git finds a repository around the target, or through a link named .git;
\* HEAD and its commit (0 if there is none), local branches, and an operation of
\* Git: one that has a ref like MERGE_HEAD, or a rebase between two commits.
Detached == ""
GitState ==
    [enclosed : BOOLEAN, linked : BOOLEAN, branch : Branches \union {Detached}, head : Nat,
     branches : SUBSET Branches, operation : {"", "MERGE", "REBASE"}]

\* The part of a manifest the commands look at.
Statement ==
    [schema : {1, 2}, project : BOOLEAN, ours : BOOLEAN, gitMode : STRING,
     taskPath : STRING, managed : SUBSET Known, integration : SUBSET Branches]

\* An intent; "given" are the pieces of readiness evidence it has.
Evidence == {"owner", "goal", "scope", "criteria", "validation"}
Job ==
    [goal : {"create", "adopt", "task"}, bridges : SUBSET Bridges,
     work : Branches, base : Branches, status : {"DRAFT", "READY"},
     given : SUBSET Evidence]

IsTree(t) ==
    /\ t \in [Names -> Node]
    /\ \A n \in Names : Dir[n] # Root /\ t[n].kind # "absent"
                            => t[Dir[n]].kind \in {"DIRECTORY", "NESTED"}

ASSUME NamesAssumption ==
    /\ Order \in Seq(Names)
    /\ \A i, j \in DOMAIN Order : Order[i] = Order[j] => i = j
    /\ {".git", ".exord", Manifest} \subseteq Names
    /\ Root \notin Names \union Known
    /\ Manifest \notin Core \union Bridges
\* What is followed is in the target or in a directory of it; a path that another
\* equals but for its case is in a directory that the other's equals so.
ASSUME TreeAssumption ==
    /\ Dir[".git"] = Root /\ Dir[".exord"] = Root /\ Dir[Manifest] = ".exord"
    /\ \A p \in Names \union Known :
          Dir[p] # Root => Dir[p] \in Names /\ Dir[Dir[p]] = Root
ASSUME FoldAssumption ==
    /\ \A n \in Names : Fold[n] = Fold[".git"] => n = ".git"
    /\ \A n, p \in Names \union Known : Fold[n] = Fold[p] =>
          \/ Dir[n] = Root /\ Dir[p] = Root
          \/ Dir[n] # Root /\ Dir[p] # Root /\ Fold[Dir[n]] = Fold[Dir[p]]
    /\ \A n \in Harmless \intersect Names, p \in Known :
          Fold[n] # Fold[p] /\ (Dir[p] # Root => Fold[n] # Fold[Dir[p]])
ASSUME WorldsAssumption ==
    /\ \A w \in Worlds : IsTree(w.tree) /\ w.git \in GitState
    /\ GitStates \subseteq GitState /\ "" \in Contents /\ None \notin DOMAIN Says
    /\ \A n \in Names : Nodes[n] \subseteq Node
    /\ \A d \in DOMAIN Says : Says[d] \in Statement
    /\ Jobs \subseteq Job
ASSUME BoundsAssumption == MaxEdits \in Nat /\ MaxFaults \in Nat

VARIABLES
    pc,     \* what is read next, or the code of the answer
    job,    \* the command
    tree,   \* the target: what each name holds,
    git,    \* and its repository
    listed, \* names whose directory was read but that are not found yet: as what
    seen,   \* the inspection so far
    plan,   \* what is answered, or None
    edits, faults

target == <<tree, git, edits>>
vars   == <<pc, job, target, listed, seen, plan, faults>>

Answers == {"OK", "UNSUPPORTED_TARGET", "VERSION_MISMATCH"}
Labels  == {"idle", "list", "walk", "manifest", "top", "branch", "head", "status",
            "heads", "dirs", "plan", "reread", "base"} \union Answers

NoGit == [detected |-> FALSE, cli |-> TRUE, match |-> FALSE, file |-> FALSE,
          status |-> "NOT_GIT", branch |-> "", head |-> 0, operation |-> ""]

\* walked: the entries of the walk; manifest: what readManifest accepted;
\* raw: the manifest as InspectTask reads it.
Blank == [walked |-> [n \in Names |-> Empty], manifest |-> None, git |-> NoGit,
          raw |-> None]

Unlisted == [n \in Names |-> ""]

Init ==
    /\ pc = "idle"
    /\ job \in Jobs
    /\ \E w \in Worlds : tree = w.tree /\ git = w.git
    /\ listed = Unlisted
    /\ seen = Blank
    /\ plan = None
    /\ edits = 0 /\ faults = 0

-----------------------------------------------------------------------------
Fault == faults < MaxFaults /\ faults' = faults + 1
Goto(label) == pc' = label

\* An error that ends the command.
Fail == Goto("UNSUPPORTED_TARGET") /\ UNCHANGED <<listed, seen>>

Begin ==
    /\ pc \in {"idle"} \union Answers
    /\ job' \in Jobs
    /\ Goto("list")
    /\ listed' = Unlisted /\ seen' = Blank /\ plan' = None
    /\ UNCHANGED <<target, faults>>

\* The names in a directory, and whether the listing calls them directories.
ListOf(d) ==
    [n \in Names |->
        IF Dir[n] # d \/ tree[n].kind = "absent" THEN ""
        ELSE IF tree[n].kind \in {"DIRECTORY", "NESTED"} THEN "DIRECTORY" ELSE "other"]

\* InspectCreate, of which the listing is all; InspectAdopt begins its walk.
List ==
    LET at == ListOf(Root)
        kind(n) == IF at[n] = "DIRECTORY" THEN "DIRECTORY" ELSE "REGULAR"
    IN
    /\ pc = "list"
    /\ \/ /\ job.goal # "create"
          /\ listed' = at /\ Goto("walk") /\ UNCHANGED <<seen, faults>>
       \/ /\ job.goal = "create"
          /\ \A n \in Names : at[n] # "" => n \in Harmless /\ tree[n].kind # "SYMLINK"
          /\ seen' = [seen EXCEPT !.walked = [n \in Names |->
                IF at[n] = "" THEN Empty ELSE [kind |-> kind(n), data |-> ""]]]
          /\ Goto("plan") /\ UNCHANGED <<listed, faults>>
       \/ /\ job.goal = "create"
          /\ \E n \in Names : at[n] # "" /\ (n \notin Harmless \/ tree[n].kind = "SYMLINK")
          /\ Fail /\ UNCHANGED faults
       \/ Fault /\ Fail
    /\ UNCHANGED <<job, target, plan>>

(* InspectAdopt: the walk *)

Found(n, kind, data) ==
    seen' = [seen EXCEPT !.walked[n] = [kind |-> kind, data |-> data]]
Met(n, kind, data) ==
    /\ Found(n, kind, data)
    /\ listed' = [listed EXCEPT ![n] = ""] /\ UNCHANGED <<pc, faults>>
Await(n, step) ==
    listed' = [listed EXCEPT ![n] = step] /\ UNCHANGED <<pc, seen, faults>>

\* A .git is not entered, nor a directory that has one of its own: Lstat looks for
\* it.  What became a link meanwhile is followed, here to an empty directory or
\* nowhere.
VisitDirectory(n) ==
    \/ n = ".git" /\ Met(n, "GIT_DIRECTORY", "")
    \/ n # ".git" /\ tree[n].kind = "NESTED" /\ Met(n, "NESTED_GIT_DIRECTORY", "")
    \/ /\ n # ".git" /\ tree[n].kind \in {"DIRECTORY", "SYMLINK", "absent"}
       /\ Await(n, "entered")
    \/ /\ n # ".git" /\ tree[n].kind \in {"SPECIAL", "REGULAR"}
       /\ Fail /\ UNCHANGED faults

\* The ReadDir of the walk; it takes what is a directory by now.
Enter(n) ==
    \/ /\ tree[n].kind \in {"DIRECTORY", "NESTED"}
       /\ Found(n, "DIRECTORY", "")
       /\ listed' = [m \in Names |-> IF m = n THEN ""
                                     ELSE IF Dir[m] = n THEN ListOf(n)[m] ELSE listed[m]]
       /\ UNCHANGED <<pc, faults>>
    \/ tree[n].kind = "SYMLINK" /\ Met(n, "DIRECTORY", "")
    \/ tree[n].kind \notin {"DIRECTORY", "NESTED"} /\ Fail /\ UNCHANGED faults

\* What opening a name may read, or None; a link is followed to some file, or none.
Readable(n) ==
    IF tree[n].kind = "SYMLINK" THEN Contents \union {None}
    ELSE IF tree[n].kind = "REGULAR" THEN {tree[n].data} ELSE {None}

\* Info, which is an Lstat.  What is neither a link nor a file by now is "SPECIAL",
\* a directory too; a .git that is a file is not hashed.
VisitOther(n) ==
    \/ tree[n].kind = "REGULAR" /\ n # ".git" /\ Await(n, "hash")
    \/ /\ tree[n].kind = "SYMLINK" \/ (tree[n].kind = "REGULAR" /\ n = ".git")
       /\ Met(n, tree[n].kind, tree[n].data)
    \/ tree[n].kind \in {"SPECIAL", "DIRECTORY", "NESTED"} /\ Met(n, "SPECIAL", "")
    \/ tree[n].kind = "absent" /\ Fail /\ UNCHANGED faults

\* The file is opened by its name once more.
Hash(n) ==
    \/ \E d \in Readable(n) \ {None} : Met(n, "REGULAR", d)
    \/ None \in Readable(n) /\ Fail /\ UNCHANGED faults

Visit ==
    LET first(n) == listed[n] # "" /\ \A m \in Names : listed[m] # "" => Place(n) <= Place(m)
    IN
    /\ pc = "walk"
    /\ \E n \in Names :
        /\ first(n)
        /\ \/ listed[n] = "DIRECTORY" /\ VisitDirectory(n)
           \/ listed[n] = "entered" /\ Enter(n)
           \/ listed[n] = "other" /\ VisitOther(n)
           \/ listed[n] = "hash" /\ Hash(n)
           \/ Fault /\ Fail
    /\ UNCHANGED <<job, target, plan>>

\* Mutant: the first .git ends the whole walk (SkipAll for SkipDir).
EndWalkEarly ==
    /\ pc = "walk"
    /\ listed = Unlisted \/ seen.walked[".git"].kind = "GIT_DIRECTORY"
    /\ Goto("manifest")
    /\ UNCHANGED <<job, target, listed, seen, plan, faults>>

EndWalk ==
    /\ pc = "walk" /\ listed = Unlisted
    /\ Goto("manifest")
    /\ UNCHANGED <<job, target, listed, seen, plan, faults>>

\* putEntry and Entry: names that differ in case only are a conflict.
Entry(walked, key) ==
    LET same  == {n \in Names : Fold[n] = key /\ walked[n].kind # "absent"}
        first == CHOOSE n \in same : \A m \in same : Place(n) <= Place(m)
    IN  IF same = {} THEN [name |-> "", kind |-> "absent", data |-> ""]
        ELSE IF same # {first} THEN [name |-> first, kind |-> "CASE_CONFLICT", data |-> ""]
        ELSE [name |-> first, kind |-> walked[first].kind, data |-> walked[first].data]

EntryOf(p) == Entry(seen.walked, Fold[p])

\* What a file that was seen in the walk may hold when it is read again.
Reread(e) == IF e.kind = "REGULAR" THEN Readable(e.name) ELSE {None}

\* readManifest: one that cannot be read or is not of this version counts as none.
Accepted(d) == d \in DOMAIN Says /\ Says[d].schema = 1 /\ Says[d].project
ReadManifest ==
    /\ pc = "manifest"
    /\ \/ \E d \in Reread(EntryOf(Manifest)) :
             /\ seen' = IF Accepted(d) THEN [seen EXCEPT !.manifest = d] ELSE seen
             /\ UNCHANGED faults
       \/ Fault /\ UNCHANGED seen
    /\ Goto("top")
    /\ UNCHANGED <<job, target, listed, plan>>

(* InspectAdopt: inspectGit, one command after another *)

After == [branch |-> "head", head |-> "status", status |-> "heads", heads |-> "dirs"]
Inspected == IF job.goal = "task" THEN "reread" ELSE "plan"
Saw(field, value) == seen' = [seen EXCEPT !.git[field] = value]

\* A repository at the target itself; git follows a link.
Repository ==
    \/ tree[".git"].kind \in {"DIRECTORY", "NESTED", "REGULAR"}
    \/ tree[".git"].kind = "SYMLINK" /\ git.linked

\* rev-parse --show-toplevel.  Outside a repository, or without a git that can
\* be run, no further command is.
ReadTop ==
    LET marker == EntryOf(".git")
        base   == [NoGit EXCEPT !.detected = marker.kind # "absent",
                                !.file = marker.kind = "REGULAR"]
        broken == [base EXCEPT !.status =
                       IF marker.kind # "absent" THEN "INVALID_REPOSITORY" ELSE "NOT_GIT"]
    IN
    /\ pc = "top"
    /\ \/ /\ Repository
          /\ seen' = [seen EXCEPT !.git = [base EXCEPT !.detected = TRUE, !.match = TRUE,
                                                       !.status = "OK"]]
          /\ Goto("branch") /\ UNCHANGED faults
       \/ /\ ~Repository /\ git.enclosed
          /\ seen' = [seen EXCEPT !.git = [base EXCEPT !.detected = TRUE,
                                                       !.status = "NESTED_DIRECTORY"]]
          /\ Goto(Inspected) /\ UNCHANGED faults
       \/ /\ (~Repository /\ ~git.enclosed /\ UNCHANGED faults) \/ Fault
          /\ seen' = [seen EXCEPT !.git = broken]
          /\ Goto(Inspected)
       \/ /\ Fault
          /\ seen' = [seen EXCEPT !.git = [base EXCEPT !.cli = FALSE, !.status =
                         IF marker.kind # "absent" THEN "CLI_UNAVAILABLE" ELSE "NOT_GIT"]]
          /\ Goto(Inspected)
    /\ UNCHANGED <<job, target, listed, plan>>

\* symbolic-ref; it fails where HEAD is detached, which leaves no name either.
ReadBranch ==
    /\ pc = "branch"
    /\ (Saw("branch", git.branch) /\ UNCHANGED faults) \/ (Fault /\ UNCHANGED seen)
    /\ Goto(After[pc])
    /\ UNCHANGED <<job, target, listed, plan>>

\* rev-parse HEAD; what fails is unborn.
ReadHead ==
    /\ pc = "head"
    /\ (Saw("head", git.head) /\ UNCHANGED faults) \/ (Fault /\ UNCHANGED seen)
    /\ Goto(After[pc])
    /\ UNCHANGED <<job, target, listed, plan>>

\* status and ls-files, whose counts are left out here.
ReadStatus ==
    /\ pc = "status"
    /\ UNCHANGED <<seen, faults>> \/ (Fault /\ Saw("status", "STATUS_UNAVAILABLE"))
    /\ Goto(After[pc])
    /\ UNCHANGED <<job, target, listed, plan>>

\* MERGE_HEAD and its like; a command that fails found none.
ReadHeads ==
    /\ pc = "heads"
    /\ \/ git.operation = "MERGE" /\ Saw("operation", "MERGE") /\ UNCHANGED faults
       \/ git.operation # "MERGE" /\ UNCHANGED <<seen, faults>>
       \/ Fault /\ UNCHANGED seen
    /\ Goto(After[pc])
    /\ UNCHANGED <<job, target, listed, plan>>

\* The directories of a rebase, if nothing was found yet.
ReadDirs ==
    /\ pc = "dirs"
    /\ \/ /\ seen.git.operation = "" /\ git.operation = "REBASE"
          /\ Saw("operation", "REBASE") /\ UNCHANGED faults
       \/ (seen.git.operation # "" \/ git.operation # "REBASE") /\ UNCHANGED <<seen, faults>>
       \/ /\ seen.git.operation = "" /\ Fault
          /\ UNCHANGED seen \/ Saw("status", "STATUS_UNAVAILABLE")
    /\ Goto(Inspected)
    /\ UNCHANGED <<job, target, listed, plan>>

\* The fingerprint: all entries of the walk, and of the Git facts these.
GitFacts(g) == <<g.status, g.branch, g.head, g.operation>>
Fingerprint(walked, g) ==
    <<{<<n, walked[n]>> : n \in {m \in Names : walked[m].kind # "absent"}}, GitFacts(g)>>

-----------------------------------------------------------------------------
(* The planners of CREATE and ADOPT *)

Rendered == Core \union job.bridges

\* guidanceAnalysis; a baseline is the hash of the rendered text, "base".
Guidance(p) ==
    LET e == EntryOf(p)
        managed == seen.manifest # None /\ p \in Says[seen.manifest].managed
    IN  IF e.kind = "absent" THEN "MISSING"
        ELSE IF e.kind = "SYMLINK" THEN "LINKED_PATH"
        ELSE IF e.kind # "REGULAR" THEN "TYPE_CONFLICT"
        ELSE IF ~managed THEN "USER_OWNED"
        ELSE IF e.data = "base" THEN "MANAGED_UNMODIFIED" ELSE "MANAGED_MODIFIED"

\* Mutant: what a parent directory is, is not looked at.
ParentConflictNone(p) == FALSE

\* adoptParentConflict; the known paths have one parent at most.
ParentConflict(p) ==
    Dir[p] # Root /\ EntryOf(Dir[p]).kind \notin {"absent", "DIRECTORY"}

Free(p) == Guidance(p) = "MISSING" /\ ~ParentConflict(p)

\* Operations, the files a new manifest lists, and the reasons of conflicts.
BuildAdopt ==
    LET wanted == Rendered \union {Manifest}
    IN [operations |-> {p \in wanted : Free(p)},
        managed    |-> {p \in Rendered : Free(p)},
        conflicts  |-> [p \in {q \in wanted : ~Free(q)} |->
                           IF Guidance(p) = "MISSING" THEN "PARENT_NOT_DIRECTORY"
                           ELSE Guidance(p)],
        gitMode    |-> IF seen.git.detected /\ seen.git.match THEN "ENABLED"
                       ELSE "DOCUMENT_ONLY"]

BuildCreate ==
    [operations |-> Rendered \union {Manifest},
     managed    |-> Rendered,
     conflicts  |-> <<>>,
     gitMode    |-> IF seen.walked[".git"].kind # "absent" THEN "ENABLED"
                    ELSE "DOCUMENT_ONLY"]

\* runAdoptPlan: a repository whose state is not certain is refused.
Uncertain(g) ==
    g.detected /\ (~g.cli \/ ~g.match \/ g.status \in {"INVALID_REPOSITORY", "STATUS_UNAVAILABLE"})

Plan ==
    /\ pc = "plan"
    /\ \/ /\ job.goal = "create" \/ ~Uncertain(seen.git)
          /\ plan' = [fingerprint |-> Fingerprint(seen.walked, seen.git),
                      setup |-> IF job.goal = "create" THEN BuildCreate ELSE BuildAdopt]
          /\ Goto("OK") /\ UNCHANGED <<listed, seen>>
       \/ job.goal = "adopt" /\ Uncertain(seen.git) /\ Fail /\ UNCHANGED plan
    /\ UNCHANGED <<job, target, faults>>

-----------------------------------------------------------------------------
(* InspectTask and the Task review *)

\* A project of ours, at exactly these names, and the manifest once more.
ReadProject ==
    LET named == /\ EntryOf(".exord").kind = "DIRECTORY" /\ EntryOf(".exord").name = ".exord"
                 /\ EntryOf(Manifest).name = Manifest
        ours(m)   == named /\ m \in DOMAIN Says /\ Says[m].project /\ Says[m].ours
        usable(m) == Says[m].gitMode = "ENABLED" /\ Says[m].taskPath \in Tasks
    IN
    /\ pc = "reread"
    /\ \/ \E m \in Reread(EntryOf(Manifest)) :
             /\ \/ /\ ours(m) /\ Says[m].schema = 1 /\ usable(m)
                   /\ seen' = [seen EXCEPT !.raw = m] /\ Goto("base") /\ UNCHANGED listed
                \/ /\ ours(m) /\ Says[m].schema # 1
                   /\ Goto("VERSION_MISMATCH") /\ UNCHANGED <<listed, seen>>
                \/ ~ours(m) /\ Fail
                \/ ours(m) /\ Says[m].schema = 1 /\ ~usable(m) /\ Fail
             /\ UNCHANGED faults
       \/ Fault /\ Fail
    /\ UNCHANGED <<job, target, plan>>

Ordinary(g) == g.detected /\ g.cli /\ g.match /\ g.status = "OK" /\ ~g.file

\* Mutant: branch names are compared as they are written.
ProtectedExactly(b, i, m) == b \in Reserved \union {i.base} \union Says[m].integration

\* The branches a task may not be on, whatever their case.
Protected(b, i, m) ==
    \E c \in Reserved \union {i.base} \union Says[m].integration : BranchKey[b] = BranchKey[c]

\* BuildTaskReview
Blockers(g, base) ==
    {x \in {"ORDINARY_GIT_REPOSITORY_REQUIRED"} : ~Ordinary(g)}
    \union {x \in {"BORN_BRANCH_REQUIRED"} : g.head = 0}
    \union {x \in {"ATTACHED_BRANCH_REQUIRED"} : g.branch = Detached}
    \union {x \in {"GIT_OPERATION_IN_PROGRESS"} : g.operation # ""}
    \union {x \in {"WORK_BRANCH_MISMATCH"} : g.branch # job.work}
    \union {x \in {"INTEGRATION_BRANCH"} :
                g.branch # Detached /\ Protected(g.branch, job, seen.raw)}
    \union {x \in {"EXISTING_TASK_CONFLICT"} :
                \E p \in Tasks \union {Says[seen.raw].taskPath} : EntryOf(p).kind # "absent"}
    \union {x \in {"LOCAL_BASE_BRANCH_REQUIRED"} : ~base}

Gaps == Evidence \ job.given

\* A .git that is no directory is no repository.
TaskGit ==
    IF EntryOf(".git").kind = "GIT_DIRECTORY" THEN seen.git
    ELSE [seen.git EXCEPT !.status = "INVALID_REPOSITORY"]

ReviewWith(base) ==
    LET blockers == Blockers(TaskGit, base)
    IN [fingerprint |-> <<Fingerprint(seen.walked, seen.git), seen.raw>>,
        blockers    |-> blockers,
        disposition |-> IF blockers # {} \/ (job.status = "READY" /\ Gaps # {}) THEN "BLOCKED"
                        ELSE IF Gaps = {} THEN "READY_FOR_REVIEW" ELSE "DRAFT"]

\* Mutant: only the answer "no such branch" counts, not an error of show-ref.
ReviewTrusting ==
    /\ pc = "base"
    /\ \/ /\ plan' = ReviewWith(TaskGit.status = "OK" /\ job.base \in git.branches)
          /\ UNCHANGED faults
       \/ Fault /\ plan' = ReviewWith(TaskGit.status = "OK")
    /\ Goto("OK")
    /\ UNCHANGED <<job, target, listed, seen>>

\* show-ref of the base branch, then the review.
Review ==
    /\ pc = "base"
    /\ \/ /\ plan' = ReviewWith(TaskGit.status = "OK" /\ job.base \in git.branches)
          /\ UNCHANGED faults
       \/ Fault /\ plan' = ReviewWith(FALSE)
    /\ Goto("OK")
    /\ UNCHANGED <<job, target, listed, seen>>

-----------------------------------------------------------------------------
(* The user *)

Edit == edits < MaxEdits /\ edits' = edits + 1
      /\ UNCHANGED <<pc, job, listed, seen, plan, faults>>

\* What was in a directory goes with it.
ChangeName(n) ==
    /\ Edit
    /\ \E v \in Nodes[n] \ {tree[n]} :
        /\ tree' = [m \in Names |->
                      IF m = n THEN v
                      ELSE IF Dir[m] = n /\ v.kind \notin {"DIRECTORY", "NESTED"} THEN Empty
                      ELSE tree[m]]
        /\ IsTree(tree')
    /\ UNCHANGED git

ChangeGit == Edit /\ git' \in GitStates \ {git} /\ UNCHANGED tree

Inspect ==
    \/ List \/ Visit \/ EndWalk \/ ReadManifest \/ ReadTop \/ ReadBranch \/ ReadHead
    \/ ReadStatus \/ ReadHeads \/ ReadDirs \/ ReadProject

Next ==
    \/ Begin \/ Inspect \/ Plan \/ Review
    \/ \E n \in Names : ChangeName(n)
    \/ ChangeGit

Spec == Init /\ [][Next]_vars

-----------------------------------------------------------------------------
SeenKind == Kind \union {"GIT_DIRECTORY", "NESTED_GIT_DIRECTORY"}
GitSeen ==
    [detected : BOOLEAN, cli : BOOLEAN, match : BOOLEAN, file : BOOLEAN,
     status : {"NOT_GIT", "OK", "CLI_UNAVAILABLE", "INVALID_REPOSITORY",
               "NESTED_DIRECTORY", "STATUS_UNAVAILABLE"},
     branch : Branches \union {Detached}, head : Nat,
     operation : {"", "MERGE", "REBASE"}]

\* As what a name is listed: found, as the directory listing has it, or between the
\* two steps of a visit.
Listing == {"", "DIRECTORY", "other", "entered", "hash"}

\* What is listed is in a directory that was entered, and not yet found.
TypeOK ==
    /\ pc \in Labels
    /\ job \in Job
    /\ IsTree(tree)
    /\ git \in GitState
    /\ listed \in [Names -> Listing]
    /\ seen \in [walked : [Names -> [kind : SeenKind, data : Contents]],
                manifest : DOMAIN Says \union {None}, git : GitSeen,
                raw : DOMAIN Says \union {None}]
    /\ \A n \in Names : listed[n] # "" => /\ pc \in {"walk", "UNSUPPORTED_TARGET"}
                                         /\ seen.walked[n].kind = "absent"
    /\ pc # "OK" => plan = None
    /\ edits \in 0..MaxEdits /\ faults \in 0..MaxFaults

\* What an inspection would find if nothing changed while it reads.
Reached(n) ==
    /\ tree[n].kind # "absent"
    /\ \/ Dir[n] = Root
       \/ job.goal # "create" /\ Dir[n] # ".git" /\ tree[Dir[n]].kind = "DIRECTORY"
NowEntry(n) ==
    IF ~Reached(n) THEN Empty
    ELSE IF job.goal = "create" THEN
        [kind |-> IF tree[n].kind \in {"DIRECTORY", "NESTED"} THEN "DIRECTORY" ELSE "REGULAR",
         data |-> ""]
    ELSE IF tree[n].kind \in {"SYMLINK", "REGULAR"} THEN tree[n]
    ELSE [kind |-> IF tree[n].kind = "SPECIAL" THEN "SPECIAL"
                   ELSE IF n = ".git" THEN "GIT_DIRECTORY"
                   ELSE IF tree[n].kind = "NESTED" THEN "NESTED_GIT_DIRECTORY"
                   ELSE "DIRECTORY",
          data |-> ""]
NowWalked == [n \in Names |-> NowEntry(n)]
NowGit ==
    IF job.goal = "create" THEN NoGit
    ELSE IF Repository
        THEN [NoGit EXCEPT !.status = "OK", !.branch = git.branch, !.head = git.head,
                           !.operation = git.operation]
    ELSE [NoGit EXCEPT !.status =
             IF git.enclosed THEN "NESTED_DIRECTORY"
             ELSE IF tree[".git"].kind = "absent" THEN "NOT_GIT" ELSE "INVALID_REPOSITORY"]

\* A CREATE or ADOPT plan whose fingerprint fits the target creates nothing where
\* a name is taken, in whatever case, or under what is not an ordinary directory;
\* and its manifest claims the files the plan creates and no other, none of the
\* user's.
FittingPlanIsFree ==
    pc = "OK" /\ job.goal # "task" /\ plan.fingerprint = Fingerprint(NowWalked, NowGit) =>
        /\ \A p \in plan.setup.operations, n \in Names :
              tree[n].kind # "absent" =>
                  /\ Fold[n] # Fold[p]
                  /\ Dir[p] # Root /\ Fold[n] = Fold[Dir[p]] => tree[n].kind = "DIRECTORY"
        /\ Manifest \in plan.setup.operations =>
              plan.setup.managed = plan.setup.operations \ {Manifest}

\* Whether a task may be prepared on the target and repository as they are: what
\* docs/spec/protocol.md lists, asked of them and not of what was seen.
TaskTaken == \E n \in Names : Reached(n) /\ \E p \in Tasks : Fold[n] = Fold[p]
Integration == Reserved \union {job.base} \union Says[tree[Manifest].data].integration
Fit ==
    /\ tree[".git"].kind \in {"DIRECTORY", "NESTED"}
    /\ git.head # 0 /\ git.branch # Detached /\ git.branch = job.work
    /\ \A b \in Integration : BranchKey[git.branch] # BranchKey[b]
    /\ ~TaskTaken
Settled == job.status = "READY" => Gaps = {}

\* A review whose fingerprint fits the target and repository is right about them,
\* except about the base branch, which is not part of the fingerprint: one that
\* is not BLOCKED finds nothing in the way, and one that is has a reason.
FittingReviewIsRight ==
    pc = "OK" /\ job.goal = "task"
    /\ plan.fingerprint = <<Fingerprint(NowWalked, NowGit), tree[Manifest].data>> =>
        /\ plan.disposition # "BLOCKED" => Fit /\ git.operation = "" /\ Settled
        /\ plan.disposition = "BLOCKED" /\ "LOCAL_BASE_BRANCH_REQUIRED" \notin plan.blockers
              => ~(Fit /\ git.operation = "" /\ Settled)

\* A read or a Git command that fails hides nothing that is in the way of a task,
\* an operation in progress apart; while nobody works on the target, a review
\* that is not BLOCKED is of a repository fit for it.
FailsClosed ==
    pc = "OK" /\ job.goal = "task" /\ edits = 0 /\ plan.disposition # "BLOCKED" =>
        /\ Fit /\ job.base \in git.branches /\ Settled
        /\ faults = 0 => git.operation = ""

=============================================================================
