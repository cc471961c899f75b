# A verification project for exord-init

exord-init is a Go command line engine that initialises a project directory for
work with coding agents. It plans a change, has the plan approved by its hash,
applies it to the target directory, and rolls it back when that fails or is
interrupted. The program is a set of short commands that share three things: the
**target** directory, which the user edits at the same time, the **local state**
(run bundles, task drafts, `lock.json`, `project.json`) and the **project lock**.
A command may be killed at any system call. What has to be right is therefore the
order of writes, what a later command makes of what an earlier one left, and what
is believed of a target that has changed since it was read. That is what is
modelled here, in TLA+, checked with TLC and proved with TLAPS.

Paths below are relative to the repository, `internal/` is `engine/internal/`.

## 1. Inventory

| Component | State it keeps | Operations | Hard behaviour |
|---|---|---|---|
| CREATE apply (`internal/apply`) | `run.json` (status, stage, one status per operation), target files, temporary files, directories | execute, writeCreate, validation, in-process rollback, removal of the bundle | crash or I/O error between a journal write and a file; user edits at any time |
| Recovery (`internal/recovery`) | the same journal and target | inspect, rollback, discard | repeated after its own crash; hash check, then removal by name |
| Project lock (`internal/state/state.go`, `lock_*.go`) | `lock.json`: a name, the files it has stood for, their advisory locks, owner tokens | Acquire, Release | the lock is on a file, the removal on a name; killed owners |
| Run store (`internal/state/state.go`, `retained.go`) | `runs/<id>/{staging,plan.json,run.json}`, `project.json`, in `.git` or in the user's state directory | PersistPrepared, Load, ListRetainedRuns, DiscardRun, ProjectID | half-written bundles, a bounded listing, a root that moves |
| CLI (`cmd/exord-init/main.go`) | none | plan, apply, recover, task, doctor and their answers | what is looked at before the lock and used under it |
| Task drafts (`state/task_draft.go`, `target/task_ids.go`, `task/id.go`, `task_prepare.go`) | `task-drafts/<hash>/identity.json` and `plans/<hash>.json` | prepare: scan, resume or allocate, publish | crash between directory and identity, a bounded scan, IDs unique over Git and local drafts |
| Target inspection (`target/inspect.go`, `adopt.go`) | none | InspectCreate, InspectAdopt | a walk and six Git commands while the user works; reads that fail |
| Task review (`target/task.go`, `planner/task.go`) | none | InspectTask, BuildTaskReview | a second reading of the manifest; a decision table that must fail closed |
| CREATE and ADOPT planners (`planner/planner.go`) | none | operations, conflicts and manifest of a plan | names that differ in case, links and files in the place of directories |
| Upgrade planning (`target/upgrade.go`, `planner/upgrade.go`) | none | `plan --upgrade` | read file by file while the user works; an ordered switch with a worst-of |
| Approval, canonical JSON, identifiers, types | none | pure functions | time window, key order above U+FFFF |

How they interact. `plan` inspects the target, takes the lock of the state root,
scans the retained runs, and stores a bundle. `apply` loads the bundle, compares
the target's fingerprint with the plan's, then publishes file after file, each
framed by journal writes. `recover` loads the same bundle, interrupted, and takes
the files back. `plan` of an ADOPT intent, `plan --upgrade` and `task` only read the
target and answer a fingerprint of what they read; ADOPT meets the others in
`project.json`. `task --prepare` reviews the target in the same way, then uses the
same lock with records of its own.

What makes each component correct, and where that is stated:

* **apply and recovery** (`CreateRun`): the journal is ahead of the target
  (`WriteAhead`); a settled run has all files or none (`FinalizedWhole`,
  `RolledBackClean`, `NoOrphans`, the refinement `KeepsPromise`), and a rollback
  leaves nothing but what it could not remove, whatever made the apply fail
  (`CleanAbort`); what `run.json` tells other commands of the run is true at every
  instant (the refinement `LivesLife`); faults alone are never a conflict (`ConflictNeedsUser`); nothing of the user's is replaced
  (`NeverOverwrite`); the manifest is last (`ManifestLast`); no copy of the journal
  takes it back (`JournalForward`); every command ends and every interrupted run
  can be settled (`CommandEnds`, `Recovers`).
* **lock** (`ProjectLock`): exclusion, as good as a lock of one step, intact tokens, no
  lock left by the dead (`MutualExclusion`, `IsExclusiveLock`, `TokenIntact`,
  `LockedMeansRunning`, `LockEnds`).
* **run store** (`RunStore`): `plan` fails closed, evidence is whole, one identity
  per root, files in the target are some run's (`PlanFailsClosed`, `EvidenceWhole`,
  `OneProject`, `FilesHaveRun`), and concurrent commands take each run only along its
  life (`RunsLive`).
* **task drafts** (`TaskDrafts`): unique, immutable, resumable (`UniqueTasks`,
  `RecordsImmutable`, `AnswerStored`, `WholeDrafts`, `ResumeUnlessDamaged`); where the
  lock excludes, the drafts are the registry they look like (`KeepsRegistry`).
* **inspection, planners, review** (`TargetReview`): a plan that fits the target
  creates nothing over or through what is there and claims what it creates
  (`FittingPlanIsFree`); a review that fits is right (`FittingReviewIsRight`); a read
  that fails lets nothing through (`FailsClosed`).
* **upgrade** (`UpgradePlan`): nothing that needs a person is automatic, nobody is
  stopped without a reason, a plan that fits the target is right
  (`AutomaticIsSafe`, `StoppedForReason`, `AnalysedSeen`, `FittingPlanIsRight`).

`PROJECT.json` lists the components with what is and is not modelled of each, and
under `hazards` the places in the code where these things are decided.

## 2. Modules

| Module | Models | Extends or instantiates |
|---|---|---|
| `CreateRun` | one CREATE run: apply, rollback, recover, discard | instantiates `CreateOutcome`, `RunLife` |
| `CreateOutcome` | what a run promises the user, without journal or process | |
| `RunLife` | what a run shows other commands: its stage, and whether it has files | |
| `CreateRunInv` | the inductive invariants of `CreateRun` | `CreateRun` |
| `CreateRunProofs` | theorems: the invariants | `CreateRunInv` |
| `CreateRunStepProofs` | theorems: the action properties | `CreateRunProofs` |
| `CreateRunRefines` | theorems: the refinements of `CreateOutcome` and `RunLife` | `CreateRunStepProofs` |
| `ProjectLock` | Acquire and Release, system call by system call | instantiates `ExclusiveLock` |
| `ExclusiveLock` | a lock taken and left in one step | |
| `ProjectLockProofs` | theorems of `ProjectLock` | `ProjectLock` |
| `RunStore` | the bundles of a target under concurrent commands | instantiates `RunLife`, `ExclusiveLock` |
| `RunStoreInv`, `RunStoreProofs` | its inductive invariant and its theorems | `RunStore` |
| `TaskDrafts` | preparations of tasks | instantiates `DraftRegistry`, `ExclusiveLock` |
| `DraftRegistry` | what a preparation promises, without directories or scans | |
| `TaskDraftsProofs` | its inductive invariant and its theorems | `TaskDrafts` |
| `TargetReview` | inspection, CREATE and ADOPT plans, Task reviews | |
| `TargetReviewProofs` | its inductive invariant and its theorems | `TargetReview` |
| `UpgradePlan` | `plan --upgrade` | |
| `UpgradePlanProofs` | its inductive invariant and its theorems | `UpgradePlan` |
| `MCRunStore`, `MCTaskDrafts`, `MCTargetReview`, `MCUpgradePlan` | symmetry and constant values for TLC | the module of that name |

The modules meet in abstract specifications, which one implements and another relies
on; each of these meetings is a theorem (section 5).

* `RunLife` is the life of a run as other commands see it. `CreateRun` implements it
  with the small steps of one run, the lock taken for granted; `RunStore` implements it
  run by run with many runs and commands, whose `apply` and `recover` are large steps.
  Both must give a run no step that `RunLife` lacks, so a large step can neither lose
  evidence nor skip a stage which the small ones go through.
* `ExclusiveLock` is a lock with one step to take it and one to leave it. `ProjectLock`
  implements it as long as no open `lock.json` loses its name; the locks of `RunStore`,
  one for each state root, and of `TaskDrafts`, where its variable `excludes` holds,
  are that lock and nothing stronger.
* `DraftRegistry` is what a preparation promises; `TaskDrafts` implements it where the
  lock excludes.

`TargetClean` of `CreateRun` and `content = Empty` of `RunStore` are the verdicts
whose reading `TargetReview` has in steps. A review that is not BLOCKED is where a
preparation of `TaskDrafts` begins.

Definitions that begin with a comment `Mutant:` are deliberately wrong variants of
the definition after them. They are used by no specification: each shows that some
property would notice the mistake.

### CreateRun

The plan's operations are the numbers `1..NumPaths` in path order. Path 1 is
`.exord/manifest.json`, which sorts first of all paths a plan can have and is
moved last by `verifyStaging` (`ApplyPath`). Recovery walks the plan backwards in
its own order, the in-process rollback walks the created files backwards, so the
three loops go through the same files in three orders.

`journal` is `run.json`, `mem` the copy of the command at work. Every `WriteJournal`
is one atomic step (a temporary file and a rename) that may fail. `writeCreate` is
five: parent directories, temporary file, link, removal of the temporary file, and
the return, after which `APPLIED` is journaled. After an error its two deferred
removals are two more (`UndoTemp`, `UndoDirs`). A removal may fail, and the code goes on
without it wherever that happens; `missed` has the paths at which an I/O error did that
to the command, a history that no step reads. `file[p]` tells apart what the code
can: `absent`, `generated` (published by the run), `restored` (the same bytes put
there by somebody else; the code cannot tell these from `generated`) and `foreign`
(anything else). Validators may accept or reject what they read, but a rejected
run rolls back either way. Failed checks that change nothing are no step.

`Crash` drops the command's memory and nothing else; every completed system call
holds. Loss of directory updates after a power failure is not modelled: the code
syncs files but not directories.

### ProjectLock

`path` is the file that the name `lock.json` stands for, `fd` the file each process
has open, `owner` the advisory lock of each file, `token` its content. A file may be
unlinked while it is open on unix and not on Windows, where Go opens files without
`FILE_SHARE_DELETE`: this is the constant `UnlinkOpen`. `Release` is read, unlock,
close, remove, as in the code, and `Crash` may fall anywhere.

### RunStore

Commands begin again and again. `goal` is the label at which one goes on once it has
the lock. The inspection (`seen`, the emptiness of `content`) and the lookup of the
state root precede the lock, as in the code, so a `git init` can move the root before
or after the lookup. Bundles are written part by part and removed in any order
(`RemoveAll`). Run IDs are random and `ListRetainedRuns` lists in the order of the
IDs, so IDs are numbers and `Listed` takes the lowest. `class` has the journal in as
many values as commands can tell apart; `entered` is a run interrupted before all of
its files were journaled, for which another's file is a conflict, `applying` one
interrupted after that, `recovery` one whose rollback fell short. An apply that is cut
short, or that finds a path taken, leaves any of these behind, with or without files,
as the last write that succeeded has it. A target with files of another run that have
the same bytes counts as the run's own for `Rollback`, since only hashes are compared.

### TaskDrafts

A branch stands for its draft, since the directory's name is a hash of project and
branch. The create-only link makes a record whole or absent; the directory is a step
of its own. What Git knows of Task IDs is `mentions`, with the name of a branch as a
place of its own because the current one is exempt.

### TargetReview

One module for everything that reads the target, because `InspectTask` begins with
`InspectAdopt` and the three answers have one fingerprint. `tree` has what each name
of the target holds, `git` the repository; the user may change either between any two
steps. `List` reads the root (all there is to `InspectCreate`), `Visit` takes the next
name in the order of `fs.WalkDir`: what the listing called a directory is entered,
what it did not is looked at again with `Lstat`, so a name that changed between the
two is seen as neither. A visit is two steps where the code looks twice: for a `.git` in
a directory and then into it (`VisitDirectory`, `Enter`), at a file and then into it
(`VisitOther`, `Hash`). What became a link meanwhile is followed, a directory to an empty
one or nowhere, a file to any content or none, a `.git` to a repository or not
(`linked`). `ReadManifest` is the first reading of the manifest, each Git
command of `inspectGit` is a step, `ReadProject` the second reading, and `Review` the
last command with the decision. A read that fails ends the inspection or leaves a
default, as the code has it for each.

Names fold to `Fold[n]` as `pathKey` does, branches to `BranchKey[b]`. `Entry` is what
`putEntry` leaves for a key: a name, nothing, or a `CASE_CONFLICT`. The planners are
operators (`BuildCreate`, `BuildAdopt`, `Blockers`, `ReviewWith`). The properties ask
the target itself (`NowWalked`, `NowGit`, `Fit`) and not what was seen of it.

### UpgradePlan

The inspection reads the manifest, the files in any order (Go's map iteration), then
`.git`; the user may change any of them in between. The planner's parts are
operators: `Judge` (the switch), `Worst` (the fold of `worseDisposition`, as a
maximum), `Direction` (the comparison of versions, which are sequences of fields
with -1 for one that is no number). A symlink and a directory in the place of a file
are one value, as the code treats them alike. The fingerprint is what is hashed.

## 3. Runs

| Run | Configuration | Shows |
|---|---|---|
| `create_run` | 3 paths, 2 nested; 2 faults; 1 edit per path; fairness | all safety and action properties of a run, the refinements of `CreateOutcome` and `RunLife`, both liveness properties |
| `create_race` | the same, no fairness | **violated** `OnlyMatchedRemoved` |
| `lock_windows` | 3 processes, 3 files, 2 faults, fairness | the lock is right where open files cannot be removed, and implements `ExclusiveLock` |
| `lock_race` | 3 processes, unix, no fault | **violated** `MutualExclusion` |
| `store_safety` | 2 commands, 2 runs, 1 fault, 1 edit | the store's safety while the listing is complete, and that its runs live `RunLife` |
| `store_cap` | 3 runs, the listing capped at 1 | **violated** `PlanFailsClosed` |
| `store_stuck` | 1 command, 2 runs, 1 crash | **violated** `Resolvable` |
| `store_takeover` | 1 command, 2 runs, 1 fault, no edit | **violated** `RollbackOwnFiles` |
| `tasks_safety` | 2 commands, 2 branches, 2 faults, 1 edit, both kinds of lock | the drafts' properties |
| `tasks_limit` | 1 command, 2 branches, scan limit 1 | **violated** `Reusable` |
| `upgrade_plan` | 2 files, 360 manifests (6 records per file, 4 versions), 1 edit, 1 failed read | the planner against a definition without order |
| `target_review` | 8 names, 9 targets, 8 repository states, 6 commands, 1 edit, 1 failed read or Git command | plans and reviews against the target itself |

Why the bounds are enough to be interesting. Three paths give a manifest, a nested
path and a plain path, the three orders of the loops all differ, and a file can be
before, at and after the one at work. Two faults are a crash and a second one during
the recovery from it, or a failed write and a failed rollback of it; two killed
preparations are what a second unfinished draft would need. One edit per path
is a file put there, replaced or taken away at any moment, on every path at once.
Three processes are what the lock's race needs: one that removes, one with the removed
file, one with the new. Two bundles are a run in progress and one interrupted; with
`MaxListed` = 2 the listing is complete, as it is in practice below 512, and
`store_cap` looks beyond. With a scan limit of 1 two drafts are one too many, as 257
are for the code. In the upgrade run each record stands for one case of the switch, so
pairs of files give every pair of outcomes to the fold. In the review run the targets
are an empty one, a bare repository, a project, one with a changed file, two names that
differ in case (a link and a directory), a nested repository and a `.git` file, a task
document, a manifest with protected branches, a directory inside another repository, a
`.git` that is a link to one; each name may change to everything the walk tells apart. One edit is a change between
any two reads, which is what a torn inspection needs.

What bounds cannot show is proved (section 5): every safety and action property of a
passing run is a theorem for all instances that keep the assumption which its run makes
of the lock (`UnlinkOpen = FALSE`) and of the listing (`MaxListed`). `RunLife` is checked
by TLC in two runs, as a property of one run in small steps and of two in large ones.

Only the runs of `CreateRun` switch off the check for deadlock: once the bundle is
gone and the user's edits are used up, the system has ended. `store_safety` has one
fault, since run IDs are used once and a second crash could use up both.

## 4. Fairness

`FairSpec` of `CreateRun` has weak fairness of the steps of a started command (a
command is one process that blocks on nobody; it runs on until it ends or dies, and
`MaxFaults` bounds the deaths) and of `RecoverBegin`. The latter is the user: an
interrupted run blocks every `plan`, and the answer names the recovery. `Recovers`
therefore says: a user who tries again gets there, unless a conflict is in the way.
No fairness is assumed of `apply`, of `discard` or of an edit. `FairSpec` of
`ProjectLock` has weak fairness of the steps of started commands: the lock is tried
without waiting. The other modules state no liveness: their commands are sequences
without loops over anything but finite lists.

## 5. Proofs

TLAPS proves, for every value of the constants that the named assumptions allow (TLC
evaluates these in every run) and for any number of faults and edits:

| Module | Theorem | States |
|---|---|---|
| `CreateRunProofs` | `Inductive` | `Spec => []IInv`, the invariant below |
| | `TypeCorrect` | `[]TypeOK` |
| | `JournalKnowsEveryFile` | `[]WriteAhead` |
| | `RecoveryIsPossible` | `[]ConflictNeedsUser` |
| | `FailedLeavesNothing` | `[]RolledBackClean` |
| | `FinalizedIsWhole` | `[]FinalizedWhole` |
| | `RecordOutlivesFiles` | `[]NoOrphans`: the bundle is removed only when the files are final or none is left |
| | `CleanAborts` | `[]CleanAbort` |
| `CreateRunStepProofs` | `UserFilesStay` | `NeverOverwrite` |
| | `ManifestIsLast` | `ManifestLast` |
| | `JournalMovesForward` | `JournalForward` |
| | `OnlyTheRaceRemoves` | `OnlyMatchedRemoved`, if no edit falls between a hash check and its removal |
| | `CommandsShrink` | the measure `Left`, at most `10 * NumPaths + 5`, falls with every step of a command |
| | `PreflightSuffices` | `RecoveryEnds`: a recovery that nothing disturbs ends `FAILED`, or stops at a conflict before it removes anything |
| `CreateRunRefines` | `RunKeepsPromise` | `KeepsPromise`: `CreateRun` implements `CreateOutcome` |
| | `RunLivesLife` | `LivesLife`: `CreateRun` implements `RunLife` |
| `ProjectLockProofs` | `LockTypeCorrect`, `TokenStays`, `LockedIsLive` | `[]TypeOK`, `[]TokenIntact`, `LockedMeansRunning`, on either platform |
| | `LockInductive`, `ExclusionByName`, `LockByName` | `[]LockInv`, `[]MutualExclusion`, `IsExclusiveLock`, on either platform, in behaviours with `OpenNameStays` |
| | `Exclusion`, `ImplementsLock` | `[]MutualExclusion`, `IsExclusiveLock`, where `UnlinkOpen = FALSE` |
| `RunStoreProofs` | `StoreInductive` | `Spec => []StoreInv`, the invariant below |
| | `StoreTypes`, `EvidenceIsWhole`, `ProjectIsOne`, `FilesBelongToRun` | `[]TypeOK`, `[]EvidenceWhole`, `[]OneProject`, `[]FilesHaveRun` |
| | `StoreLivesLives`, `StoreImplementsLife` | `RunsLive`: each run moves as in `RunLife`; and, initial state included, the store implements it |
| | `StoreTakesLocks` | the lock of each root is an `ExclusiveLock` |
| | `PlanIsFailClosed` | `PlanFailsClosed`, if there are at most `MaxListed` runs |
| | `RollbackIsOwn` | `RollbackOwnFiles`, in behaviours with `OneAtATime` |
| | `CalmIsResolvable` | `Resolvable`, until the first fault |
| `TaskDraftsProofs` | `DraftInductive` | `Spec => []DraftInv`, the invariant below |
| | `DraftTypes`, `TasksAreUnique`, `AnswerIsStored`, `DraftsAreWhole` | `[]TypeOK`, `[]UniqueTasks`, `[]AnswerStored`, `[]WholeDrafts` |
| | `RecordsStay`, `RefusedForDamage` | `RecordsImmutable`, `ResumeUnlessDamaged` |
| | `DraftsAreRegistered`, `DraftsTakeLock` | `KeepsRegistry`, `TakesLock`: `TaskDrafts` implements `DraftRegistry`, and takes an `ExclusiveLock`, where `excludes` |
| | `LimitIsAllThatRefuses` | `Reusable`, while there is no fault, no damage and no more drafts than `MaxDrafts` |
| | `FewBranchesReuse` | the same for a project of at most `MaxDrafts` branches |
| `UpgradePlanProofs` | `InspectInductive` | a plan is a function of a complete inspection |
| | `UpgradeTypes`, `JudgedWasInspected` | `[]TypeOK`, `[]AnalysedSeen` |
| | `NoReviewIsSafe`, `StopHasReason`, `FittingIsRight` | `[]AutomaticIsSafe`, `[]StoppedForReason`, `[]FittingPlanIsRight` |
| `TargetReviewProofs` | `ReviewInductive` | `Spec => []ReviewInv`, the invariant below |
| | `ReviewTypes`, `PlansAreFree`, `ReviewsAreRight`, `ReviewsFailClosed` | `[]TypeOK`, `[]FittingPlanIsFree`, `[]FittingReviewIsRight`, `[]FailsClosed` |

**CreateRun.** `WriteAhead` is not inductive: whether the step that publishes a file
keeps it depends on what the command wrote before, and whether a rollback may write
`FAILED` depends on which files its loop has passed. `IInv` (in `CreateRunInv`) adds,
per label of the command:

* `LoopInv`: the index is inside the plan while a loop's body runs;
* `StatusInv`: which journals a command at that label works on, on disk and in memory;
* `AheadInv`: both copies of the journal know every published file, and the operation
  at work is already marked;
* `ReachInv`: every published file is one that the loop at work, or the rollback that
  would follow it, has yet to reach; this is why a loop that has ended without a kept
  file has left none;
* `ProgressInv`: the operations before the loop's are done, with their files;
* `TouchInv`: bytes that are not the run's were put there by the user;
* `SettledInv`: what `FAILED`, `FINALIZED` and a removed bundle mean.

There is one lemma per part (`ControlStep` ... `SettledStep`), each with one step per
action, and `NextInv` puts them together. `CleanAbort` needs the converse of
`ReachInv`: each file, temporary file and directory that the user stayed away from
*is* what the loop left there. `CountInv` counts the created files, `KeepInv` says that
the rollback finds each file it has yet to reach, and `TidyInv`, for the paths outside `missed`, that a temporary file is the one of the
operation at work and a directory a finished run's, or one this command made and will
reach. Any number of faults may happen elsewhere: an error that is ignored at one path
is no excuse for another. The action properties need
the relation of the two copies of the journal: `SyncInv` (equal while files are
created), `TodoInv` (what the loop has yet to reach is `PENDING`) and `RankInv` (the
copy is never behind). The refinement maps each action to a step of `CreateOutcome` or
to a stutter by what it does to the status and to the published files.

`RunLivesLife` maps the journal on disk to the stage that `classifyRetainedRun` reads off
it (`StageOf`). Its hard part is in the steps that write a journal from the command's
copy: that the copy is of the same status as the disk's and, while files are published,
equal to it (`SyncInv`), so that no write takes the run back to a stage it has left.
`WriteStep` is the one lemma about such writes; `JournalMovesForward` follows from it too.

The liveness of the loops has a safety half, and that is proved. `CommandsShrink` bounds
the steps a command can take: `Left` counts, for each label, what remains of this
loop and of the ones that may come after it. With the fairness of section 4 it gives
`CommandEnds`. `PreflightSuffices` says what a recovery is worth: `ClearInv` carries the
verdict of the preflight, for every path not yet reached, over the loop that removes
them, so an undisturbed loop meets nothing it would have to stop at.

**ProjectLock.** `LockInv` is `TypeOK`, `HoldsLock` (a process past `TryLock` has the
lock of the file it has open) and `SameFile` (what anybody has open is what `lock.json`
stands for). The last holds only where an open file cannot be removed, and it is what
the race of `lock_race` breaks. `TokenIntact` needs only the first two. `OwnerInv`, that
a lock belongs to a process which is past `TryLock` and has the file open, gives
`LockedMeansRunning` on either platform.

`OpenNameStays` states what exclusion rests on without a word about platforms: while
somebody has `lock.json` open, the name stays. The invariant is proved from it
(`LockInductive`), and `UnlinkOpen = FALSE` implies it (`WindowsKeepsName`). On unix the
name may go, which is the race of `lock_race`; `LockByName` says that a `Release` that did
not remove the name, or a build that removes it only when nobody has it open, would be
enough for all that the other modules assume of the lock.

**RunStore.** Commands interleave, so the invariant is one of ownership. `LockInv` says
who has a lock, `OwnInv` that a run which is not stored yet is one command's, `RunOK`
and `HomeOK` what a command has found out about its run and that it stays so under the
lock. Each action is first shown to change nothing but its own command's memory
(`Others`) and nothing but the bundle it owns (`Owned`, `Touches`); every part of
`StoreInv` is then preserved for the command that moves by its guard, and for the others
because nothing of theirs is touched. `PlanFailsClosed` needs in addition that the scan
saw all runs (`FewRuns`, the assumption of its theorem; `store_cap` shows that it is
needed) and that what was not interrupted at the scan is not when `run.json` is written
(`ClosedInv`).

`RunsLive` is a statement about each run and every step of every command: `LifeNext` goes
through the actions with what `OwnInv` and `RunOK` say of the one run an action touches;
the files of a run vanish also by another's rollback, which `RunLife` has as `Vanish`.

**TaskDrafts.** What a scan has read of the drafts has to be so still when the identity
is published, in the presence of commands that the lock may not exclude. `LockInv` and
`MemInv` say who is inside and what it remembers, `UsedInv` that a Task ID found in Git
stays there, `ScanInv` that the local IDs read so far are those of the drafts read so
far, and from it that the chosen ID is no draft's. `WholeInv` follows a directory without
identity to the command that is making it. `LoneInv` is that there is one of them at
most: a command that has passed its scan has found every draft whole (`ScanInv`), so its
own is the only one it can leave behind. `RecordsImmutable` and `AnswerStored` need no
lock: the links that publish are create-only. `DraftsAreRegistered` is what `ScanInv` and
the lock are for: the step that links an identity is `Register`, whose guard, that no
branch has the ID, was established by a scan many steps before.

**UpgradePlan.** `InspectInv` says that a plan is built from a complete inspection. The
rest is about the operators: `Judge` case by case, `Worst` as the maximum of a finite
set of ranks, and `Direction` as the first field in which two versions differ.

**TargetReview.** `ReviewInv` has `ParentSeen` (what was seen in a directory was seen
after it), `LabelInv` (the labels of a goal), `CreateInv`, `GitInv` (what the fingerprint
leaves out of the Git facts follows from what is in it), `ProjectInv` and `PlanInv` (an
answer is of what was seen). A fingerprint that fits determines the walk and the Git
facts (`FingerprintFits`), so `FittingPlanIsFree` and `FittingReviewIsRight` become
statements about one target; their hard part is case: that a known path is free iff no
name of the target folds to it or to its directory. `FailsClosed` is of a target nobody
changes, for which `StillInv` says that the walk so far is what the target has so far.
Assumed are a target of two levels (`TreeAssumption`: all paths the code looks for are
in the target or in a directory of it) and, in `FoldAssumption`, that only `.git` folds
to `.git`, that paths which differ in case alone are in directories that do, and that
what CREATE tolerates collides with none of its paths.

**What the violated runs lack.** Each run that shows a disagreement has a theorem that
says what would remove it, so that the counterexample is known to be the only kind:

| Run | Theorem | What is missing from the code |
|---|---|---|
| `create_race` | `OnlyTheRaceRemoves` | that a path cannot change between hash check and removal |
| `lock_race` | `ExclusionByName` | that the name of an open `lock.json` is not removed |
| `store_takeover` | `RollbackIsOwn` | that `apply` asks, as `plan` does, whether another run is interrupted (`OneAtATime`) |
| `store_stuck` | `CalmIsResolvable` | that a half-written bundle can be discarded: faults alone make one |
| `store_cap` | `PlanIsFailClosed` | that the listing is complete |
| `tasks_limit` | `LimitIsAllThatRefuses` | that no draft is allocated which exceeds the scan's limit |

The conditions are met by the ordinary behaviours of the system: by every one without an
edit in the gap, with one command at a time, with runs applied one after another, without
faults, with few runs and few drafts.

The conditional theorems, and the refinements under `excludes` or `OpenNameStays`, have
no run of their own: their conditions are about behaviours, which a configuration
cannot choose. `NoOrphans` and `LockInv` have none either; they are proved for all
instances and the runs check what they are for (`LivesLife`, `MutualExclusion`).

Only model-checked: that commands end, that an interrupted run is settled and that every
command gets past the lock (`CommandEnds`, `Recovers`, `LockEnds`). They need fairness,
which is beyond the prover. The safety halves of the first two are proved above; a
command of `ProjectLock` has no loop, so there is none to prove for the third.

## 6. Disagreements between code and documents

1. **`create_race`**: rollback hashes a file and then removes the path by name; a file
   put there in between is removed, against `docs/spec/safety.md:15`.
2. **`lock_race`**: on unix two commands can hold the project lock at once.
3. **`store_cap`**: an interrupted run beyond the 512 bundles that are listed does not
   block `plan`, against `docs/spec/safety.md:11`.
4. **`store_stuck`**: a `plan` that dies while storing its bundle leaves one that
   blocks every later plan and that no command can load, roll back or discard.
5. **`store_takeover`**: a rollback that was cut short after its last file leaves a run
   interrupted over a clean target. `apply` of a second run, stored before, does not ask
   for other interrupted runs; `recover rollback` of the first then finds files with its
   own hashes and removes the second's, against `README.md:344`.
6. **`tasks_limit`**: the 257th draft is allocated, and from then on none can be resumed.

Met while modelling, without a run of their own:

* `git init` moves the state root, so `apply` answers `PLAN_INVALID`, for want of the
  bundle, where `README.md:114` promises `PLAN_STALE`, and a run interrupted in the old
  root no longer blocks.
* A preparation that dies between the draft's `mkdir` and its `identity.json` stops every
  later one with an unreadable draft, though `task_draft.go:192-193` says that
  unpublished records are ignored. `WholeDrafts` allows one such draft after a fault,
  and no more.
* `recover list` reads bundles without the lock and may report one that is being stored,
  though `main.go:504-505` calls the read consistent.
* A file recorded with a newer template than the engine's is `UP_TO_DATE` while the
  generator's numbers are equal, though `README.md:312` says "the template is current".
* Recovery removes the manifest last of all, so that a recovery that dies half-way leaves
  a target that looks initialised.
* A `rev-parse` of `MERGE_HEAD` that fails to run counts as "no operation in progress"
  (`adopt.go:350-361`); `docs/spec/protocol.md:35-38` reads as if a review failed closed.
  `FailsClosed` therefore leaves the operation out when a command failed.
* The base branch is looked up after everything else and is not in a review's
  fingerprint: a review that fits may be wrong about it.
* A parent directory that is there in another case counts as the parent
  (`planner.go:205`): an ADOPT plan may create `docs/PROJECT.md` beside a directory
  `Docs`. `FittingPlanIsFree` forbids the other case to the file and asks of its parent
  only that it is a directory.
* ADOPT reads the manifest again after the walk and fingerprints only the walk's reading.
* ADOPT compares the hash of a file's raw bytes with a baseline of normalized text: a
  file whose line ends became CRLF is MANAGED_MODIFIED there, and unmodified for
  `plan --upgrade`.

## 7. Not modelled

* Contents: hashes, rendered templates, JSON, schemas, paths. A hash comparison is a
  comparison of contents. Where an approval does not fit, a command changes nothing and
  there is no step for it.
* Of the inspection: counts, size limits, excluded directories, the search for secrets,
  the classification of `TASK.md` (`task/document.go`). They appear in answers and decide
  nothing that is modelled here.
* `doctor`, `recover inspect` and `recover list` only read bundles and print.
* The approval's time window and the order of keys in canonical JSON: pure functions of
  characters and times, without state.
* Power failures that lose directory updates; network file systems, where advisory
  locks may not exclude.

## 8. Plan

Done: models, runs and proofs of the apply and recovery core, the lock, the run store,
task drafts, target inspection with its planners and the Task review, and upgrade
planning; the abstract specifications between them and a theorem for each violated run.
What could follow:

1. Two applies under a lock that does not exclude, as a composition of two `CreateRun`
   on one target, to say what `lock_race` costs.
2. `TargetReview` and `UpgradePlan` as implementations of one abstract reader: an answer
   is of one target if its fingerprint still fits.
3. That a bundle being stored or removed is seen by no other command, as an abstract
   store with atomic bundles that `RunStore` implements.
4. The approval's time window, and the order of keys in canonical JSON as recursive
   functions over short sequences of code units.
