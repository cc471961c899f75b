------------------------------ MODULE CreateRun ------------------------------
(***************************************************************************)
(* One CREATE run of exord-init, from its stored plan to the removal of    *)
(* its bundle: `apply` (internal/apply/apply.go), the in-process rollback  *)
(* of a failed apply, `recover rollback` and `recover discard`             *)
(* (internal/recovery/recovery.go).  Each step of a command is one write   *)
(* of run.json or one change of the target directory, so that a crash, an  *)
(* I/O error or an edit by the user can fall between any two of them.      *)
(* Commands on the run exclude one another: ProjectLock says when the lock *)
(* really gives that.                                                      *)
(***************************************************************************)
EXTENDS Integers, FiniteSets

CONSTANTS
    NumPaths,  \* operations of the plan, numbered in its (path) order
    Nested,    \* paths in a directory of their own (.exord/, docs/)
    Checked,   \* paths some declared validation reads
    MaxFaults, \* bound: I/O errors and crashes in a behaviour
    MaxEdits   \* bound: user interventions on one path

ASSUME NumPathsAssumption == NumPaths \in Nat \ {0}
ASSUME NestedAssumption   == Nested \subseteq 1..NumPaths
ASSUME CheckedAssumption  == Checked \subseteq 1..NumPaths
ASSUME BoundsAssumption   == MaxFaults \in Nat /\ MaxEdits \in Nat

Paths == 1..NumPaths

\* .exord/manifest.json sorts first of the paths a plan can hold.
Manifest == 1

\* Mutant: the plan's own order, without the manifest-last sort.
ApplyPathUnsorted(i) == i

\* The order in which apply creates the paths: ascending, the manifest last.
ApplyPath(i) == IF i < NumPaths THEN i + 1 ELSE Manifest
Pos(p)       == IF p = Manifest THEN NumPaths ELSE p - 1

VARIABLES
    pc,       \* what the running command does next, "idle" if none runs
    idx,      \* its loop index
    created,  \* how many files of the apply order writeCreate returned
    kept,     \* files rollback could not take back: its "ok" is kept = {}
    made,     \* paths whose parent directory this apply created
    missed,   \* history: paths where an I/O error stopped one of its removals
    mem,      \* the command's copy of the journal
    journal,  \* run.json; status "GONE" once the bundle is removed
    file,     \* what the target holds at each path
    temp,     \* paths with a .exord-create-* file beside them
    dirs,     \* nested paths whose parent directory exists
    faults,   \* I/O errors and crashes so far
    edits     \* user interventions on each path so far

command == <<pc, idx, created, kept, made, missed, mem>>
target  == <<file, temp, dirs>>
vars    == <<command, journal, target, faults, edits>>

-----------------------------------------------------------------------------
Live     == {"APPLYING", "APPLIED"}
OpStatus == Live \union {"PENDING", "ROLLED_BACK"}
Status   == {"ACTIVE", "FAILED", "RECOVERY_REQUIRED", "FINALIZED", "GONE"}
Stage    == {"PLANNED", "APPROVED", "FILES_APPLYING", "VALIDATED", "FINALIZED",
             "ROLLED_BACK", "ROLLBACK_INCOMPLETE"}
Journal  == [status : Status, stage : Stage, op : [Paths -> OpStatus]]

\* A file is this run's publication, the same bytes put there by the user, or
\* anything else (another content, a directory, a link).
Content == {"absent", "generated", "restored", "foreign"}

ApplySteps    == {"approve", "enter", "mark", "parent", "temp", "link", "drop",
                  "applied", "verify", "validate", "validated", "finalize",
                  "cleanup"}
RollbackSteps == {"undo", "undo_dirs", "rollback", "rollback_remove",
                  "rollback_dirs"}
RecoverSteps  == {"preflight", "recover", "recover_remove", "recover_write"}

ControlOK ==
    /\ pc \in {"idle"} \union ApplySteps \union RollbackSteps \union RecoverSteps
    /\ idx \in 0..NumPaths
    /\ created \in 0..NumPaths
    /\ kept \subseteq Paths
    /\ made \subseteq Nested
    /\ missed \subseteq Paths

DataOK ==
    /\ mem \in Journal
    /\ journal \in Journal
    /\ file \in [Paths -> Content]
    /\ temp \subseteq Paths
    /\ dirs \subseteq Nested
    /\ faults \in 0..MaxFaults
    /\ edits \in [Paths -> 0..MaxEdits]

TypeOK == ControlOK /\ DataOK

Planned == [status |-> "ACTIVE", stage |-> "PLANNED",
            op |-> [p \in Paths |-> "PENDING"]]

Init ==
    /\ pc = "idle" /\ idx = 0 /\ created = 0 /\ kept = {} /\ made = {} /\ missed = {}
    /\ mem = Planned
    /\ journal = Planned
    /\ file = [p \in Paths |-> "absent"] /\ temp = {} /\ dirs = {}
    /\ faults = 0
    /\ edits = [p \in Paths |-> 0]

-----------------------------------------------------------------------------
(* Predicates the commands decide on. *)

Matches(p) == file[p] \in {"generated", "restored"}
Vacant(p)  == file[p] = "absent" /\ p \notin temp

\* InspectCreate accepts the target and its fingerprint is the plan's.
TargetClean == temp = {} /\ dirs = {} /\ \A p \in Paths : file[p] = "absent"

Appliable(j) == j.status = "ACTIVE" /\ j.stage \in {"PLANNED", "APPROVED"}

\* Mutant: a rolled-back run may be recovered again.
EligibleFailed(j) ==
    \/ j.status \in {"RECOVERY_REQUIRED", "FAILED"}
    \/ (j.status = "ACTIVE") /\ j.stage \in {"FILES_APPLYING", "VALIDATED"}

Eligible(j) ==
    \/ j.status = "RECOVERY_REQUIRED"
    \/ (j.status = "ACTIVE") /\ j.stage \in {"FILES_APPLYING", "VALIDATED"}

\* Mutant: recovery evidence may be discarded.
DiscardableEvidence(j) ==
    (j.status \in {"FAILED", "FINALIZED", "RECOVERY_REQUIRED"}) \/ Appliable(j)

Discardable(j) == (j.status \in {"FAILED", "FINALIZED"}) \/ Appliable(j)

Conflict(j, p) ==
    IF j.op[p] \in Live THEN file[p] = "foreign" ELSE file[p] # "absent"

SetOp(j, p, s)    == [j EXCEPT !.op[p] = s]
SetStage(j, s)    == [j EXCEPT !.stage = s]
Settle(j, s, t)   == [j EXCEPT !.status = s, !.stage = t]
RolledBack(j)     == Settle(j, "FAILED", "ROLLED_BACK")
Incomplete(j)     == Settle(j, "RECOVERY_REQUIRED", "ROLLBACK_INCOMPLETE")
Gone(j)           == [j EXCEPT !.status = "GONE"]

(* Outcomes of a step. *)

Fault == faults < MaxFaults /\ faults' = faults + 1

\* WriteJournal replaces run.json whole or, on an error, leaves it as it was.
Save(j)  == journal' = j /\ UNCHANGED faults
Unsaved  == Fault /\ UNCHANGED journal

Exit == /\ pc' = "idle" /\ idx' = 0 /\ created' = 0 /\ kept' = {}
        /\ made' = {} /\ missed' = {} /\ mem' = Planned

Goto(label) == pc' = label /\ UNCHANGED <<idx, created, kept, made, missed>>

\* failWithRollback: the files of `created`, newest first.
Abandon == pc' = "rollback" /\ idx' = created /\ UNCHANGED <<created, kept, made, missed>>

\* An I/O error stops a removal at p; the code ignores it and goes on.
Miss(p) == Fault /\ missed' = missed \union {p}

RemoveTemp(p) ==
    \/ temp' = temp \ {p} /\ UNCHANGED <<missed, faults>>
    \/ p \in temp /\ Miss(p) /\ UNCHANGED temp

\* removeEmptyDirectories: what this apply made and nothing is left in.
RemoveEmptyDirectory(p) ==
    \/ /\ dirs' = IF p \in made /\ Vacant(p) THEN dirs \ {p} ELSE dirs
       /\ UNCHANGED <<missed, faults>>
    \/ p \in made /\ Miss(p) /\ UNCHANGED dirs

-----------------------------------------------------------------------------
(* apply: Execute loads the run, checks it, the approval, the target and    *)
(* the staging directory.  A failed check changes nothing and is no step.   *)

ApplyBegin ==
    /\ pc = "idle"
    /\ Appliable(journal) /\ TargetClean
    /\ mem' = journal
    /\ Goto("approve")
    /\ UNCHANGED <<journal, target, faults, edits>>

Approve ==
    /\ pc = "approve"
    /\ \/ mem.stage = "APPROVED" /\ Goto("enter") /\ UNCHANGED <<mem, journal, faults>>
       \/ /\ mem.stage = "PLANNED"
          /\ mem' = SetStage(mem, "APPROVED")
          /\ Save(mem') /\ Goto("enter")
       \/ mem.stage = "PLANNED" /\ Unsaved /\ Exit
    /\ UNCHANGED <<target, edits>>

EnterApplying ==
    /\ pc = "enter"
    /\ \/ /\ mem' = SetStage(mem, "FILES_APPLYING")
          /\ Save(mem')
          /\ pc' = "mark" /\ idx' = 1 /\ UNCHANGED <<created, kept, made, missed>>
       \/ Unsaved /\ Exit
    /\ UNCHANGED <<target, edits>>

\* Mutant: APPLYING is set in memory only.
MarkApplyingUnsaved ==
    /\ pc = "mark"
    /\ mem' = SetOp(mem, ApplyPath(idx), "APPLYING")
    /\ Goto("parent")
    /\ UNCHANGED <<journal, faults, target, edits>>

\* The journal says APPLYING before the target is touched.
MarkApplying ==
    /\ pc = "mark"
    /\ mem' = SetOp(mem, ApplyPath(idx), "APPLYING")
    /\ \/ Save(mem') /\ Goto("parent")
       \/ Unsaved /\ Abandon
    /\ UNCHANGED <<target, edits>>

\* writeCreate: the destination must be absent; ensureParent then makes the
\* missing directory, or fails (after which its defers undo what it made).
EnsureParent ==
    LET p == ApplyPath(idx) IN
    /\ pc = "parent"
    /\ \/ /\ file[p] = "absent"
          /\ dirs' = dirs \union ({p} \intersect Nested)
          /\ made' = made \union (({p} \intersect Nested) \ dirs)
          /\ pc' = "temp" /\ UNCHANGED <<idx, created, kept, missed, faults>>
       \/ file[p] # "absent" /\ Abandon /\ UNCHANGED <<dirs, faults>>
       \/ Fault /\ Abandon /\ UNCHANGED dirs
    /\ UNCHANGED <<mem, journal, file, temp, edits>>

\* The staged bytes go to a new synced temporary file beside the destination.
WriteTemp ==
    LET p == ApplyPath(idx) IN
    /\ pc = "temp"
    /\ \/ /\ p \in Nested => p \in dirs
          /\ temp' = temp \union {p}
          /\ Goto("link") /\ UNCHANGED faults
       \/ /\ p \in Nested \ dirs
          /\ Goto("undo") /\ UNCHANGED <<temp, faults>>
       \/ Fault /\ Goto("undo") /\ temp' \in {temp, temp \union {p}}
    /\ UNCHANGED <<mem, journal, file, dirs, edits>>

\* Mutant: publication by rename, which replaces the destination.
PublishByRename ==
    LET p == ApplyPath(idx) IN
    /\ pc = "link" /\ p \in temp
    /\ file' = [file EXCEPT ![p] = "generated"]
    /\ Goto("drop")
    /\ UNCHANGED <<mem, journal, temp, dirs, faults, edits>>

\* Lstat and Link: publication fails if the destination has appeared.
Publish ==
    LET p == ApplyPath(idx) IN
    /\ pc = "link"
    /\ \/ /\ file[p] = "absent" /\ p \in temp
          /\ file' = [file EXCEPT ![p] = "generated"]
          /\ Goto("drop") /\ UNCHANGED faults
       \/ /\ (file[p] # "absent" \/ p \notin temp)
          /\ Goto("undo") /\ UNCHANGED <<file, faults>>
       \/ Fault /\ Goto("undo") /\ UNCHANGED file
    /\ UNCHANGED <<mem, journal, temp, dirs, edits>>

\* writeCreate removes the temporary name, failure ignored, and returns.
DropTemp ==
    /\ pc = "drop"
    /\ RemoveTemp(ApplyPath(idx))
    /\ created' = idx
    /\ pc' = "applied" /\ UNCHANGED <<idx, kept, made>>
    /\ UNCHANGED <<mem, journal, file, dirs, edits>>

\* Mutant: the loop runs past the last operation.
MarkAppliedTooFar ==
    /\ pc = "applied"
    /\ mem' = SetOp(mem, ApplyPath(idx), "APPLIED")
    /\ Save(mem')
    /\ pc' = "mark" /\ idx' = idx + 1
    /\ UNCHANGED <<created, kept, made, missed, target, edits>>

\* Mutant: the loop stops before the last operation.
MarkAppliedTooShort ==
    /\ pc = "applied"
    /\ mem' = SetOp(mem, ApplyPath(idx), "APPLIED")
    /\ Save(mem')
    /\ IF idx + 1 < NumPaths THEN pc' = "mark" /\ idx' = idx + 1
                             ELSE pc' = "validate" /\ idx' = 1
    /\ UNCHANGED <<created, kept, made, missed, target, edits>>

MarkApplied ==
    /\ pc = "applied"
    /\ mem' = SetOp(mem, ApplyPath(idx), "APPLIED")
    /\ \/ /\ Save(mem')
          /\ IF idx < NumPaths THEN pc' = "mark" /\ idx' = idx + 1
                               ELSE pc' = "verify" /\ idx' = 1
          /\ UNCHANGED <<created, kept, made, missed>>
       \/ Unsaved /\ Abandon
    /\ UNCHANGED <<target, edits>>

\* Every created file is hashed again.
VerifyFile ==
    LET p == ApplyPath(idx) IN
    /\ pc = "verify"
    /\ \/ /\ Matches(p) /\ UNCHANGED faults
          /\ IF idx < NumPaths THEN pc' = "verify" /\ idx' = idx + 1
                               ELSE pc' = "validate" /\ idx' = idx
          /\ UNCHANGED <<created, kept, made, missed>>
       \/ ~Matches(p) /\ Abandon /\ UNCHANGED faults
       \/ Fault /\ Abandon
    /\ UNCHANGED <<mem, journal, target, edits>>

\* runValidations reads the checked files; what it makes of the bytes is free.
Validate ==
    /\ pc = "validate"
    /\ \/ (\A p \in Checked : file[p] # "absent") /\ Goto("validated")
       \/ Abandon
    /\ UNCHANGED <<mem, journal, target, faults, edits>>

RecordValidated ==
    /\ pc = "validated"
    /\ \/ /\ mem' = SetStage(mem, "VALIDATED")
          /\ Save(mem') /\ Goto("finalize")
       \/ Unsaved /\ Exit
    /\ UNCHANGED <<target, edits>>

Finalize ==
    /\ pc = "finalize"
    /\ \/ /\ mem' = Settle(mem, "FINALIZED", "FINALIZED")
          /\ Save(mem') /\ Goto("cleanup")
       \/ Unsaved /\ Exit
    /\ UNCHANGED <<target, edits>>

\* RemoveAll of the bundle; "GONE" is a bundle without run.json, its last
\* statuses kept here as history.  RunStore has what a partial removal leaves.
RemoveBundle ==
    \/ journal' = Gone(journal) /\ UNCHANGED faults
    \/ Fault /\ journal' \in {journal, Gone(journal)}

Cleanup ==
    /\ pc = "cleanup"
    /\ RemoveBundle /\ Exit
    /\ UNCHANGED <<target, edits>>

-----------------------------------------------------------------------------
(* Rollback inside a failed apply. *)

\* writeCreate's defers after an error, the last one first: the temporary
\* file, then the directory it made.
UndoTemp ==
    /\ pc = "undo"
    /\ RemoveTemp(ApplyPath(idx))
    /\ pc' = "undo_dirs" /\ UNCHANGED <<idx, created, kept, made>>
    /\ UNCHANGED <<mem, journal, file, dirs, edits>>

\* Mutant: the directory of a file that was not published stays.
UndoDirsForgotten ==
    /\ pc = "undo_dirs"
    /\ Abandon
    /\ UNCHANGED <<mem, journal, target, faults, edits>>

UndoDirs ==
    /\ pc = "undo_dirs"
    /\ RemoveEmptyDirectory(ApplyPath(idx))
    /\ pc' = "rollback" /\ idx' = created /\ UNCHANGED <<created, kept, made>>
    /\ UNCHANGED <<mem, journal, file, temp, edits>>

\* The loop goes on to the next file, and the rollback is incomplete.
Keep == /\ kept' = kept \union {ApplyPath(idx)}
        /\ pc' = "rollback" /\ idx' = idx - 1
        /\ UNCHANGED <<created, made>>

\* Mutant: a file that is kept does not make the rollback incomplete.
RollbackCheckLenient ==
    /\ pc = "rollback" /\ idx > 0
    /\ \/ Matches(ApplyPath(idx)) /\ Goto("rollback_remove") /\ UNCHANGED faults
       \/ /\ (~Matches(ApplyPath(idx)) /\ UNCHANGED faults) \/ Fault
          /\ idx' = idx - 1 /\ UNCHANGED <<pc, created, kept, made, missed>>
    /\ UNCHANGED <<mem, journal, target, edits>>

\* Mutant: `continue` without moving to the next file.
RollbackCheckRetry ==
    /\ pc = "rollback" /\ idx > 0
    /\ \/ Matches(ApplyPath(idx)) /\ Goto("rollback_remove")
       \/ /\ ~Matches(ApplyPath(idx))
          /\ kept' = kept \union {ApplyPath(idx)}
          /\ UNCHANGED <<pc, idx, created, made, missed>>
    /\ UNCHANGED <<mem, journal, target, faults, edits>>

RollbackCheck ==
    /\ pc = "rollback" /\ idx > 0
    /\ \/ Matches(ApplyPath(idx)) /\ Goto("rollback_remove") /\ UNCHANGED faults
       \/ ~Matches(ApplyPath(idx)) /\ Keep /\ UNCHANGED <<missed, faults>>
       \/ Miss(ApplyPath(idx)) /\ Keep
    /\ UNCHANGED <<mem, journal, target, edits>>

\* Remove takes whatever the path holds now.
RollbackRemove ==
    LET p == ApplyPath(idx) IN
    /\ pc = "rollback_remove"
    /\ \/ /\ file[p] # "absent" /\ UNCHANGED faults
          /\ file' = [file EXCEPT ![p] = "absent"]
          /\ mem' = SetOp(mem, p, "ROLLED_BACK")
          /\ Goto("rollback_dirs")
       \/ file[p] = "absent" /\ Keep /\ UNCHANGED <<file, mem, missed, faults>>
       \/ Miss(p) /\ Keep /\ UNCHANGED <<file, mem>>
    /\ UNCHANGED <<journal, temp, dirs, edits>>

RollbackDirs ==
    /\ pc = "rollback_dirs"
    /\ RemoveEmptyDirectory(ApplyPath(idx))
    /\ pc' = "rollback" /\ idx' = idx - 1 /\ UNCHANGED <<created, kept, made>>
    /\ UNCHANGED <<mem, journal, file, temp, edits>>

\* Mutant: every rollback is journaled as complete.
RollbackEndAlwaysClean ==
    /\ pc = "rollback" /\ idx = 0
    /\ Save(RolledBack(mem))
    /\ Exit
    /\ UNCHANGED <<target, edits>>

\* The last journal write's error is ignored.
RollbackEnd ==
    /\ pc = "rollback" /\ idx = 0
    /\ (Save(IF kept = {} THEN RolledBack(mem) ELSE Incomplete(mem)) \/ Unsaved)
    /\ Exit
    /\ UNCHANGED <<target, edits>>

-----------------------------------------------------------------------------
(* recover rollback and recover discard. *)

\* Rollback loads the run; analyzeRoot then looks at each path of the plan.
RecoverBegin ==
    /\ pc = "idle"
    /\ Eligible(journal)
    /\ mem' = journal
    /\ pc' = "preflight" /\ idx' = 1 /\ UNCHANGED <<created, kept, made, missed>>
    /\ UNCHANGED <<journal, target, faults, edits>>

\* Any conflict, and any state that cannot be read, stops before a mutation.
Preflight ==
    /\ pc = "preflight"
    /\ \/ /\ ~Conflict(mem, idx) /\ UNCHANGED <<mem, faults>>
          /\ IF idx < NumPaths THEN pc' = "preflight" /\ idx' = idx + 1
                               ELSE pc' = "recover" /\ idx' = idx
          /\ UNCHANGED <<created, kept, made, missed>>
       \/ Conflict(mem, idx) /\ Exit /\ UNCHANGED faults
       \/ Fault /\ Exit
    /\ UNCHANGED <<journal, target, edits>>

\* recoveryFailure: journaled as RECOVERY_REQUIRED if that write succeeds.
RecoverFail ==
    /\ (Save(Incomplete(mem)) \/ Unsaved)
    /\ Exit

\* Mutant: ROLLED_BACK is journaled before the file is removed.
RecoverCheckEarlyWrite ==
    /\ pc = "recover" /\ idx > 0
    /\ mem' = SetOp(mem, idx, "ROLLED_BACK")
    /\ Save(mem')
    /\ \/ file[idx] = "absent" /\ Goto("recover_write")
       \/ Matches(idx) /\ Goto("recover_remove")
    /\ UNCHANGED <<target, edits>>

\* Mutant: a file already missing is a failure, not work already done.
RecoverCheckStrict ==
    /\ pc = "recover" /\ idx > 0
    /\ \/ /\ mem.op[idx] \notin Live
          /\ idx' = idx - 1
          /\ UNCHANGED <<pc, created, kept, made, missed, mem, journal>>
       \/ /\ mem.op[idx] \in Live /\ Matches(idx)
          /\ Goto("recover_remove") /\ UNCHANGED <<mem, journal>>
       \/ /\ mem.op[idx] \in Live /\ ~Matches(idx)
          /\ journal' = Incomplete(mem) /\ Exit
    /\ UNCHANGED <<target, faults, edits>>

\* From the last path of the plan to the first, so the manifest goes last.
RecoverCheck ==
    /\ pc = "recover" /\ idx > 0
    /\ \/ /\ mem.op[idx] \notin Live
          /\ idx' = idx - 1
          /\ UNCHANGED <<pc, created, kept, made, missed, mem, journal, faults>>
       \/ /\ mem.op[idx] \in Live /\ file[idx] = "absent"
          /\ mem' = SetOp(mem, idx, "ROLLED_BACK")
          /\ Goto("recover_write") /\ UNCHANGED <<journal, faults>>
       \/ /\ mem.op[idx] \in Live /\ Matches(idx)
          /\ Goto("recover_remove") /\ UNCHANGED <<mem, journal, faults>>
       \/ /\ mem.op[idx] \in Live /\ file[idx] = "foreign"
          /\ RecoverFail
    /\ UNCHANGED <<target, edits>>

\* A path that cannot be read is a conflict too: the error is the step's fault.
RecoverUnreadable ==
    /\ pc = "recover" /\ idx > 0
    /\ mem.op[idx] \in Live
    /\ Fault /\ Exit
    /\ journal' \in {journal, Incomplete(mem)}
    /\ UNCHANGED <<target, edits>>

\* Remove takes whatever the path holds now.
RecoverRemove ==
    /\ pc = "recover_remove"
    /\ \/ /\ file[idx] # "absent"
          /\ file' = [file EXCEPT ![idx] = "absent"]
          /\ mem' = SetOp(mem, idx, "ROLLED_BACK")
          /\ Goto("recover_write") /\ UNCHANGED <<journal, faults>>
       \/ file[idx] = "absent" /\ RecoverFail /\ UNCHANGED file
       \/ Fault /\ Exit /\ UNCHANGED file /\ journal' \in {journal, Incomplete(mem)}
    /\ UNCHANGED <<temp, dirs, edits>>

RecoverWrite ==
    /\ pc = "recover_write"
    /\ \/ /\ Save(mem)
          /\ pc' = "recover" /\ idx' = idx - 1
          /\ UNCHANGED <<created, kept, made, missed, mem>>
       \/ Unsaved /\ Exit
    /\ UNCHANGED <<target, edits>>

RecoverEnd ==
    /\ pc = "recover" /\ idx = 0
    /\ (Save(RolledBack(mem)) \/ Unsaved)
    /\ Exit
    /\ UNCHANGED <<target, edits>>

Discard ==
    /\ pc = "idle"
    /\ Discardable(journal)
    /\ RemoveBundle
    /\ UNCHANGED <<command, target, edits>>

-----------------------------------------------------------------------------
(* The command dies at any step; no defer runs, its memory is lost. *)

Crash == pc # "idle" /\ Fault /\ Exit /\ UNCHANGED <<journal, target, edits>>

(* The user and other programs, at any time. *)

Edit(p) == edits[p] < MaxEdits /\ edits' = [edits EXCEPT ![p] = @ + 1]

UserWrite(p) ==
    /\ Edit(p)
    /\ \E c \in {"foreign", "restored"} : file' = [file EXCEPT ![p] = c]
    /\ dirs' = dirs \union ({p} \intersect Nested)
    /\ UNCHANGED <<command, journal, temp, faults>>

UserDelete(p) ==
    /\ Edit(p)
    /\ file[p] # "absent"
    /\ file' = [file EXCEPT ![p] = "absent"]
    /\ UNCHANGED <<command, journal, temp, dirs, faults>>

\* Leftover temporary files and empty directories are removed by hand.
UserTidy(p) ==
    /\ p \in temp \union dirs
    /\ temp' = temp \ {p}
    /\ dirs' = IF file[p] = "absent" THEN dirs \ {p} ELSE dirs
    /\ <<temp', dirs'>> # <<temp, dirs>>
    /\ UNCHANGED <<command, journal, file, faults, edits>>

ApplyStep ==
    \/ Approve \/ EnterApplying \/ MarkApplying \/ EnsureParent \/ WriteTemp
    \/ Publish \/ DropTemp \/ MarkApplied \/ VerifyFile \/ Validate
    \/ RecordValidated \/ Finalize \/ Cleanup

RollbackStep ==
    \/ UndoTemp \/ UndoDirs
    \/ RollbackCheck \/ RollbackRemove \/ RollbackDirs \/ RollbackEnd

RecoverStep ==
    \/ Preflight \/ RecoverCheck \/ RecoverUnreadable \/ RecoverRemove
    \/ RecoverWrite \/ RecoverEnd

EngineStep == ApplyStep \/ RollbackStep \/ RecoverStep
UserStep   == \E p \in Paths : UserWrite(p) \/ UserDelete(p) \/ UserTidy(p)

Next ==
    \/ ApplyBegin \/ RecoverBegin \/ Discard
    \/ EngineStep
    \/ Crash
    \/ UserStep

Spec == Init /\ [][Next]_vars

\* A started command keeps running, and an interrupted run is recovered: plan
\* is BLOCKED until the user does.
Fairness == WF_vars(EngineStep) /\ WF_vars(RecoverBegin)
FairSpec == Spec /\ Fairness

-----------------------------------------------------------------------------
(* Safety. *)

Untouched(p) == edits[p] = 0

\* A file this run published is one its stored journal already calls APPLYING
\* or APPLIED: whatever instant the process dies at, recovery knows the file.
WriteAhead ==
    \A p \in Paths : file[p] = "generated" => journal.op[p] \in Live

\* Crashes and I/O errors alone never leave a run that recovery refuses as a
\* CONFLICT: a conflicting path is one the user has changed.
ConflictNeedsUser ==
    Eligible(journal)
        => \A p \in Paths : Conflict(journal, p) => ~Untouched(p)

\* FAILED / ROLLED_BACK, the state discard may erase, means no published file
\* is left, and nothing at all where the user did not write.
RolledBackClean ==
    journal.status = "FAILED" =>
        \A p \in Paths : /\ file[p] # "generated"
                         /\ Untouched(p) => file[p] = "absent"

\* FINALIZED means every operation APPLIED and every file in place, except
\* where the user changed it.
FinalizedWhole ==
    journal.status = "FINALIZED" =>
        \A p \in Paths : /\ journal.op[p] = "APPLIED"
                         /\ Untouched(p) => file[p] = "generated"

\* A bundle is removed only when nothing depends on it: the run is complete, or
\* none of its files is in the target.
NoOrphans ==
    journal.status = "GONE" =>
        \/ \A p \in Paths : journal.op[p] = "APPLIED"
        \/ \A p \in Paths : file[p] # "generated"

\* When a failed apply has rolled back, whatever made it fail, a path that the
\* user stayed away from is as apply found it, with no file, temporary file or
\* directory, unless an I/O error stopped a removal at that very path: a removal
\* that fails and is ignored spoils no other path, and a file that stays is one
\* the rollback knows of and will journal.
CleanAbort ==
    pc = "rollback" /\ idx = 0 =>
        \A p \in Paths : Untouched(p) =>
            /\ p \notin kept => file[p] = "absent"
            /\ p \notin missed => Vacant(p) /\ p \notin dirs

(* Action properties. *)

\* Publication never replaces what it did not create.
NeverOverwrite ==
    [][\A p \in Paths : file[p] \in {"foreign", "restored"} => file'[p] # "generated"]_vars

\* README: "the manifest is written last".  A target that looks initialized has
\* every other file journaled and, unless the user changed it, in place.
ManifestLast ==
    [][file[Manifest] = "absent" /\ file'[Manifest] = "generated" =>
        \A p \in Paths \ {Manifest} :
            /\ journal.op[p] = "APPLIED"
            /\ Untouched(p) => file[p] = "generated"]_vars

\* The stored journal only moves forward: no operation returns to an earlier
\* status and a settled run is never reopened.
Rank == [PENDING |-> 0, APPLYING |-> 1, APPLIED |-> 2, ROLLED_BACK |-> 3]
JournalForward ==
    [][/\ \A p \in Paths : Rank[journal.op[p]] <= Rank[journal'.op[p]]
       /\ journal.status \in {"FAILED", "FINALIZED", "GONE"}
            => journal'.status \in {journal.status, "GONE"}
       /\ Eligible(journal) => ~Appliable(journal')]_vars

\* The safety contract: "removes only operation paths whose regular-file SHA-256
\* still matches the stored plan" (docs/spec/safety.md).
OnlyMatchedRemoved ==
    [][\A p \in Paths :
        file[p] = "foreign" /\ file'[p] = "absent" => edits'[p] # edits[p]]_vars

(* Liveness. *)

\* Every command ends.
CommandEnds == (pc # "idle") ~> (pc = "idle")

\* A run interrupted during apply is settled in the end, or waits on a conflict.
Settled == journal.status \in {"FAILED", "FINALIZED", "GONE"}
Recovers ==
    Eligible(journal) ~> Settled \/ \E p \in Paths : Conflict(journal, p)

-----------------------------------------------------------------------------
(* Refinement: the run keeps the promise CreateOutcome states. *)

Outcome ==
    CASE journal.status = "GONE"      -> "gone"
      [] journal.status = "FINALIZED" -> "committed"
      [] journal.status = "FAILED"    -> "aborted"
      [] Eligible(journal)            -> "open"
      [] OTHER                        -> "ready"

Promise == INSTANCE CreateOutcome WITH
    outcome <- Outcome,
    owned   <- {p \in Paths : file[p] = "generated"},
    touched <- {p \in Paths : edits[p] > 0}

\* All of the files or none of them, whatever faults and edits come between.
KeepsPromise == Promise!Spec

(* Refinement: what the other commands see of the run is the life that      *)
(* RunLife states and RunStore takes it to have.                            *)

StageOf(j) ==
    LET whole == \A p \in Paths : j.op[p] # "PENDING" IN
    CASE j.status = "GONE"      -> "gone"
      [] j.status = "FINALIZED" -> "finalized"
      [] j.status = "FAILED"    -> "failed"
      [] Appliable(j)           -> "ready"
      [] Eligible(j) /\ ~whole  -> "entered"
      [] Eligible(j) /\ whole /\ j.status = "ACTIVE" -> "applying"
      [] OTHER                  -> "recovery"

Life == INSTANCE RunLife WITH
    stage <- StageOf(journal),
    files <- \E p \in Paths : file[p] = "generated"

\* The journal tells other commands how far the run is, at every step.
LivesLife == Life!Spec

=============================================================================
