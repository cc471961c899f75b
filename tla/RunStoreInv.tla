------------------------------ MODULE RunStoreInv ------------------------------
(***************************************************************************)
(* The inductive invariant behind RunStore's properties, which             *)
(* RunStoreProofs proves for all instances.                                *)
(***************************************************************************)
EXTENDS RunStore

\* Who has a lock, and in which root.
LockInv ==
    /\ \A c \in Commands : pc[c] \in Locked => lock[root[c]] = c
    /\ \A d \in Roots, c \in Commands : lock[d] = c => pc[c] \in Locked /\ d = root[c]

\* The command is storing a new run, or works on a stored one.
At(c, labels, goals) == pc[c] \in labels \/ (pc[c] = "lock" /\ goal[c] \in goals)
Storing(c) == At(c, {"scan", "project", "adopt", "mkdir", "staging", "plan", "run"},
                    {"scan", "adopt"})
Working(c) == At(c, {"apply", "publish", "settle", "rollback", "discard"},
                    {"apply", "rollback", "discard"})

RunOK(c) ==
    /\ pc[c] # "idle" => run[c] \in Runs
    /\ pc[c] = "lock" => goal[c] \in {"scan", "adopt", "apply", "rollback", "discard"}
    /\ Storing(c) => class[run[c]] = "new"
    /\ Working(c) => class[run[c]] # "new"
RunInv == \A c \in Commands : RunOK(c)

\* A run that is not stored yet is one command's.
OwnInv ==
    \A c, d \in Commands :
        c # d /\ run[c] \in Runs /\ run[c] = run[d] => class[run[c]] # "new"

\* What a command has found out about its run stays so while it has the lock.
HomeOK(c) ==
    /\ At(c, {"scan", "project", "mkdir"}, {"scan"}) => home[run[c]] = None
    /\ pc[c] = "publish" => class[run[c]] = "entered"
    /\ pc[c] = "settle" => class[run[c]] = "applying"
    /\ pc[c] \in {"staging", "plan", "run", "publish", "settle"} => home[run[c]] = root[c]
    /\ pc[c] = "remove" => /\ class[run[c]] \notin Interrupted
                           /\ class[run[c]] # "new" => home[run[c]] = root[c]
HomeInv == \A c \in Commands : HomeOK(c)

\* A run has files in the target while it is interrupted or once it is final,
\* and none when its apply starts.
FilesInv == FilesHaveRun /\ \A c \in Commands : pc[c] = "publish" => content # run[c]

\* A directory that is gone held nothing any more.
EmptyInv == \A r \in Runs : home[r] = None => parts[r] = {}

\* A plan is made for an identity that is there, and an identity stays.
ProjectInv ==
    /\ \A c \in Commands : pc[c] \in {"mkdir", "staging", "plan", "run"} => project[root[c]] # None
    /\ \A r \in Runs : home[r] # None /\ "plan" \in parts[r] => project[home[r]] # None

StoreInv == /\ TypeOK /\ LockInv /\ RunInv /\ OwnInv /\ HomeInv
            /\ EvidenceWhole /\ FilesInv /\ EmptyInv /\ ProjectInv /\ OneProject

\* After the scan no run of the root is interrupted.
ClosedInv ==
    \A c \in Commands, r \in Runs :
        pc[c] \in {"project", "mkdir", "staging", "plan", "run"} /\ home[r] = root[c]
            => class[r] \notin Interrupted
=============================================================================
