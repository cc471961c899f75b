---------------------------- MODULE CreateOutcome ----------------------------
(***************************************************************************)
(* What a CREATE run promises the owner of the target, with no journal, no *)
(* temporary file and no process: the run publishes files, and ends with   *)
(* all of them or with none.  README.md "Safety model" and                 *)
(* docs/spec/safety.md state the promise; CreateRun implements it.         *)
(***************************************************************************)
CONSTANT Paths

VARIABLES
    outcome, \* "ready", "open", "committed", "aborted" or "gone"
    owned,   \* paths that hold a file the run published
    touched  \* paths the user has written or deleted

vars == <<outcome, owned, touched>>

TypeOK ==
    /\ outcome \in {"ready", "open", "committed", "aborted", "gone"}
    /\ owned \subseteq Paths
    /\ touched \subseteq Paths

Init == outcome = "ready" /\ owned = {} /\ touched = {}

Open == outcome = "ready" /\ outcome' = "open" /\ UNCHANGED <<owned, touched>>

Publish(p) ==
    /\ outcome = "open" /\ p \notin owned
    /\ owned' = owned \union {p}
    /\ UNCHANGED <<outcome, touched>>

Withdraw(p) ==
    /\ outcome = "open" /\ p \in owned
    /\ owned' = owned \ {p}
    /\ UNCHANGED <<outcome, touched>>

\* All of the files, as far as the user left them alone.
Commit ==
    /\ outcome = "open" /\ Paths \ touched \subseteq owned
    /\ outcome' = "committed"
    /\ UNCHANGED <<owned, touched>>

\* None of the files.
Abort ==
    /\ outcome = "open" /\ owned = {}
    /\ outcome' = "aborted"
    /\ UNCHANGED <<owned, touched>>

\* The record of the run is discarded; what it committed stays.
Forget ==
    /\ outcome \in {"ready", "committed", "aborted"}
    /\ outcome' = "gone"
    /\ UNCHANGED <<owned, touched>>

UserTouch(p) ==
    /\ touched' = touched \union {p}
    /\ owned' = owned \ {p}
    /\ UNCHANGED outcome

Next ==
    \/ Open \/ Commit \/ Abort \/ Forget
    \/ \E p \in Paths : Publish(p) \/ Withdraw(p) \/ UserTouch(p)

Spec == Init /\ [][Next]_vars
=============================================================================
