---------------------------- MODULE ExclusiveLock ----------------------------
(***************************************************************************)
(* A lock one process at a time has, taken and left in one step each: what *)
(* the modules of the run store and of the task drafts take the project    *)
(* lock to be.  ProjectLock implements it as long as no lock.json that is  *)
(* open loses its name.                                                    *)
(***************************************************************************)
CONSTANTS Procs, None

VARIABLE holder  \* None if nobody has it

TypeOK == holder \in Procs \union {None}

Init == holder = None

Take(p)  == holder = None /\ holder' = p
Leave(p) == holder = p /\ holder' = None

Next == \E p \in Procs : Take(p) \/ Leave(p)

Spec == Init /\ [][Next]_holder
=============================================================================
