----------------------------- MODULE UpgradePlan -----------------------------
(***************************************************************************)
(* plan --upgrade (internal/target/upgrade.go, internal/planner/upgrade.go)*)
(* on a target whose user goes on working: the inspection reads the        *)
(* manifest, the managed files one by one and .git, and the plan judges    *)
(* every file.  The engine only reads; all writes here are the user's.     *)
(***************************************************************************)
EXTENDS Integers, Sequences

CONSTANTS
    Core,      \* the files every project has
    Bridge,    \* the files of the optional agents
    Manifests, \* what .exord/manifest.json may say
    Emitted,   \* currentTemplateVersions: the version of each template
    Current,   \* currentGeneratorVersion: three numbers
    None,
    MaxEdits,  \* bound: changes by the user
    MaxFaults  \* bound: failed reads

Paths == Core \union Bridge

\* A version is the sequence of its dotted fields, a field that is no number is
\* -1.  A record names the template a file was rendered from.
Record == [template : STRING, version : Nat, mode : {"TEXT_UTF8_LF_V1", "other"},
           policy : {"REPLACE_IF_UNMODIFIED", "PROPOSE_ONLY"}]

Manifest ==
    [kind : {"v1", "v2", "foreign"}, files : [Paths -> {None} \union Record],
     bridges : SUBSET Bridge, gitMode : {"", "NONE", "DOCUMENT_ONLY", "ENABLED"},
     version : Seq(Int)]

ASSUME PathsAssumption    == Core \intersect Bridge = {}
ASSUME ManifestAssumption == Manifests \subseteq Manifest
ASSUME VersionAssumption  == Current \in [1..3 -> Nat] /\ Emitted \in [DOMAIN Emitted -> Nat]
ASSUME BoundsAssumption   == MaxEdits \in Nat /\ MaxFaults \in Nat

\* What a path holds; "crlf" is the rendered text with other line endings.
File     == {"MISSING", "IRREGULAR", "base", "crlf", "edited"}
Observed == {"", "MISSING", "IRREGULAR", "UNREADABLE", "base", "edited"}

Rank == [UP_TO_DATE |-> 0, UPGRADE_AVAILABLE |-> 1, REVIEW_REQUIRED |-> 2, BLOCKED |-> 3]

VARIABLES
    pc,       \* "idle", what is inspected, or the code of the answer
    manifest, \* the target: its manifest,
    file,     \* its files,
    git,      \* and whether there is a .git
    seen,     \* the inspection so far
    plan,     \* the plan that is answered, or None
    edits, faults

target == <<manifest, file, git, edits>>
vars   == <<pc, target, seen, plan, faults>>

Answers == {"OK", "VERSION_MISMATCH", "UNSUPPORTED_TARGET"}

\* Files that are not read have the zero state.
Unread == [p \in Paths |-> ""]

Init ==
    /\ pc = "idle"
    /\ manifest \in Manifests
    /\ file \in [Paths -> File]
    /\ git \in BOOLEAN
    /\ seen = [manifest |-> None, file |-> Unread, git |-> FALSE]
    /\ plan = None
    /\ edits = 0 /\ faults = 0

-----------------------------------------------------------------------------
(* InspectUpgrade *)

Fault == faults < MaxFaults /\ faults' = faults + 1

Tracked(m)  == {p \in Paths : m.files[p] # None}
Expected(m) == Core \union m.bridges

\* Mutant: files that the generator would add are not looked at.
InspectedTracked(m) == Tracked(m)

\* The list of expected files is one of the inspection's own.
Inspected(m) == Tracked(m) \union Core \union m.bridges

\* Mutant: the bytes are hashed as they are.
NormalizedNot(f) == f

\* inspectManagedFile: what is hashed has LF line endings.
Normalized(f) == IF f = "crlf" THEN "base" ELSE f

ReadManifest ==
    /\ pc \in {"idle"} \union Answers
    /\ seen' = [manifest |-> manifest, file |-> Unread, git |-> FALSE]
    /\ plan' = None
    /\ \/ manifest.kind = "v1" /\ pc' = "files" /\ UNCHANGED faults
       \/ manifest.kind = "v2" /\ pc' = "VERSION_MISMATCH" /\ UNCHANGED faults
       \/ manifest.kind = "foreign" /\ pc' = "UNSUPPORTED_TARGET" /\ UNCHANGED faults
       \/ Fault /\ pc' = "UNSUPPORTED_TARGET"
    /\ UNCHANGED target

ReadFile(p) ==
    /\ pc = "files"
    /\ p \in Inspected(seen.manifest) /\ seen.file[p] = ""
    /\ \/ seen' = [seen EXCEPT !.file[p] = Normalized(file[p])] /\ UNCHANGED faults
       \/ Fault /\ seen' = [seen EXCEPT !.file[p] = "UNREADABLE"]
    /\ UNCHANGED <<pc, target, plan>>

\* An error here counts as no .git.
ReadGit ==
    /\ pc = "files"
    /\ \A p \in Inspected(seen.manifest) : seen.file[p] # ""
    /\ \/ seen' = [seen EXCEPT !.git = git] /\ UNCHANGED faults
       \/ Fault /\ seen' = [seen EXCEPT !.git = FALSE]
    /\ pc' = "git"
    /\ UNCHANGED <<target, plan>>

-----------------------------------------------------------------------------
(* BuildUpgrade *)

\* The upgrade_action of a file, and the disposition it asks for: the first case
\* that fits.
Judge(m, p, state) ==
    LET r == m.files[p]
        now == IF r # None /\ r.template \in DOMAIN Emitted THEN Emitted[r.template] ELSE 0
    IN
    IF r # None /\ r.mode # "TEXT_UTF8_LF_V1"          THEN <<"BLOCKED", "BLOCKED">>
    ELSE IF state \in {"IRREGULAR", "UNREADABLE"}      THEN <<"BLOCKED", "BLOCKED">>
    ELSE IF r = None /\ state = "MISSING" THEN <<"NEW_MANAGED_FILE", "REVIEW_REQUIRED">>
    ELSE IF r = None                   THEN <<"ADOPT_EXISTING_FILE", "REVIEW_REQUIRED">>
    ELSE IF p \notin Expected(m)       THEN <<"ORPHAN_MANAGED_FILE", "REVIEW_REQUIRED">>
    ELSE IF now = 0                    THEN <<"ORPHAN_MANAGED_FILE", "REVIEW_REQUIRED">>
    ELSE IF state = "MISSING"          THEN <<"RECREATE_MISSING", "UPGRADE_AVAILABLE">>
    ELSE IF state # "base"             THEN <<"REVIEW_LOCAL_EDIT", "REVIEW_REQUIRED">>
    ELSE IF now > r.version /\ r.policy = "REPLACE_IF_UNMODIFIED"
                                THEN <<"TEMPLATE_UPDATE_AVAILABLE", "UPGRADE_AVAILABLE">>
    ELSE IF now > r.version            THEN <<"PROPOSE_ONLY_UPDATE", "REVIEW_REQUIRED">>
    ELSE <<"UP_TO_DATE", "UP_TO_DATE">>

\* numericVersion: at most three fields count, missing ones are 0.
Parsed(v)  == v # <<>> /\ \A i \in DOMAIN v : i <= 3 => v[i] >= 0
Numeric(v) == [i \in 1..3 |-> IF i \in DOMAIN v THEN v[i] ELSE 0]

\* Mutant: any field that is greater makes a downgrade.
DirectionAnyField(v) ==
    IF ~Parsed(v) THEN "UNKNOWN"
    ELSE IF \E i \in 1..3 : Numeric(v)[i] > Current[i] THEN "DOWNGRADE"
    ELSE IF Numeric(v) = Current THEN "SAME" ELSE "UPGRADE"

\* compareGeneratorVersions: the first field that differs decides.
Direction(v) ==
    LET differ == {i \in 1..3 : Numeric(v)[i] # Current[i]}
        first  == CHOOSE i \in differ : \A j \in differ : i <= j
    IN  IF ~Parsed(v) THEN "UNKNOWN"
        ELSE IF differ = {} THEN "SAME"
        ELSE IF Numeric(v)[first] < Current[first] THEN "UPGRADE" ELSE "DOWNGRADE"

GitConsistent(m, g) ==
    \/ m.gitMode = ""
    \/ m.gitMode = IF g THEN "ENABLED" ELSE "DOCUMENT_ONLY"
    \/ m.gitMode = "NONE" /\ ~g

\* Mutant: the comparison is turned round.
WorstBest(ds) == CHOOSE d \in ds : \A e \in ds : Rank[e] >= Rank[d]

\* worseDisposition, over all that is asked for.
Worst(ds) == CHOOSE d \in ds : \A e \in ds : Rank[e] <= Rank[d]

Build(s) ==
    LET m == s.manifest
        analysed == Tracked(m) \union Expected(m)
        judged   == [p \in analysed |-> Judge(m, p, s.file[p])]
        older    == IF Direction(m.version) = "DOWNGRADE" THEN {"BLOCKED"} ELSE {}
        moved    == IF GitConsistent(m, s.git) THEN {} ELSE {"REVIEW_REQUIRED"}
    IN [action      |-> [p \in analysed |-> judged[p][1]],
        disposition |-> Worst({"UP_TO_DATE"} \union {judged[p][2] : p \in analysed}
                              \union older \union moved)]

\* Mutant: .git is left out.
FingerprintNoGit(s) == <<s.manifest, s.file>>

\* All that was read is hashed into target_fingerprint.
Fingerprint(s) == <<s.manifest, s.file, s.git>>

Answer ==
    /\ pc = "git"
    /\ plan' = [fingerprint |-> Fingerprint(seen), analysis |-> Build(seen)]
    /\ pc' = "OK"
    /\ UNCHANGED <<target, seen, faults>>

-----------------------------------------------------------------------------
(* The user *)

Edit == edits < MaxEdits /\ edits' = edits + 1 /\ UNCHANGED <<pc, seen, plan, faults>>

ChangeFile(p) ==
    /\ Edit
    /\ \E f \in File \ {file[p]} : file' = [file EXCEPT ![p] = f]
    /\ UNCHANGED <<manifest, git>>

ChangeGit == Edit /\ git' = ~git /\ UNCHANGED <<manifest, file>>

\* By hand, from another branch, or by another version of the engine.
ChangeManifest ==
    /\ Edit
    /\ \/ \E k \in {"v2", "foreign"} : manifest' = [manifest EXCEPT !.kind = k]
       \/ \E b \in Bridge :
            manifest' = [manifest EXCEPT
                !.bridges = IF b \in @ THEN @ \ {b} ELSE @ \union {b}]
    /\ UNCHANGED <<file, git>>

Next ==
    \/ ReadManifest \/ ReadGit \/ Answer
    \/ \E p \in Paths : ReadFile(p) \/ ChangeFile(p)
    \/ ChangeGit \/ ChangeManifest

Spec == Init /\ [][Next]_vars

-----------------------------------------------------------------------------
TypeOK ==
    /\ pc \in {"idle", "files", "git"} \union Answers
    /\ manifest \in Manifest
    /\ file \in [Paths -> File]
    /\ git \in BOOLEAN
    /\ seen \in [manifest : {None} \union Manifest, file : [Paths -> Observed], git : BOOLEAN]
    /\ pc # "idle" => seen.manifest \in Manifest
    /\ pc # "OK" => plan = None
    /\ edits \in 0..MaxEdits /\ faults \in 0..MaxFaults

\* Every file that is judged was inspected: the two lists of expected files, one
\* in the inspection and one in the planner, do not come apart.
AnalysedSeen ==
    pc = "OK" => \A p \in DOMAIN plan.analysis.action : seen.file[p] # ""

\* The reasons, file by file and in the order of no switch, for which a user or
\* nobody may go on.
Newer(v) ==
    /\ Parsed(v)
    /\ \E i \in 1..3 : Numeric(v)[i] > Current[i] /\ \A j \in 1..(i - 1) : Numeric(v)[j] = Current[j]

Hopeless(p) ==
    LET r == seen.manifest.files[p] IN
    \/ seen.file[p] \in {"IRREGULAR", "UNREADABLE"}
    \/ r # None /\ r.mode # "TEXT_UTF8_LF_V1"

Delicate(p) ==
    LET r == seen.manifest.files[p] IN
    \/ r = None \/ p \notin Core \union seen.manifest.bridges
    \/ r.template \notin DOMAIN Emitted \/ Emitted[r.template] = 0
    \/ seen.file[p] = "edited"
    \/ /\ Emitted[r.template] > r.version /\ r.policy = "PROPOSE_ONLY"
       /\ seen.file[p] # "MISSING"

Judged == Tracked(seen.manifest) \union Expected(seen.manifest)

\* What may go on without review is safe to, as a whole and file by file: nothing
\* of the user's would be overwritten or dropped, nothing is beyond judgement,
\* the engine is not older than the project, and .git is as the manifest says.
Automatic == {"UP_TO_DATE", "RECREATE_MISSING", "TEMPLATE_UPDATE_AVAILABLE"}
AutomaticIsSafe ==
    pc = "OK" =>
        /\ \A p \in Judged :
            plan.analysis.action[p] \in Automatic => ~Hopeless(p) /\ ~Delicate(p)
        /\ plan.analysis.disposition \in {"UP_TO_DATE", "UPGRADE_AVAILABLE"} =>
            /\ ~Newer(seen.manifest.version)
            /\ GitConsistent(seen.manifest, seen.git)
            /\ \A p \in Judged : ~Hopeless(p) /\ ~Delicate(p)

\* And nobody is stopped without a reason.
StoppedForReason ==
    pc = "OK" =>
        /\ plan.analysis.disposition = "BLOCKED" =>
               Newer(seen.manifest.version) \/ \E p \in Judged : Hopeless(p)
        /\ plan.analysis.disposition = "REVIEW_REQUIRED" =>
               ~GitConsistent(seen.manifest, seen.git) \/ \E p \in Judged : Delicate(p)

\* What an inspection would find now, if nothing changed meanwhile.
Found ==
    [manifest |-> manifest, git |-> git,
     file |-> [p \in Paths |->
                  IF p \in Inspected(manifest) THEN Normalized(file[p]) ELSE ""]]

\* A plan whose fingerprint fits the target is the plan of that target, however
\* the user changed it while it was read.
FittingPlanIsRight ==
    pc = "OK" /\ manifest.kind = "v1" /\ plan.fingerprint = Fingerprint(Found) =>
        plan.analysis = Build(Found)

=============================================================================
