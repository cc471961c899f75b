--------------------------- MODULE UpgradePlanProofs ---------------------------
(***************************************************************************)
(* UpgradePlan's invariants, for any files, manifests and templates.       *)
(***************************************************************************)
EXTENDS UpgradePlan, TLAPS

\* The inspection is complete before it is judged, and the plan is of what it saw.
InspectInv ==
    /\ TypeOK
    /\ pc \in {"git", "OK"} => \A p \in Inspected(seen.manifest) : seen.file[p] # ""
    /\ pc = "OK" => plan = [fingerprint |-> Fingerprint(seen), analysis |-> Build(seen)]

-----------------------------------------------------------------------------
LEMMA NormalizedObserved == \A f \in File : Normalized(f) \in Observed
  BY DEF File, Observed, Normalized

Inspections == [manifest : {None} \union Manifest, file : [Paths -> Observed], git : BOOLEAN]

LEMMA TypeStep == TypeOK /\ [Next]_vars => TypeOK'
<1> SUFFICES ASSUME TypeOK, [Next]_vars PROVE TypeOK'
  OBVIOUS
<1>0. seen \in Inspections
  BY DEF TypeOK, Inspections
<1>1. edits' \in 0..MaxEdits /\ faults' \in 0..MaxFaults
  <2>1. CASE Edit
    BY <2>1, BoundsAssumption DEF Edit, TypeOK
  <2>2. CASE edits' = edits /\ (Fault \/ faults' = faults)
    BY <2>2, BoundsAssumption DEF Fault, TypeOK
  <2>3. Edit \/ (edits' = edits /\ (Fault \/ faults' = faults))
    BY DEF Next, ReadManifest, ReadGit, Answer, ReadFile, ChangeFile, ChangeGit,
           ChangeManifest, vars, target
  <2> QED
    BY <2>1, <2>2, <2>3
<1>2. manifest' \in Manifest
  <2>1. CASE ChangeManifest
    <3>1. PICK k \in {"v2", "foreign"}, bs \in SUBSET Bridge :
             \/ manifest' = [manifest EXCEPT !.kind = k]
             \/ manifest' = [manifest EXCEPT !.bridges = bs]
      <4>1. CASE \E k \in {"v2", "foreign"} : manifest' = [manifest EXCEPT !.kind = k]
        BY <4>1
      <4>2. CASE \E b \in Bridge :
                    manifest' = [manifest EXCEPT
                        !.bridges = IF b \in @ THEN @ \ {b} ELSE @ \union {b}]
        <5>1. manifest.bridges \subseteq Bridge
          BY DEF TypeOK, Manifest
        <5> QED
          BY <4>2, <5>1
      <4> QED
        BY <2>1, <4>1, <4>2 DEF ChangeManifest
    <3> QED
      BY <3>1 DEF TypeOK, Manifest
  <2>2. CASE manifest' = manifest
    BY <2>2 DEF TypeOK
  <2> QED
    BY <2>1, <2>2 DEF Next, ReadManifest, ReadGit, Answer, ReadFile, ChangeFile, ChangeGit,
                      vars, target
<1>3. file' \in [Paths -> File] /\ git' \in BOOLEAN
  BY DEF Next, ReadManifest, ReadGit, Answer, ReadFile, ChangeFile, ChangeGit, ChangeManifest,
         TypeOK, vars, target
<1>4. ASSUME ReadManifest PROVE TypeOK'
  <2>1. seen'.manifest = manifest /\ seen' \in Inspections
    BY <1>4 DEF ReadManifest, Unread, Observed, TypeOK, Inspections
  <2>2. pc' \in {"files", "VERSION_MISMATCH", "UNSUPPORTED_TARGET"} /\ plan' = None
    BY <1>4 DEF ReadManifest
  <2> QED
    BY <1>1, <1>2, <1>3, <2>1, <2>2 DEF TypeOK, Inspections, Answers
<1>5. ASSUME ReadGit PROVE TypeOK'
  <2>1. PICK g \in BOOLEAN : seen' = [seen EXCEPT !.git = g]
    BY <1>5 DEF ReadGit, TypeOK
  <2>2. seen'.manifest = seen.manifest /\ seen' \in Inspections
    BY <1>0, <2>1 DEF Inspections
  <2>3. pc = "files" /\ pc' = "git" /\ plan' = plan
    BY <1>5 DEF ReadGit
  <2> QED
    BY <1>1, <1>2, <1>3, <2>2, <2>3 DEF TypeOK, Inspections
<1>6. ASSUME NEW p \in Paths, ReadFile(p) PROVE TypeOK'
  <2>1. PICK x \in Observed : seen' = [seen EXCEPT !.file[p] = x]
    BY <1>6, NormalizedObserved DEF ReadFile, TypeOK, Observed
  <2>2. seen'.manifest = seen.manifest /\ seen' \in Inspections
    BY <1>0, <2>1 DEF Inspections
  <2> QED
    BY <1>1, <1>2, <1>3, <1>6, <2>2 DEF ReadFile, TypeOK, Inspections
<1>7. CASE UNCHANGED seen /\ (Answer \/ UNCHANGED <<pc, plan>>)
  BY <1>1, <1>2, <1>3, <1>7 DEF TypeOK, Answer, Answers
<1> QED
  BY <1>4, <1>5, <1>6, <1>7 DEF Next, Answer, ChangeFile, ChangeGit, ChangeManifest, Edit, vars

LEMMA InspectStep == InspectInv /\ [Next]_vars => InspectInv'
<1> SUFFICES ASSUME InspectInv, [Next]_vars PROVE InspectInv'
  OBVIOUS
<1>0. TypeOK /\ TypeOK' /\ seen \in Inspections
  BY TypeStep DEF InspectInv, TypeOK, Inspections
<1>1. CASE ReadManifest \/ \E p \in Paths : ReadFile(p)
  <2>1. pc' \notin {"git", "OK"}
    BY <1>1 DEF ReadManifest, ReadFile
  <2> QED
    BY <1>0, <2>1 DEF InspectInv
<1>2. CASE ReadGit
  <2>1. seen'.manifest = seen.manifest /\ seen'.file = seen.file
    BY <1>0, <1>2 DEF ReadGit, Inspections
  <2>2. pc' = "git" /\ \A p \in Inspected(seen.manifest) : seen.file[p] # ""
    BY <1>2 DEF ReadGit
  <2>3. Inspected(seen'.manifest) = Inspected(seen.manifest)
    BY <2>1
  <2>4. \A p \in Inspected(seen'.manifest) : seen'.file[p] # ""
    BY <2>1, <2>2, <2>3
  <2> QED
    BY <1>0, <2>2, <2>4 DEF InspectInv, Inspected, Tracked
<1>3. CASE UNCHANGED seen /\ (Answer \/ UNCHANGED <<pc, plan>>)
  <2>1. pc' \in {"git", "OK"} => pc \in {"git", "OK"}
    BY <1>3 DEF Answer
  <2>2. Inspected(seen)' = Inspected(seen) /\ Fingerprint(seen)' = Fingerprint(seen)
        /\ Build(seen)' = Build(seen)
    BY <1>3
  <2> QED
    BY <1>0, <1>3, <2>1, <2>2 DEF InspectInv, Answer
<1> QED
  BY <1>1, <1>2, <1>3 DEF Next, Answer, ChangeFile, ChangeGit, ChangeManifest, Edit, vars

LEMMA InspectInit == Init => InspectInv
<1> SUFFICES ASSUME Init PROVE InspectInv
  OBVIOUS
<1>1. seen \in [manifest : {None} \union Manifest, file : [Paths -> Observed], git : BOOLEAN]
  BY DEF Init, Unread, Observed
<1> QED
  BY <1>1, ManifestAssumption, BoundsAssumption DEF Init, InspectInv, TypeOK

THEOREM InspectInductive == Spec => []InspectInv
  BY InspectInit, InspectStep, PTL DEF Spec

\* Every variable keeps to its type.
THEOREM UpgradeTypes == Spec => []TypeOK
<1>1. InspectInv => TypeOK
  BY DEF InspectInv
<1> QED
  BY <1>1, InspectInductive, PTL

-----------------------------------------------------------------------------
(* The switch of BuildUpgrade *)

LEMMA JudgedSeen ==
    ASSUME InspectInv, pc = "OK"
    PROVE  /\ Judged = Inspected(seen.manifest) /\ Judged \subseteq Paths
           /\ \A p \in Judged : seen.file[p] \in Observed \ {""}
<1>1. seen.manifest \in Manifest
  BY DEF InspectInv, TypeOK
<1>2. Judged = Inspected(seen.manifest)
  BY DEF Judged, Inspected, Tracked, Expected
<1>3. Judged \subseteq Paths
  BY <1>1 DEF Judged, Tracked, Expected, Paths, Manifest
<1>4. \A p \in Judged : seen.file[p] # "" /\ seen.file[p] \in Observed
  BY <1>2, <1>3 DEF InspectInv, TypeOK
<1> QED
  BY <1>2, <1>3, <1>4

\* What the switch makes of one file, and what else decides.
Verdict(p) == Judge(seen.manifest, p, seen.file[p])
Verdicts   == {Verdict(p)[2] : p \in Judged}
Older == IF Direction(seen.manifest.version) = "DOWNGRADE" THEN {"BLOCKED"} ELSE {}
Moved == IF GitConsistent(seen.manifest, seen.git) THEN {} ELSE {"REVIEW_REQUIRED"}

LEMMA PlanParts ==
    ASSUME InspectInv, pc = "OK"
    PROVE  /\ plan.fingerprint = Fingerprint(seen) /\ plan.analysis = Build(seen)
           /\ \A p \in Judged : plan.analysis.action[p] = Verdict(p)[1]
           /\ plan.analysis.disposition =
                Worst({"UP_TO_DATE"} \union Verdicts \union Older \union Moved)
<1> DEFINE judged == [p \in Judged |-> Verdict(p)]
<1>1. plan = [fingerprint |-> Fingerprint(seen), analysis |-> Build(seen)]
  BY DEF InspectInv
<1>2. plan.fingerprint = Fingerprint(seen) /\ plan.analysis = Build(seen)
  BY <1>1
<1>3. Build(seen) =
        [action      |-> [p \in Judged |-> judged[p][1]],
         disposition |-> Worst({"UP_TO_DATE"} \union {judged[p][2] : p \in Judged}
                               \union Older \union Moved)]
  BY DEF Build, Judged, Verdict, Older, Moved
<1>4. \A p \in Judged : judged[p] = Verdict(p)
  OBVIOUS
<1> HIDE DEF judged
<1>5. {judged[p][2] : p \in Judged} = Verdicts
  BY <1>4 DEF Verdicts
<1>6. Build(seen).disposition = Worst({"UP_TO_DATE"} \union Verdicts \union Older \union Moved)
  BY <1>3, <1>5
<1>7. \A p \in Judged : Build(seen).action[p] = Verdict(p)[1]
  BY <1>3, <1>4
<1> QED
  BY <1>2, <1>6, <1>7

LEMMA Pair == ASSUME NEW v, NEW a, NEW b, v = <<a, b>> PROVE v[1] = a /\ v[2] = b
  OBVIOUS

LEMMA VerdictRight ==
    ASSUME seen.manifest \in Manifest, NEW p \in Paths, seen.file[p] \in Observed \ {""}
    PROVE  /\ Verdict(p)[2] \in DOMAIN Rank
           /\ Verdict(p)[2] = "BLOCKED" => Hopeless(p)
           /\ Verdict(p)[2] = "REVIEW_REQUIRED" => Delicate(p)
           /\ Verdict(p)[1] \in Automatic => ~Hopeless(p) /\ ~Delicate(p)
           /\ Verdict(p)[2] \in {"UP_TO_DATE", "UPGRADE_AVAILABLE"}
                => ~Hopeless(p) /\ ~Delicate(p)
<1> DEFINE r     == seen.manifest.files[p]
           state == seen.file[p]
           now   == IF r # None /\ r.template \in DOMAIN Emitted THEN Emitted[r.template] ELSE 0
           V     == Verdict(p)
<1>0. DOMAIN Rank = {"UP_TO_DATE", "UPGRADE_AVAILABLE", "REVIEW_REQUIRED", "BLOCKED"}
  BY DEF Rank
<1>1. r = None \/ r \in Record
  BY DEF Manifest
<1>2. CASE (r # None /\ r.mode # "TEXT_UTF8_LF_V1") \/ state \in {"IRREGULAR", "UNREADABLE"}
  <2>1. V = <<"BLOCKED", "BLOCKED">>
    BY <1>2 DEF Verdict, Judge
  <2>2. Hopeless(p)
    BY <1>2 DEF Hopeless
  <2>3. Verdict(p)[1] = "BLOCKED" /\ Verdict(p)[2] = "BLOCKED"
    BY <2>1, Pair
  <2> QED
    BY <1>0, <2>2, <2>3 DEF Automatic
<1> DEFINE beyond == (r # None /\ r.mode # "TEXT_UTF8_LF_V1") \/ state \in {"IRREGULAR", "UNREADABLE"}
<1>3. CASE ~beyond /\ r = None
  <2>1. V \in {<<"NEW_MANAGED_FILE", "REVIEW_REQUIRED">>,
               <<"ADOPT_EXISTING_FILE", "REVIEW_REQUIRED">>}
    BY <1>3 DEF Verdict, Judge
  <2>2. Delicate(p)
    BY <1>3 DEF Delicate
  <2>3. /\ Verdict(p)[1] \in {"NEW_MANAGED_FILE", "ADOPT_EXISTING_FILE", "ORPHAN_MANAGED_FILE"}
        /\ Verdict(p)[2] = "REVIEW_REQUIRED"
    BY <2>1, Pair
  <2> QED
    BY <1>0, <2>2, <2>3 DEF Automatic
<1>4. CASE ~beyond /\ r # None /\ (p \notin Expected(seen.manifest) \/ now = 0)
  <2>1. V = <<"ORPHAN_MANAGED_FILE", "REVIEW_REQUIRED">>
    BY <1>4 DEF Verdict, Judge
  <2>2. Delicate(p)
    BY <1>4 DEF Delicate, Expected
  <2>3. /\ Verdict(p)[1] \in {"NEW_MANAGED_FILE", "ADOPT_EXISTING_FILE", "ORPHAN_MANAGED_FILE"}
        /\ Verdict(p)[2] = "REVIEW_REQUIRED"
    BY <2>1, Pair
  <2> QED
    BY <1>0, <2>2, <2>3 DEF Automatic
<1> DEFINE known == ~beyond /\ r # None /\ p \in Expected(seen.manifest) /\ now # 0
<1>5. CASE known
  <2>1. ~Hopeless(p)
    BY <1>5 DEF Hopeless
  <2>2. /\ r \in Record /\ p \in Core \union seen.manifest.bridges
        /\ r.template \in DOMAIN Emitted /\ now = Emitted[r.template] /\ now \in Nat
    BY <1>1, <1>5, VersionAssumption DEF Expected
  <2>3. Delicate(p) <=>
          \/ state = "edited"
          \/ now > r.version /\ r.policy = "PROPOSE_ONLY" /\ state # "MISSING"
    BY <1>5, <2>2 DEF Delicate
  <2>4. state \in {"MISSING", "base", "edited"}
    BY <1>5 DEF Observed
  <2>5. CASE state = "MISSING"
    <3>1. V = <<"RECREATE_MISSING", "UPGRADE_AVAILABLE">>
      BY <1>5, <2>5 DEF Verdict, Judge
    <3> QED
      BY <1>0, <3>1, <2>1, <2>3, <2>5
  <2>6. CASE state = "edited"
    <3>1. V = <<"REVIEW_LOCAL_EDIT", "REVIEW_REQUIRED">>
      BY <1>5, <2>6 DEF Verdict, Judge
    <3> QED
      BY <1>0, <3>1, <2>3, <2>6 DEF Automatic
  <2>7. CASE state = "base" /\ now > r.version /\ r.policy = "PROPOSE_ONLY"
    <3>1. V = <<"PROPOSE_ONLY_UPDATE", "REVIEW_REQUIRED">>
      BY <1>5, <2>7 DEF Verdict, Judge
    <3> QED
      BY <1>0, <3>1, <2>3, <2>7 DEF Automatic
  <2>8. CASE state = "base" /\ ~(now > r.version /\ r.policy = "PROPOSE_ONLY")
    <3>1. r.policy \in {"REPLACE_IF_UNMODIFIED", "PROPOSE_ONLY"}
      BY <2>2 DEF Record
    <3>2. V \in {<<"TEMPLATE_UPDATE_AVAILABLE", "UPGRADE_AVAILABLE">>,
                 <<"UP_TO_DATE", "UP_TO_DATE">>}
      BY <1>5, <2>8, <3>1 DEF Verdict, Judge
    <3> QED
      BY <1>0, <3>2, <2>1, <2>3, <2>8
  <2> QED
    BY <2>4, <2>5, <2>6, <2>7, <2>8
<1> QED
  BY <1>2, <1>3, <1>4, <1>5

\* worseDisposition, over a list, is its worst member.
LEMMA WorstIsWorst ==
    ASSUME NEW ds, ds \subseteq DOMAIN Rank, ds # {}
    PROVE  Worst(ds) \in ds /\ \A e \in ds : Rank[e] <= Rank[Worst(ds)]
<1>1. DOMAIN Rank = {"UP_TO_DATE", "UPGRADE_AVAILABLE", "REVIEW_REQUIRED", "BLOCKED"}
  BY DEF Rank
<1>2. /\ Rank["UP_TO_DATE"] = 0 /\ Rank["UPGRADE_AVAILABLE"] = 1
      /\ Rank["REVIEW_REQUIRED"] = 2 /\ Rank["BLOCKED"] = 3
  BY DEF Rank
<1>3. \E d \in ds : \A e \in ds : Rank[e] <= Rank[d]
  <2>1. CASE "BLOCKED" \in ds
    BY <2>1, <1>1, <1>2
  <2>2. CASE "BLOCKED" \notin ds /\ "REVIEW_REQUIRED" \in ds
    BY <2>2, <1>1, <1>2
  <2>3. CASE ds \subseteq {"UP_TO_DATE", "UPGRADE_AVAILABLE"} /\ "UPGRADE_AVAILABLE" \in ds
    BY <2>3, <1>2
  <2>4. CASE ds = {"UP_TO_DATE"}
    BY <2>4, <1>2
  <2> QED
    BY <1>1, <2>1, <2>2, <2>3, <2>4
<1> QED
  BY <1>3 DEF Worst

\* compareGeneratorVersions: the first field that differs is greater.
LEMMA DowngradeIsNewer ==
    ASSUME NEW v \in Seq(Int) PROVE Direction(v) = "DOWNGRADE" <=> Newer(v)
<1> DEFINE n == Numeric(v)
           differ == {i \in 1..3 : n[i] # Current[i]}
           first  == CHOOSE i \in differ : \A j \in differ : i <= j
<1>1. n \in [1..3 -> Int] /\ Current \in [1..3 -> Int]
  BY VersionAssumption DEF Numeric
<1>2. CASE ~Parsed(v)
  BY <1>2 DEF Direction, Newer
<1>3. CASE Parsed(v) /\ differ = {}
  <2>1. Direction(v) = "SAME"
    BY <1>3 DEF Direction
  <2>2. \A i \in 1..3 : ~(n[i] > Current[i])
    BY <1>1, <1>3
  <2> QED
    BY <2>1, <2>2 DEF Newer
<1>4. CASE Parsed(v) /\ differ # {}
  <2>1. \E i \in differ : \A j \in differ : i <= j
    <3>1. CASE 1 \in differ
      BY <3>1
    <3>2. CASE 1 \notin differ /\ 2 \in differ
      BY <3>2
    <3>3. CASE differ = {3}
      BY <3>3
    <3> QED
      BY <1>4, <3>1, <3>2, <3>3
  <2>2. first \in differ /\ \A j \in differ : first <= j
    BY <2>1
  <2> HIDE DEF first
  <2>3. Direction(v) = IF n[first] < Current[first] THEN "UPGRADE" ELSE "DOWNGRADE"
    BY <1>4 DEF Direction, first
  <2>4. \A j \in 1..(first - 1) : n[j] = Current[j]
    BY <2>2
  <2>5. Newer(v) <=> n[first] > Current[first]
    <3>1. ASSUME NEW i \in 1..3, n[i] > Current[i], \A j \in 1..(i - 1) : n[j] = Current[j]
          PROVE  i = first
      BY <3>1, <2>2, <1>1
    <3> QED
      BY <1>4, <2>2, <2>4, <3>1 DEF Newer
  <2> QED
    BY <2>2, <2>3, <2>5, <1>1
<1> QED
  BY <1>2, <1>3, <1>4

-----------------------------------------------------------------------------
\* The inspection and the planner agree on which files there are to judge.
THEOREM JudgedWasInspected == Spec => []AnalysedSeen
<1>1. InspectInv => AnalysedSeen
  <2>1. DOMAIN Build(seen).action = Judged
    BY DEF Build, Judged
  <2> QED
    BY <2>1, JudgedSeen, PlanParts DEF AnalysedSeen
<1> QED
  BY <1>1, InspectInductive, PTL

\* The plan's disposition, and where it is from.
LEMMA DispositionFrom ==
    ASSUME InspectInv, pc = "OK"
    PROVE  LET d == plan.analysis.disposition IN
           /\ d = "BLOCKED" => Newer(seen.manifest.version) \/ \E p \in Judged : Hopeless(p)
           /\ d = "REVIEW_REQUIRED" =>
                  ~GitConsistent(seen.manifest, seen.git) \/ \E p \in Judged : Delicate(p)
           /\ d \in {"UP_TO_DATE", "UPGRADE_AVAILABLE"} =>
                  /\ ~Newer(seen.manifest.version)
                  /\ GitConsistent(seen.manifest, seen.git)
                  /\ \A p \in Judged : ~Hopeless(p) /\ ~Delicate(p)
<1> DEFINE d     == plan.analysis.disposition
           all   == {"UP_TO_DATE"} \union Verdicts \union Older \union Moved
<1>0. seen.manifest \in Manifest /\ seen.manifest.version \in Seq(Int)
  BY DEF InspectInv, TypeOK, Manifest
<1>1. \A p \in Judged :
        /\ Verdict(p)[2] \in DOMAIN Rank
        /\ Verdict(p)[2] = "BLOCKED" => Hopeless(p)
        /\ Verdict(p)[2] = "REVIEW_REQUIRED" => Delicate(p)
        /\ Verdict(p)[2] \in {"UP_TO_DATE", "UPGRADE_AVAILABLE"} => ~Hopeless(p) /\ ~Delicate(p)
  BY <1>0, JudgedSeen, VerdictRight
<1>2. d = Worst(all)
  BY PlanParts
<1>3. DOMAIN Rank = {"UP_TO_DATE", "UPGRADE_AVAILABLE", "REVIEW_REQUIRED", "BLOCKED"}
  BY DEF Rank
<1>4. all \subseteq DOMAIN Rank
  BY <1>1, <1>3 DEF Verdicts, Older, Moved
<1>5. d \in all /\ \A e \in all : Rank[e] <= Rank[d]
  <2> HIDE DEF all
  <2> QED
    BY <1>2, <1>4, WorstIsWorst DEF all
<1>6. Direction(seen.manifest.version) = "DOWNGRADE" <=> Newer(seen.manifest.version)
  BY <1>0, DowngradeIsNewer
<1>7. CASE d = "BLOCKED"
  <2>1. d \in Older \/ d \in Verdicts
    BY <1>5, <1>7 DEF Moved
  <2> QED
    BY <1>1, <1>6, <1>7, <2>1 DEF Verdicts, Older
<1>8. CASE d = "REVIEW_REQUIRED"
  <2>1. d \in Moved \/ d \in Verdicts
    BY <1>5, <1>8 DEF Older
  <2> QED
    BY <1>1, <1>8, <2>1 DEF Verdicts, Moved
<1>9. CASE d \in {"UP_TO_DATE", "UPGRADE_AVAILABLE"}
  <2>1. "BLOCKED" \notin all /\ "REVIEW_REQUIRED" \notin all
    BY <1>5, <1>9 DEF Rank
  <2>2. \A p \in Judged : Verdict(p)[2] \in {"UP_TO_DATE", "UPGRADE_AVAILABLE"}
    BY <1>1, <1>3, <2>1 DEF Verdicts
  <2> QED
    BY <1>1, <1>6, <1>9, <2>1, <2>2 DEF Older, Moved
<1> QED
  BY <1>4, <1>5, <1>7, <1>8, <1>9, <1>3

\* What goes on without review is safe to.
THEOREM NoReviewIsSafe == Spec => []AutomaticIsSafe
<1>1. InspectInv => AutomaticIsSafe
  <2> SUFFICES ASSUME InspectInv, pc = "OK"
               PROVE  /\ \A p \in Judged :
                            plan.analysis.action[p] \in Automatic => ~Hopeless(p) /\ ~Delicate(p)
                      /\ plan.analysis.disposition \in {"UP_TO_DATE", "UPGRADE_AVAILABLE"} =>
                            /\ ~Newer(seen.manifest.version)
                            /\ GitConsistent(seen.manifest, seen.git)
                            /\ \A p \in Judged : ~Hopeless(p) /\ ~Delicate(p)
    BY DEF AutomaticIsSafe
  <2>1. ASSUME NEW p \in Judged, plan.analysis.action[p] \in Automatic
        PROVE  ~Hopeless(p) /\ ~Delicate(p)
    <3>1. plan.analysis.action[p] = Verdict(p)[1]
      BY PlanParts, <2>1
    <3>2. seen.manifest \in Manifest
      BY DEF InspectInv, TypeOK
    <3> QED
      BY <2>1, <3>1, <3>2, JudgedSeen, VerdictRight
  <2> QED
    BY <2>1, DispositionFrom
<1> QED
  BY <1>1, InspectInductive, PTL

\* Who is stopped is stopped for a reason.
THEOREM StopHasReason == Spec => []StoppedForReason
<1>1. InspectInv => StoppedForReason
  BY DispositionFrom DEF StoppedForReason
<1> QED
  BY <1>1, InspectInductive, PTL

\* A plan that fits the target is the target's.
THEOREM FittingIsRight == Spec => []FittingPlanIsRight
<1>1. InspectInv => FittingPlanIsRight
  <2> SUFFICES ASSUME InspectInv, pc = "OK", plan.fingerprint = Fingerprint(Found)
               PROVE  plan.analysis = Build(Found)
    BY DEF FittingPlanIsRight
  <2>1. Fingerprint(seen) = Fingerprint(Found) /\ plan.analysis = Build(seen)
    BY PlanParts
  <2>2. seen.manifest = manifest /\ seen.file = Found.file /\ seen.git = git
    BY <2>1 DEF Fingerprint, Found
  <2>3. seen = [manifest |-> seen.manifest, file |-> seen.file, git |-> seen.git]
    BY DEF InspectInv, TypeOK
  <2>4. Found = [manifest |-> manifest, file |-> Found.file, git |-> git]
    BY DEF Found
  <2> QED
    BY <2>1, <2>2, <2>3, <2>4
<1> QED
  BY <1>1, InspectInductive, PTL
=============================================================================
