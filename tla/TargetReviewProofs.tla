--------------------------- MODULE TargetReviewProofs ---------------------------
(***************************************************************************)
(* TargetReview's invariants, for any names, targets and intents.          *)
(***************************************************************************)
EXTENDS TargetReview, TLAPS

WalkEntry  == [kind : SeenKind, data : Contents]
Inspection == [walked : [Names -> WalkEntry], manifest : DOMAIN Says \union {None},
               git : GitSeen, raw : DOMAIN Says \union {None}]

-----------------------------------------------------------------------------
(* The names *)

LEMMA PlaceIsNat == \A n \in Names : Place(n) \in Nat
<1> SUFFICES ASSUME NEW n \in Names PROVE Place(n) \in Nat
  OBVIOUS
<1>1. DOMAIN Order \subseteq Nat
  BY NamesAssumption
<1>2. \E i \in DOMAIN Order : Order[i] = n
  BY DEF Names
<1>3. Place(n) \in DOMAIN Order
  BY <1>2 DEF Place
<1> QED
  BY <1>1, <1>3

LEMMA KnownKinds ==
    /\ Manifest \in Known /\ Tasks \subseteq Known /\ Core \union Bridges \subseteq Known
    /\ {".git", ".exord", Manifest} \subseteq Names
  BY NamesAssumption DEF Known

\* What Entry says of a key: nothing is there, or one name, or names that differ
\* in case.
LEMMA EntryOfKey ==
    ASSUME NEW walked, NEW key
    PROVE  LET e == Entry(walked, key)
               there(n) == Fold[n] = key /\ walked[n].kind # "absent"
           IN  /\ e.kind = "absent" => \A n \in Names : ~there(n)
               /\ e.kind \in {"absent", "CASE_CONFLICT"}
                  \/ /\ e.name \in Names /\ there(e.name)
                     /\ e.kind = walked[e.name].kind /\ e.data = walked[e.name].data
                     /\ \A n \in Names : there(n) => n = e.name
<1> DEFINE there(n) == Fold[n] = key /\ walked[n].kind # "absent"
           same  == {n \in Names : there(n)}
           first == CHOOSE n \in same : \A m \in same : Place(n) <= Place(m)
           e     == Entry(walked, key)
<1>1. e = IF same = {} THEN [name |-> "", kind |-> "absent", data |-> ""]
          ELSE IF same # {first} THEN [name |-> first, kind |-> "CASE_CONFLICT", data |-> ""]
          ELSE [name |-> first, kind |-> walked[first].kind, data |-> walked[first].data]
  BY DEF Entry
<1> HIDE DEF e, first
<1>2. CASE same = {}
  <2>1. e.kind = "absent"
    BY <1>1, <1>2
  <2> QED
    BY <1>2, <2>1 DEF e
<1>3. CASE same # {} /\ same # {first}
  <2>1. e.kind = "CASE_CONFLICT"
    BY <1>1, <1>3
  <2> QED
    BY <2>1 DEF e
<1>4. CASE same = {first}
  <2>1. e.name = first /\ e.kind = walked[first].kind /\ e.data = walked[first].data
    BY <1>1, <1>4
  <2>2. first \in Names /\ there(first) /\ \A n \in Names : there(n) => n = first
    BY <1>4
  <2> QED
    BY <2>1, <2>2 DEF e
<1> QED
  BY <1>2, <1>3, <1>4

LEMMA EntryOfOne ==
    ASSUME NEW walked, NEW n \in Names, walked[n].kind # "absent",
           \A m \in Names : Fold[m] = Fold[n] /\ walked[m].kind # "absent" => m = n
    PROVE  Entry(walked, Fold[n])
              = [name |-> n, kind |-> walked[n].kind, data |-> walked[n].data]
<1> DEFINE same  == {m \in Names : Fold[m] = Fold[n] /\ walked[m].kind # "absent"}
           first == CHOOSE k \in same : \A m \in same : Place(k) <= Place(m)
<1>1. same = {n}
  OBVIOUS
<1>2. \E k \in same : \A m \in same : Place(k) <= Place(m)
  BY <1>1, PlaceIsNat
<1>3. first = n
  BY <1>1, <1>2
<1>4. Entry(walked, Fold[n])
         = IF same = {} THEN [name |-> "", kind |-> "absent", data |-> ""]
           ELSE IF same # {first} THEN [name |-> first, kind |-> "CASE_CONFLICT", data |-> ""]
           ELSE [name |-> first, kind |-> walked[first].kind, data |-> walked[first].data]
  BY DEF Entry
<1> HIDE DEF same, first
<1> QED
  BY <1>1, <1>3, <1>4

\* Equal fingerprints are of equal walks, as far as anything was there.
LEMMA FingerprintFits ==
    ASSUME NEW walked, NEW g, NEW now, NEW h,
           Fingerprint(walked, g) = Fingerprint(now, h)
    PROVE  /\ \A n \in Names : walked[n].kind # "absent" \/ now[n].kind # "absent"
                                  => walked[n] = now[n]
           /\ g.status = h.status /\ g.branch = h.branch /\ g.head = h.head
           /\ g.operation = h.operation
<1> DEFINE entries(w) == {<<n, w[n]>> : n \in {m \in Names : w[m].kind # "absent"}}
<1>1. entries(walked) = entries(now) /\ GitFacts(g) = GitFacts(h)
  BY DEF Fingerprint
<1>2. ASSUME NEW v, NEW w, entries(v) = entries(w), NEW n \in Names, v[n].kind # "absent"
      PROVE  v[n] = w[n]
  <2>1. <<n, v[n]>> \in entries(w)
    BY <1>2
  <2>2. PICK m \in Names : <<n, v[n]>> = <<m, w[m]>>
    BY <2>1
  <2> QED
    BY <2>2
<1>3. g.status = h.status /\ g.branch = h.branch /\ g.head = h.head
      /\ g.operation = h.operation
  BY <1>1 DEF GitFacts
<1> HIDE DEF entries
<1> QED
  BY <1>1, <1>2, <1>3

\* What each name would be found as, and when.
LEMMA NowIsTyped ==
    ASSUME IsTree(tree), NEW n \in Names
    PROVE  /\ NowWalked[n] = NowEntry(n) /\ NowEntry(n) \in WalkEntry
           /\ NowEntry(n).kind # "absent" => Reached(n)
           /\ Reached(n) => NowEntry(n).kind # "absent"
           /\ job.goal # "create" =>
                 /\ NowEntry(n).kind = "DIRECTORY" => tree[n].kind = "DIRECTORY"
                 /\ NowEntry(n).kind = "GIT_DIRECTORY"
                       => n = ".git" /\ tree[n].kind \in {"DIRECTORY", "NESTED"}
                 /\ n = ".git" /\ Reached(n) /\ tree[n].kind \in {"DIRECTORY", "NESTED"}
                       => NowEntry(n).kind = "GIT_DIRECTORY"
                 /\ Reached(n) /\ tree[n].kind = "NESTED"
                       => NowEntry(n).kind \notin {"absent", "DIRECTORY"}
<1>1. tree[n] \in Node /\ tree[n].kind \in Kind /\ tree[n].data \in Contents
  BY DEF IsTree, Node
<1>a. "" \in Contents
  BY WorldsAssumption
<1>2. NowWalked[n] = NowEntry(n)
  BY DEF NowWalked
<1> DEFINE e == NowEntry(n)
<1>3. CASE ~Reached(n)
  <2>1. e = [kind |-> "absent", data |-> ""]
    BY <1>3 DEF NowEntry, Empty
  <2> HIDE DEF e
  <2>2. e \in WalkEntry /\ e.kind = "absent"
    BY <1>a, <2>1 DEF WalkEntry, SeenKind, Kind
  <2> QED
    BY <1>2, <1>3, <2>2 DEF e
<1>4. CASE Reached(n) /\ job.goal = "create"
  <2>1. PICK k \in {"DIRECTORY", "REGULAR"} : e = [kind |-> k, data |-> ""]
    BY <1>4 DEF NowEntry
  <2> HIDE DEF e
  <2>2. e \in WalkEntry /\ e.kind # "absent"
    BY <1>a, <2>1 DEF WalkEntry, SeenKind, Kind
  <2> QED
    BY <1>2, <1>4, <2>2 DEF e
<1>5. CASE Reached(n) /\ job.goal # "create"
  <2>0. tree[n].kind # "absent"
    BY <1>5 DEF Reached
  <2>1. CASE tree[n].kind \in {"SYMLINK", "REGULAR"}
    <3>1. e = tree[n]
      BY <1>5, <2>1 DEF NowEntry
    <3> HIDE DEF e
    <3>2. e \in WalkEntry /\ e.kind \in {"SYMLINK", "REGULAR"}
      BY <1>1, <2>1, <3>1 DEF WalkEntry, Node, SeenKind
    <3> QED
      BY <1>2, <1>5, <2>1, <3>2 DEF e
  <2>2. CASE tree[n].kind \in {"SPECIAL", "NESTED", "DIRECTORY"}
    <3> DEFINE k == IF tree[n].kind = "SPECIAL" THEN "SPECIAL"
                    ELSE IF n = ".git" THEN "GIT_DIRECTORY"
                    ELSE IF tree[n].kind = "NESTED" THEN "NESTED_GIT_DIRECTORY"
                    ELSE "DIRECTORY"
    <3>1. e = [kind |-> k, data |-> ""]
      BY <1>5, <2>2 DEF NowEntry
    <3>2. k \in SeenKind
      BY DEF SeenKind, Kind
    <3> HIDE DEF e, k
    <3>3. e \in WalkEntry /\ e.kind = k
      BY <1>a, <3>1, <3>2 DEF WalkEntry
    <3> QED
      BY <1>2, <1>5, <2>2, <3>3 DEF e, k
  <2> QED
    BY <1>1, <2>0, <2>1, <2>2 DEF Kind
<1> QED
  BY <1>3, <1>4, <1>5

-----------------------------------------------------------------------------
(* Types *)

GitRead   == ReadTop \/ ReadBranch \/ ReadHead \/ ReadStatus \/ ReadHeads \/ ReadDirs
GitLabels == {"top", "branch", "head", "status", "heads", "dirs"}
User      == (\E n \in Names : ChangeName(n)) \/ ChangeGit

LEMMA Steps ==
    [Next]_vars <=> \/ Begin \/ List \/ Visit \/ EndWalk \/ ReadManifest \/ GitRead
                    \/ ReadProject \/ Plan \/ Review \/ User \/ UNCHANGED vars
  BY DEF Next, Inspect, GitRead, User

LEMMA GitIsTyped ==
    ASSUME seen \in Inspection, NEW b \in Branches \union {Detached}, NEW h \in Nat,
           NEW o \in {"", "MERGE", "REBASE"}
    PROVE  /\ NoGit \in GitSeen /\ seen.git \in GitSeen
           /\ [seen.git EXCEPT !.branch = b] \in GitSeen
           /\ [seen.git EXCEPT !.head = h] \in GitSeen
           /\ [seen.git EXCEPT !.operation = o] \in GitSeen
           /\ [seen.git EXCEPT !.status = "STATUS_UNAVAILABLE"] \in GitSeen
<1>1. seen.git \in GitSeen
  BY DEF Inspection
<1>2. NoGit \in GitSeen
  BY DEF NoGit, GitSeen, Detached
<1> DEFINE g == seen.git
<1>3. g \in GitSeen
  BY <1>1
<1> HIDE DEF g
<1>4. /\ [g EXCEPT !.branch = b] \in GitSeen /\ [g EXCEPT !.head = h] \in GitSeen
      /\ [g EXCEPT !.operation = o] \in GitSeen
      /\ [g EXCEPT !.status = "STATUS_UNAVAILABLE"] \in GitSeen
  BY <1>3 DEF GitSeen
<1> QED
  BY <1>1, <1>2, <1>4 DEF g

\* What a Git command leaves of the inspection, and where it goes on.
LEMMA GitReadIs ==
    ASSUME TypeOK, GitRead
    PROVE  /\ \E g \in GitSeen : seen' = [seen EXCEPT !.git = g]
           /\ pc \in GitLabels /\ pc' \in (GitLabels \ {"top"}) \union {Inspected}
           /\ UNCHANGED <<job, target, listed, plan>>
<1>0. seen \in Inspection /\ seen.git \in GitSeen /\ git \in GitState
  BY DEF TypeOK, Inspection, WalkEntry
<1>1. seen = [seen EXCEPT !.git = seen.git]
  BY <1>0 DEF Inspection
<1>2. git.branch \in Branches \union {Detached} /\ git.head \in Nat
  BY <1>0 DEF GitState
<1>3. CASE ReadTop
  <2>1. UNCHANGED <<job, target, listed, plan>> /\ pc = "top"
    BY <1>3 DEF ReadTop
  <2>2. pc' = "branch" \/ pc' = Inspected
    BY <1>3 DEF ReadTop, Goto
  <2> DEFINE marker == EntryOf(".git")
             file == marker.kind = "REGULAR"
             there == marker.kind # "absent"
             base == [NoGit EXCEPT !.detected = there, !.file = file]
  <2>3. \/ seen' = [seen EXCEPT !.git = [base EXCEPT !.detected = TRUE, !.match = TRUE,
                                                     !.status = "OK"]]
        \/ seen' = [seen EXCEPT !.git = [base EXCEPT !.detected = TRUE,
                                                     !.status = "NESTED_DIRECTORY"]]
        \/ seen' = [seen EXCEPT !.git = [base EXCEPT !.status =
                       IF there THEN "INVALID_REPOSITORY" ELSE "NOT_GIT"]]
        \/ seen' = [seen EXCEPT !.git = [base EXCEPT !.cli = FALSE, !.status =
                       IF there THEN "CLI_UNAVAILABLE" ELSE "NOT_GIT"]]
    BY <1>3 DEF ReadTop
  <2>4. file \in BOOLEAN /\ there \in BOOLEAN
    OBVIOUS
  <2> HIDE DEF file, there
  <2>5. base \in GitSeen
    BY <2>4 DEF NoGit, GitSeen, Detached
  <2> HIDE DEF base
  <2>6. \A x \in BOOLEAN : \A st \in {"NOT_GIT", "OK", "CLI_UNAVAILABLE", "INVALID_REPOSITORY",
               "NESTED_DIRECTORY", "STATUS_UNAVAILABLE"} :
           /\ [base EXCEPT !.detected = TRUE, !.match = TRUE, !.status = st] \in GitSeen
           /\ [base EXCEPT !.detected = TRUE, !.status = st] \in GitSeen
           /\ [base EXCEPT !.status = st] \in GitSeen
           /\ [base EXCEPT !.cli = FALSE, !.status = st] \in GitSeen
    BY <2>5 DEF GitSeen
  <2>7. \E g \in GitSeen : seen' = [seen EXCEPT !.git = g]
    BY <2>3, <2>6
  <2> QED
    BY <2>1, <2>2, <2>7 DEF GitLabels
<1>4. CASE ReadBranch
  <2>1. seen' = seen \/ seen' = [seen EXCEPT !.git = [seen.git EXCEPT !.branch = git.branch]]
    BY <1>4 DEF ReadBranch, Saw
  <2> QED
    BY <1>0, <1>1, <1>2, <1>4, <2>1, GitIsTyped DEF ReadBranch, Goto, After, GitLabels
<1>5. CASE ReadHead
  <2>1. seen' = seen \/ seen' = [seen EXCEPT !.git = [seen.git EXCEPT !.head = git.head]]
    BY <1>5 DEF ReadHead, Saw
  <2> QED
    BY <1>0, <1>1, <1>2, <1>5, <2>1, GitIsTyped DEF ReadHead, Goto, After, GitLabels
<1>6. CASE ReadStatus
  <2>1. \/ seen' = seen
        \/ seen' = [seen EXCEPT !.git = [seen.git EXCEPT !.status = "STATUS_UNAVAILABLE"]]
    BY <1>6 DEF ReadStatus, Saw
  <2> QED
    BY <1>0, <1>1, <1>2, <1>6, <2>1, GitIsTyped DEF ReadStatus, Goto, After, GitLabels
<1>7. CASE ReadHeads
  <2>1. seen' = seen \/ seen' = [seen EXCEPT !.git = [seen.git EXCEPT !.operation = "MERGE"]]
    BY <1>7 DEF ReadHeads, Saw
  <2> QED
    BY <1>0, <1>1, <1>2, <1>7, <2>1, GitIsTyped DEF ReadHeads, Goto, After, GitLabels
<1>8. CASE ReadDirs
  <2>1. \/ seen' = seen
        \/ seen' = [seen EXCEPT !.git = [seen.git EXCEPT !.operation = "REBASE"]]
        \/ seen' = [seen EXCEPT !.git = [seen.git EXCEPT !.status = "STATUS_UNAVAILABLE"]]
    BY <1>8 DEF ReadDirs, Saw
  <2> QED
    BY <1>0, <1>1, <1>2, <1>8, <2>1, GitIsTyped DEF ReadDirs, Goto, GitLabels
<1> QED
  BY <1>3, <1>4, <1>5, <1>6, <1>7, <1>8 DEF GitRead

\* A command begins with nothing, and finds what is in a directory after it.
ParentSeen ==
    /\ pc = "list" => \A m \in Names : seen.walked[m].kind = "absent"
    /\ \A m \in Names :
          Dir[m] # Root /\ (listed[m] # "" \/ seen.walked[m].kind # "absent")
              => seen.walked[Dir[m]].kind # "absent"

LEMMA ListOfIs ==
    ASSUME NEW d PROVE ListOf(d) \in [Names -> Listing]
  BY DEF ListOf, Listing

\* The listing of CREATE accepts harmless names only.
LEMMA ListIs ==
    ASSUME TypeOK, List
    PROVE  \/ pc' = "walk" /\ UNCHANGED seen /\ listed' = ListOf(Root) /\ job.goal # "create"
           \/ pc' = "UNSUPPORTED_TARGET" /\ UNCHANGED <<listed, seen>>
           \/ /\ pc' = "plan" /\ UNCHANGED listed /\ job.goal = "create"
              /\ \E w \in [Names -> WalkEntry] :
                    /\ seen' = [seen EXCEPT !.walked = w]
                    /\ \A n \in Names : w[n].kind # "absent" => n \in Harmless /\ Dir[n] = Root
<1>1. CASE job.goal = "create" /\ pc' = "plan"
  <2> DEFINE at == ListOf(Root)
             w  == [n \in Names |->
                      IF at[n] = "" THEN Empty
                      ELSE [kind |-> IF at[n] = "DIRECTORY" THEN "DIRECTORY" ELSE "REGULAR",
                            data |-> ""]]
  <2>1. /\ \A n \in Names : at[n] # "" => n \in Harmless
        /\ seen' = [seen EXCEPT !.walked = w] /\ UNCHANGED listed
    BY <1>1 DEF List, Goto, Fail
  <2>2. ASSUME NEW n \in Names
        PROVE  w[n] \in WalkEntry /\ (w[n].kind # "absent" => at[n] # "")
    <3>1. "" \in Contents
      BY WorldsAssumption
    <3>2. CASE at[n] = ""
      BY <3>1, <3>2 DEF Empty, WalkEntry, SeenKind, Kind
    <3>3. CASE at[n] # ""
      BY <3>1, <3>3 DEF WalkEntry, SeenKind, Kind
    <3> QED
      BY <3>2, <3>3
  <2>3. \A n \in Names : at[n] # "" => Dir[n] = Root
    BY DEF ListOf
  <2>4. w \in [Names -> WalkEntry]
    BY <2>2
  <2> QED
    BY <1>1, <2>1, <2>2, <2>3, <2>4
<1>2. CASE ~(job.goal = "create" /\ pc' = "plan")
  BY <1>2 DEF List, Goto, Fail
<1> QED
  BY <1>1, <1>2

LEMMA ReadableIs ==
    ASSUME IsTree(tree), NEW n \in Names PROVE Readable(n) \subseteq Contents \union {None}
<1>1. tree[n].data \in Contents
  BY DEF IsTree, Node
<1> QED
  BY <1>1 DEF Readable

\* A visit looks at one name, or finds it and lists what is in it.
LEMMA VisitIs ==
    ASSUME TypeOK, Visit
    PROVE  /\ pc = "walk" /\ UNCHANGED <<job, target, plan>>
           /\ \/ pc' = "UNSUPPORTED_TARGET" /\ UNCHANGED <<listed, seen>>
              \/ \E n \in Names, s \in {"entered", "hash"} :
                    /\ pc' = "walk" /\ listed[n] # "" /\ seen' = seen
                    /\ listed' = [listed EXCEPT ![n] = s]
              \/ \E n \in Names, e \in WalkEntry :
                    /\ pc' = "walk" /\ listed[n] # "" /\ e.kind # "absent"
                    /\ seen' = [seen EXCEPT !.walked[n] = e]
                    /\ listed' \in [Names -> Listing] /\ listed'[n] = ""
                    /\ \A m \in Names \ {n} :
                          listed'[m] = listed[m]
                          \/ (Dir[m] = n /\ listed'[m] = ListOf(n)[m])
<1>1. pc = "walk" /\ UNCHANGED <<job, target, plan>>
  BY DEF Visit
<1>2. listed \in [Names -> Listing]
  BY DEF TypeOK
<1>3. PICK n \in Names : /\ listed[n] # ""
                         /\ \/ VisitDirectory(n) \/ Enter(n) \/ VisitOther(n) \/ Hash(n)
                            \/ Fail
  BY DEF Visit
<1>4. CASE Fail
  BY <1>1, <1>4 DEF Fail, Goto
<1>5. CASE \E s \in {"entered", "hash"} : Await(n, s)
  BY <1>1, <1>3, <1>5 DEF Await
<1>6. ASSUME ~Fail, ~\E s \in {"entered", "hash"} : Await(n, s)
      PROVE  \E k \in SeenKind \ {"absent"}, d \in Contents :
                /\ Found(n, k, d) /\ pc' = pc
                /\ \/ listed' = [listed EXCEPT ![n] = ""]
                   \/ listed' = [m \in Names |-> IF m = n THEN ""
                                     ELSE IF Dir[m] = n THEN ListOf(n)[m] ELSE listed[m]]
  <2>0. tree[n] \in Node /\ "" \in Contents /\ Readable(n) \subseteq Contents \union {None}
    BY WorldsAssumption, ReadableIs DEF TypeOK, IsTree
  <2>1. CASE VisitDirectory(n)
    <3>1. Met(n, "GIT_DIRECTORY", "") \/ Met(n, "NESTED_GIT_DIRECTORY", "")
      BY <1>6, <2>1 DEF VisitDirectory
    <3> QED
      BY <2>0, <3>1 DEF Met, SeenKind, Kind
  <2>2. CASE Enter(n)
    <3>1. /\ Found(n, "DIRECTORY", "") /\ pc' = pc
          /\ \/ listed' = [listed EXCEPT ![n] = ""]
             \/ listed' = [m \in Names |-> IF m = n THEN ""
                               ELSE IF Dir[m] = n THEN ListOf(n)[m] ELSE listed[m]]
      BY <1>6, <2>2 DEF Enter, Met
    <3> QED
      BY <2>0, <3>1 DEF SeenKind, Kind
  <2>3. CASE VisitOther(n)
    <3>1. \/ Met(n, "SPECIAL", "")
          \/ tree[n].kind \in {"SYMLINK", "REGULAR"} /\ Met(n, tree[n].kind, tree[n].data)
      BY <1>6, <2>3 DEF VisitOther
    <3>2. tree[n].data \in Contents
      BY <2>0 DEF Node
    <3> QED
      BY <2>0, <3>1, <3>2 DEF Met, SeenKind, Kind
  <2>4. CASE Hash(n)
    <3>1. \E d \in Contents : Met(n, "REGULAR", d)
      BY <1>6, <2>0, <2>4 DEF Hash
    <3> QED
      BY <3>1 DEF Met, SeenKind, Kind
  <2> QED
    BY <1>3, <1>6, <2>1, <2>2, <2>3, <2>4
<1>7. ASSUME NEW k \in SeenKind \ {"absent"}, NEW d \in Contents, Found(n, k, d), pc' = pc,
             \/ listed' = [listed EXCEPT ![n] = ""]
             \/ listed' = [m \in Names |-> IF m = n THEN ""
                               ELSE IF Dir[m] = n THEN ListOf(n)[m] ELSE listed[m]]
      PROVE  \E e \in WalkEntry :
                /\ pc' = "walk" /\ listed[n] # "" /\ e.kind # "absent"
                /\ seen' = [seen EXCEPT !.walked[n] = e]
                /\ listed' \in [Names -> Listing] /\ listed'[n] = ""
                /\ \A m \in Names \ {n} :
                      listed'[m] = listed[m] \/ (Dir[m] = n /\ listed'[m] = ListOf(n)[m])
  <2> DEFINE e == [kind |-> k, data |-> d]
  <2>1. seen' = [seen EXCEPT !.walked[n] = e]
    BY <1>7 DEF Found
  <2>2. e \in WalkEntry /\ e.kind # "absent"
    BY DEF WalkEntry
  <2>3. "" \in Listing
    BY DEF Listing
  <2>4. /\ listed' \in [Names -> Listing] /\ listed'[n] = ""
        /\ \A m \in Names \ {n} :
              listed'[m] = listed[m] \/ (Dir[m] = n /\ listed'[m] = ListOf(n)[m])
    BY <1>2, <1>7, <2>3, ListOfIs
  <2> QED
    BY <1>1, <1>3, <1>7, <2>1, <2>2, <2>4
<1> QED
  BY <1>1, <1>4, <1>5, <1>6, <1>7

\* The user's steps leave the command alone, and the command's steps the target.
LEMMA UserOrCommand ==
    ASSUME TypeOK, [Next]_vars
    PROVE  /\ User => UNCHANGED <<pc, job, listed, seen, plan, faults>> /\ edits' = edits + 1
           /\ ~User => UNCHANGED target
           /\ ~Begin => job' = job
<1>1. User => UNCHANGED <<pc, job, listed, seen, plan, faults>> /\ edits' = edits + 1
  BY DEF User, ChangeName, ChangeGit, Edit
<1>2. CASE Begin
  BY <1>1, <1>2 DEF Begin
<1>3. CASE GitRead
  BY <1>1, <1>3, GitReadIs
<1>4. CASE ~Begin /\ ~GitRead /\ ~User
  BY <1>1, <1>4, Steps DEF List, Visit, EndWalk, ReadManifest, ReadProject, Plan, Review, vars
<1>5. CASE User
  <2>1. job' = job
    BY <1>1, <1>5
  <2> QED
    BY <1>1, <1>5, <2>1
<1> QED
  BY <1>2, <1>3, <1>4, <1>5

\* TypeOK in parts: what a command has, and the bounded rest.
Typed ==
    /\ pc \in Labels
    /\ listed \in [Names -> Listing]
    /\ seen \in Inspection
    /\ \A n \in Names : listed[n] # "" => /\ pc \in {"walk", "UNSUPPORTED_TARGET"}
                                         /\ seen.walked[n].kind = "absent"
    /\ pc # "OK" => plan = None

LEMMA TypeParts ==
    TypeOK <=> /\ Typed /\ job \in Job /\ IsTree(tree) /\ git \in GitState
               /\ edits \in 0..MaxEdits /\ faults \in 0..MaxFaults
  BY DEF TypeOK, Typed, Inspection, WalkEntry

LEMMA RestStep ==
    ASSUME TypeOK, [Next]_vars
    PROVE  /\ job' \in Job /\ IsTree(tree') /\ git' \in GitState
           /\ edits' \in 0..MaxEdits /\ faults' \in 0..MaxFaults
<1>1. job' \in Job
  <2>1. CASE Begin
    BY <2>1, WorldsAssumption DEF Begin
  <2> QED
    BY <2>1, UserOrCommand DEF TypeOK
<1>2. IsTree(tree') /\ git' \in GitState /\ edits' \in 0..MaxEdits
  <2>0. IsTree(tree) /\ git \in GitState /\ edits \in 0..MaxEdits
    BY TypeParts
  <2>1. CASE User
    <3>1. edits < MaxEdits /\ edits' = edits + 1
      BY <2>1 DEF User, ChangeName, ChangeGit, Edit
    <3>2. edits' \in 0..MaxEdits
      BY <2>0, <3>1, BoundsAssumption
    <3>3. IsTree(tree') /\ git' \in GitState
      <4>1. CASE ChangeGit
        BY <2>0, <4>1, WorldsAssumption DEF ChangeGit
      <4>2. CASE \E n \in Names : ChangeName(n)
        BY <2>0, <4>2 DEF ChangeName
      <4> QED
        BY <2>1, <4>1, <4>2 DEF User
    <3> QED
      BY <3>2, <3>3
  <2>2. CASE ~User
    BY <2>2, UserOrCommand DEF target, TypeOK
  <2> QED
    BY <2>1, <2>2
<1>3. faults' \in 0..MaxFaults
  <2>1. faults' = faults \/ Fault
    BY Steps DEF GitRead, Begin, List, Visit, EndWalk, ReadManifest, ReadTop, ReadBranch,
       ReadHead, ReadStatus, ReadHeads, ReadDirs, ReadProject, Plan, Review, User, ChangeName,
       ChangeGit, Edit, vars, VisitDirectory, Enter, VisitOther, Hash, Met, Await
  <2> QED
    BY <2>1, TypeParts, BoundsAssumption DEF Fault
<1> QED
  BY <1>1, <1>2, <1>3

LEMMA TypeStep ==
    ASSUME TypeOK, ParentSeen, [Next]_vars PROVE TypeOK' /\ ParentSeen'
<1> SUFFICES Typed' /\ ParentSeen'
  <2>1. Typed' => TypeOK'
    BY RestStep, TypeParts DEF TypeOK, Typed, Inspection, WalkEntry
  <2> QED
    BY <2>1
<1> USE DEF Labels, Answers
<1>0. Typed /\ \A n \in Names : Dir[n] # Root => Dir[n] \in Names
  BY TypeParts, TreeAssumption
<1>a. Unlisted \in [Names -> Listing] /\ \A n \in Names : Unlisted[n] = ""
  BY DEF Unlisted, Listing
<1>b. NoGit \in GitSeen /\ "" \in Contents
  BY WorldsAssumption DEF NoGit, GitSeen, Detached
<1>1. CASE Begin
  <2>1. Blank \in Inspection /\ \A n \in Names : Blank.walked[n].kind = "absent"
    BY <1>b DEF Blank, Inspection, WalkEntry, SeenKind, Kind, Empty
  <2> QED
    BY <1>1, <1>a, <2>1 DEF Begin, Goto, Typed, ParentSeen
<1>2. CASE List
  <2>1. /\ pc = "list" /\ plan = None /\ UNCHANGED plan
        /\ \A n \in Names : listed[n] = "" /\ seen.walked[n].kind = "absent"
    BY <1>0, <1>2 DEF List, Typed, ParentSeen
  <2>2. CASE pc' = "walk" /\ UNCHANGED seen /\ listed' = ListOf(Root)
    <3>1. \A n \in Names : listed'[n] # "" => Dir[n] = Root
      BY <2>2 DEF ListOf
    <3> QED
      BY <1>0, <2>1, <2>2, <3>1, ListOfIs DEF Typed, ParentSeen
  <2>3. CASE pc' \in {"plan", "UNSUPPORTED_TARGET"} /\ UNCHANGED <<listed, seen>>
    BY <1>0, <2>1, <2>3 DEF Typed, ParentSeen
  <2>4. ASSUME pc' = "plan", UNCHANGED listed,
               NEW w \in [Names -> WalkEntry], seen' = [seen EXCEPT !.walked = w],
               \A n \in Names : w[n].kind # "absent" => Dir[n] = Root
        PROVE  Typed' /\ ParentSeen'
    <3>1. seen' \in Inspection /\ seen'.walked = w
      BY <1>0, <2>4 DEF Typed, Inspection
    <3> QED
      BY <1>0, <2>1, <2>4, <3>1 DEF Typed, ParentSeen
  <2> QED
    BY <1>2, <2>1, <2>2, <2>3, <2>4, ListIs
<1>3. CASE Visit
  <2>1. pc = "walk" /\ UNCHANGED <<job, target, plan>>
    BY <1>3, VisitIs
  <2>2. CASE pc' = "UNSUPPORTED_TARGET" /\ UNCHANGED <<listed, seen>>
    BY <1>0, <2>1, <2>2 DEF Typed, ParentSeen
  <2>a. ASSUME NEW n \in Names, NEW s \in {"entered", "hash"}, pc' = "walk", listed[n] # "",
               seen' = seen, listed' = [listed EXCEPT ![n] = s]
        PROVE  Typed' /\ ParentSeen'
    <3>1. listed' \in [Names -> Listing] /\ \A m \in Names : listed'[m] # "" => listed[m] # ""
      BY <1>0, <2>a DEF Typed, Listing
    <3> QED
      BY <1>0, <2>1, <2>a, <3>1 DEF Typed, ParentSeen
  <2>3. ASSUME NEW n \in Names, NEW e \in WalkEntry,
               pc' = "walk", listed[n] # "", e.kind # "absent",
               seen' = [seen EXCEPT !.walked[n] = e],
               listed' \in [Names -> Listing], listed'[n] = "",
               \A m \in Names \ {n} :
                   listed'[m] = listed[m] \/ (Dir[m] = n /\ listed'[m] = ListOf(n)[m])
        PROVE  Typed' /\ ParentSeen'
    <3>1. /\ seen' \in Inspection /\ seen'.walked[n] = e
          /\ \A m \in Names \ {n} : seen'.walked[m] = seen.walked[m]
      BY <1>0, <2>3 DEF Typed, Inspection
    <3>2. seen.walked[n].kind = "absent"
      BY <1>0, <2>3 DEF Typed
    <3>3. n # Root
      BY NamesAssumption
    <3>4. ASSUME NEW m \in Names, listed'[m] # "" PROVE seen'.walked[m].kind = "absent"
      <4>1. m # n
        BY <2>3, <3>4
      <4>2. CASE listed[m] # ""
        BY <1>0, <3>1, <4>1, <4>2 DEF Typed
      <4>3. CASE Dir[m] = n
        BY <3>1, <3>2, <3>3, <4>1, <4>3 DEF ParentSeen
      <4> QED
        BY <2>3, <3>4, <4>1, <4>2, <4>3
    <3>5. ParentSeen'
      <4> SUFFICES ASSUME NEW m \in Names, Dir[m] # Root,
                          listed'[m] # "" \/ seen'.walked[m].kind # "absent"
                   PROVE  seen'.walked[Dir[m]].kind # "absent"
        BY <2>3 DEF ParentSeen
      <4>1. CASE Dir[m] = n
        BY <2>3, <3>1, <4>1
      <4>2. CASE Dir[m] # n
        <5>1. listed[m] # "" \/ seen.walked[m].kind # "absent"
          BY <2>3, <3>1, <4>2
        <5>2. seen.walked[Dir[m]].kind # "absent"
          BY <5>1 DEF ParentSeen
        <5> QED
          BY <1>0, <3>1, <4>2, <5>2
      <4> QED
        BY <4>1, <4>2
    <3>6. Typed'
      BY <1>0, <2>1, <2>3, <3>1, <3>4 DEF Typed
    <3> QED
      BY <3>5, <3>6
  <2> QED
    BY <1>3, <2>2, <2>a, <2>3, VisitIs
<1>4. CASE EndWalk
  BY <1>0, <1>4, <1>a DEF EndWalk, Goto, Typed, ParentSeen
<1>5. CASE ReadManifest
  <2>1. PICK m \in DOMAIN Says \union {None} : seen' = [seen EXCEPT !.manifest = m]
    <3>1. seen = [seen EXCEPT !.manifest = seen.manifest]
          /\ seen.manifest \in DOMAIN Says \union {None}
      BY <1>0 DEF Typed, Inspection
    <3>2. seen' = seen \/ \E m \in DOMAIN Says : seen' = [seen EXCEPT !.manifest = m]
      BY <1>5 DEF ReadManifest, Accepted
    <3> QED
      BY <3>1, <3>2
  <2>2. seen' \in Inspection /\ seen'.walked = seen.walked
    BY <1>0, <2>1 DEF Typed, Inspection
  <2>3. pc = "manifest" /\ pc' = "top" /\ UNCHANGED <<listed, plan>>
    BY <1>5 DEF ReadManifest, Goto
  <2> QED
    BY <1>0, <2>2, <2>3 DEF Typed, ParentSeen
<1>6. CASE GitRead
  <2>1. PICK g \in GitSeen : seen' = [seen EXCEPT !.git = g]
    BY <1>6, GitReadIs
  <2>2. seen' \in Inspection /\ seen'.walked = seen.walked
    BY <1>0, <2>1 DEF Typed, Inspection
  <2>3. /\ pc \in GitLabels /\ pc' \in GitLabels \union {"plan", "reread"}
        /\ UNCHANGED <<listed, plan>>
    BY <1>6, GitReadIs DEF Inspected
  <2> QED
    BY <1>0, <2>2, <2>3 DEF Typed, ParentSeen, GitLabels
<1>7. CASE ReadProject
  <2>1. PICK m \in DOMAIN Says \union {None} : seen' = [seen EXCEPT !.raw = m]
    <3>1. seen = [seen EXCEPT !.raw = seen.raw] /\ seen.raw \in DOMAIN Says \union {None}
      BY <1>0 DEF Typed, Inspection
    <3>2. seen' = seen \/ \E m \in DOMAIN Says : seen' = [seen EXCEPT !.raw = m]
      BY <1>7 DEF ReadProject, Fail
    <3> QED
      BY <3>1, <3>2
  <2>2. seen' \in Inspection /\ seen'.walked = seen.walked
    BY <1>0, <2>1 DEF Typed, Inspection
  <2>3. pc = "reread" /\ pc' \in {"base", "VERSION_MISMATCH", "UNSUPPORTED_TARGET"}
        /\ UNCHANGED <<listed, plan>>
    BY <1>7 DEF ReadProject, Goto, Fail
  <2> QED
    BY <1>0, <2>2, <2>3 DEF Typed, ParentSeen
<1>8. CASE Plan
  BY <1>0, <1>8 DEF Plan, Goto, Fail, Typed, ParentSeen
<1>9. CASE Review
  BY <1>0, <1>9 DEF Review, Goto, Typed, ParentSeen
<1>10. CASE User \/ UNCHANGED vars
  BY <1>0, <1>10, UserOrCommand DEF Typed, ParentSeen, vars
<1> QED
  BY Steps, <1>1, <1>2, <1>3, <1>4, <1>5, <1>6, <1>7, <1>8, <1>9, <1>10

-----------------------------------------------------------------------------
(* The inductive invariant *)

\* Which commands get where.
LabelInv ==
    /\ pc \in {"walk", "manifest"} \union GitLabels => job.goal # "create"
    /\ pc \in {"reread", "base"} => job.goal = "task"
    /\ pc = "plan" => job.goal # "task"

\* What CREATE goes on with.
CreateInv ==
    pc \in {"plan", "OK"} /\ job.goal = "create" =>
        \A n \in Names : seen.walked[n].kind # "absent" => n \in Harmless /\ Dir[n] = Root

\* The Git facts that the fingerprint leaves out.
GitInv ==
    pc \in (GitLabels \ {"top"}) \union {"plan", "reread", "base", "OK"} /\ job.goal # "create" =>
        /\ seen.git.file = (EntryOf(".git").kind = "REGULAR")
        /\ seen.git.status = "OK" => seen.git.detected /\ seen.git.cli /\ seen.git.match

\* The project a task is of.
ProjectInv ==
    pc \in {"base", "OK"} /\ job.goal = "task" =>
        seen.raw \in DOMAIN Says /\ Says[seen.raw].taskPath \in Tasks

\* What is answered is of what was seen.
PlanInv ==
    pc = "OK" =>
        /\ job.goal # "task" =>
              plan = [fingerprint |-> Fingerprint(seen.walked, seen.git),
                      setup |-> IF job.goal = "create" THEN BuildCreate ELSE BuildAdopt]
        /\ job.goal = "task" => \E base \in BOOLEAN : plan = ReviewWith(base)

ReviewInv ==
    TypeOK /\ ParentSeen /\ LabelInv /\ CreateInv /\ GitInv /\ ProjectInv /\ PlanInv

LEMMA SameAnswer ==
    ASSUME seen' = seen, job' = job
    PROVE  /\ BuildCreate' = BuildCreate /\ BuildAdopt' = BuildAdopt
           /\ \A base \in BOOLEAN : ReviewWith(base)' = ReviewWith(base)
           /\ \A p : EntryOf(p)' = EntryOf(p)
<1>1. \A p : EntryOf(p)' = EntryOf(p)
  BY DEF EntryOf
<1>2. EntryOf(".git")' = EntryOf(".git") /\ Rendered' = Rendered /\ TaskGit' = TaskGit
  BY <1>1 DEF Rendered, TaskGit
<1>3. \A p : Free(p)' = Free(p) /\ Guidance(p)' = Guidance(p)
  BY <1>1 DEF Free, Guidance, ParentConflict
<1>4. BuildCreate' = BuildCreate
  BY DEF BuildCreate, Rendered
<1>5. BuildAdopt' = BuildAdopt
  BY <1>2, <1>3 DEF BuildAdopt
<1>6. ASSUME NEW base \in BOOLEAN PROVE ReviewWith(base)' = ReviewWith(base)
  <2>1. Gaps' = Gaps
    BY DEF Gaps
  <2>2. Blockers(TaskGit, base)' = Blockers(TaskGit, base)
    <3> DEFINE protected == TaskGit.branch # Detached /\ Protected(TaskGit.branch, job, seen.raw)
               taken     == \E p \in Tasks \union {Says[seen.raw].taskPath} :
                               EntryOf(p).kind # "absent"
    <3>1. protected' <=> protected
      BY <1>2 DEF Protected
    <3>2. taken' <=> taken
      BY <1>1
    <3>3. TaskGit' = TaskGit /\ job' = job
      BY <1>2
    <3>4. Blockers(TaskGit, base) =
            {x \in {"ORDINARY_GIT_REPOSITORY_REQUIRED"} : ~Ordinary(TaskGit)}
            \union {x \in {"BORN_BRANCH_REQUIRED"} : TaskGit.head = 0}
            \union {x \in {"ATTACHED_BRANCH_REQUIRED"} : TaskGit.branch = Detached}
            \union {x \in {"GIT_OPERATION_IN_PROGRESS"} : TaskGit.operation # ""}
            \union {x \in {"WORK_BRANCH_MISMATCH"} : TaskGit.branch # job.work}
            \union {x \in {"INTEGRATION_BRANCH"} : protected}
            \union {x \in {"EXISTING_TASK_CONFLICT"} : taken}
            \union {x \in {"LOCAL_BASE_BRANCH_REQUIRED"} : ~base}
      BY Zenon DEF Blockers
    <3>5. Blockers(TaskGit, base)' =
            {x \in {"ORDINARY_GIT_REPOSITORY_REQUIRED"} : ~Ordinary(TaskGit')}
            \union {x \in {"BORN_BRANCH_REQUIRED"} : TaskGit'.head = 0}
            \union {x \in {"ATTACHED_BRANCH_REQUIRED"} : TaskGit'.branch = Detached}
            \union {x \in {"GIT_OPERATION_IN_PROGRESS"} : TaskGit'.operation # ""}
            \union {x \in {"WORK_BRANCH_MISMATCH"} : TaskGit'.branch # job'.work}
            \union {x \in {"INTEGRATION_BRANCH"} : protected'}
            \union {x \in {"EXISTING_TASK_CONFLICT"} : taken'}
            \union {x \in {"LOCAL_BASE_BRANCH_REQUIRED"} : ~base}
      BY Zenon, <3>4 DEF Blockers
    <3> HIDE DEF protected, taken
    <3> QED
      BY <3>1, <3>2, <3>3, <3>4, <3>5 DEF Ordinary
  <2> QED
    BY <2>1, <2>2 DEF ReviewWith
<1> QED
  BY <1>1, <1>4, <1>5, <1>6

LEMMA LabelStep == ReviewInv /\ [Next]_vars => LabelInv'
<1> SUFFICES ASSUME ReviewInv, [Next]_vars PROVE LabelInv'
  OBVIOUS
<1>0. TypeOK /\ LabelInv
  BY DEF ReviewInv
<1>1. CASE List
  BY <1>0, <1>1, ListIs DEF List, LabelInv, GitLabels
<1>2. CASE Visit
  <2>1. pc = "walk" /\ pc' \in {"walk", "UNSUPPORTED_TARGET"} /\ UNCHANGED job
    BY <1>0, <1>2, VisitIs
  <2> QED
    BY <1>0, <2>1 DEF LabelInv, GitLabels
<1>3. CASE GitRead
  BY <1>0, <1>3, GitReadIs DEF LabelInv, GitLabels, Inspected
<1>4. CASE User \/ UNCHANGED vars
  BY <1>0, <1>4, UserOrCommand DEF LabelInv, vars
<1>5. CASE EndWalk \/ ReadManifest
  <2>1. /\ pc \in {"walk", "manifest"} /\ pc' \in {"manifest", "top"} /\ UNCHANGED job
    BY <1>5 DEF EndWalk, ReadManifest, Goto
  <2> QED
    BY <1>0, <2>1 DEF LabelInv, GitLabels
<1>6. CASE ReadProject
  <2>1. pc = "reread" /\ pc' \in {"base"} \union Answers /\ UNCHANGED job
    BY <1>6 DEF ReadProject, Goto, Fail, Answers
  <2> QED
    BY <1>0, <2>1 DEF LabelInv, GitLabels, Answers
<1>7. CASE Begin \/ Plan \/ Review
  <2>1. pc' \in {"list"} \union Answers
    BY <1>7 DEF Begin, Plan, Review, Goto, Fail, Answers
  <2> QED
    BY <2>1 DEF LabelInv, GitLabels, Answers
<1> QED
  BY Steps, <1>1, <1>2, <1>3, <1>4, <1>5, <1>6, <1>7

LEMMA CreateStep == ReviewInv /\ [Next]_vars => CreateInv'
<1> SUFFICES ASSUME ReviewInv, [Next]_vars PROVE CreateInv'
  OBVIOUS
<1>0. TypeOK /\ LabelInv /\ CreateInv /\ seen \in Inspection
  BY TypeParts DEF ReviewInv, Typed
<1>1. CASE List
  <2>1. CASE pc' # "plan"
    BY <1>0, <1>1, <2>1, ListIs DEF CreateInv
  <2>2. CASE pc' = "plan"
    <3>1. PICK w \in [Names -> WalkEntry] :
             /\ seen' = [seen EXCEPT !.walked = w]
             /\ \A n \in Names : w[n].kind # "absent" => n \in Harmless /\ Dir[n] = Root
      BY <1>0, <1>1, <2>2, ListIs
    <3>2. seen'.walked = w
      BY <1>0, <3>1 DEF Inspection
    <3> QED
      BY <3>1, <3>2 DEF CreateInv
  <2> QED
    BY <2>1, <2>2
<1>2. CASE Visit
  BY <1>0, <1>2, VisitIs DEF CreateInv
<1>3. CASE GitRead
  BY <1>0, <1>3, GitReadIs DEF CreateInv, LabelInv
<1>4. CASE User \/ UNCHANGED vars
  BY <1>0, <1>4, UserOrCommand DEF CreateInv, vars
<1>5. CASE Begin \/ EndWalk \/ ReadManifest \/ ReadProject \/ Plan \/ Review
  BY <1>0, <1>5 DEF Begin, EndWalk, ReadManifest, ReadProject, Plan, Review, Goto, Fail,
                    CreateInv, LabelInv
<1> QED
  BY Steps, <1>1, <1>2, <1>3, <1>4, <1>5

LEMMA GitStep == ReviewInv /\ [Next]_vars => GitInv'
<1> SUFFICES ASSUME ReviewInv, [Next]_vars PROVE GitInv'
  OBVIOUS
<1> DEFINE marker == EntryOf(".git").kind = "REGULAR"
           facts(g) == /\ g.file = marker
                       /\ g.status = "OK" => g.detected /\ g.cli /\ g.match
<1>0. TypeOK /\ LabelInv /\ GitInv /\ seen \in Inspection /\ seen.git \in GitSeen
  BY TypeParts DEF ReviewInv, Typed, Inspection
<1>1. ASSUME GitRead PROVE GitInv'
  <2>1. ASSUME NEW g \in GitSeen, seen' = [seen EXCEPT !.git = g], facts(g) PROVE GitInv'
    <3>1. seen'.git = g /\ seen'.walked = seen.walked
      BY <1>0, <2>1 DEF Inspection
    <3>2. marker' = marker
      BY <3>1 DEF EntryOf
    <3> QED
      BY <2>1, <3>1, <3>2 DEF GitInv
  <2>2. CASE ReadTop
    <3> DEFINE there == EntryOf(".git").kind # "absent"
               base == [NoGit EXCEPT !.detected = there, !.file = marker]
    <3>1. \/ seen' = [seen EXCEPT !.git = [base EXCEPT !.detected = TRUE, !.match = TRUE,
                                                       !.status = "OK"]]
          \/ seen' = [seen EXCEPT !.git = [base EXCEPT !.detected = TRUE,
                                                       !.status = "NESTED_DIRECTORY"]]
          \/ seen' = [seen EXCEPT !.git = [base EXCEPT !.status =
                         IF there THEN "INVALID_REPOSITORY" ELSE "NOT_GIT"]]
          \/ seen' = [seen EXCEPT !.git = [base EXCEPT !.cli = FALSE, !.status =
                         IF there THEN "CLI_UNAVAILABLE" ELSE "NOT_GIT"]]
      BY <2>2 DEF ReadTop
    <3>2. /\ base \in GitSeen /\ base.file = marker /\ base.cli = TRUE
      BY DEF NoGit, GitSeen, Detached
    <3> HIDE DEF base, marker, there
    <3>3. ASSUME NEW g, \/ g = [base EXCEPT !.detected = TRUE, !.match = TRUE, !.status = "OK"]
                        \/ g = [base EXCEPT !.detected = TRUE, !.status = "NESTED_DIRECTORY"]
                        \/ g = [base EXCEPT !.status = IF there THEN "INVALID_REPOSITORY"
                                                      ELSE "NOT_GIT"]
                        \/ g = [base EXCEPT !.cli = FALSE, !.status =
                                      IF there THEN "CLI_UNAVAILABLE" ELSE "NOT_GIT"]
          PROVE  g \in GitSeen /\ facts(g)
      BY <3>2, <3>3 DEF GitSeen
    <3> QED
      BY <2>1, <3>1, <3>3
  <2>3. CASE ReadBranch \/ ReadHead \/ ReadStatus \/ ReadHeads \/ ReadDirs
    <3>0. facts(seen.git)
      <4>1. pc \in {"branch", "head", "status", "heads", "dirs"}
        BY <2>3 DEF ReadBranch, ReadHead, ReadStatus, ReadHeads, ReadDirs
      <4> QED
        BY <1>0, <4>1 DEF GitInv, LabelInv, GitLabels
    <3>1. git.branch \in Branches \union {Detached} /\ git.head \in Nat
      BY TypeParts, <1>0 DEF GitState
    <3>2. \/ seen' = [seen EXCEPT !.git = seen.git]
          \/ seen' = [seen EXCEPT !.git = [seen.git EXCEPT !.branch = git.branch]]
          \/ seen' = [seen EXCEPT !.git = [seen.git EXCEPT !.head = git.head]]
          \/ seen' = [seen EXCEPT !.git = [seen.git EXCEPT !.operation = "MERGE"]]
          \/ seen' = [seen EXCEPT !.git = [seen.git EXCEPT !.operation = "REBASE"]]
          \/ seen' = [seen EXCEPT !.git = [seen.git EXCEPT !.status = "STATUS_UNAVAILABLE"]]
      <4>1. seen = [seen EXCEPT !.git = seen.git]
        BY <1>0 DEF Inspection
      <4> QED
        BY <2>3, <4>1 DEF ReadBranch, ReadHead, ReadStatus, ReadHeads, ReadDirs, Saw
    <3> DEFINE g0 == seen.git
    <3>3. g0 \in GitSeen /\ facts(g0)
      BY <1>0, <3>0
    <3> HIDE DEF marker, g0
    <3>4. ASSUME NEW g, \/ g = g0
                        \/ g = [g0 EXCEPT !.branch = git.branch]
                        \/ g = [g0 EXCEPT !.head = git.head]
                        \/ g = [g0 EXCEPT !.operation = "MERGE"]
                        \/ g = [g0 EXCEPT !.operation = "REBASE"]
                        \/ g = [g0 EXCEPT !.status = "STATUS_UNAVAILABLE"]
          PROVE  g \in GitSeen /\ facts(g)
      BY <3>1, <3>3, <3>4 DEF GitSeen
    <3> QED
      BY <2>1, <3>2, <3>4 DEF g0
  <2> QED
    BY <1>1, <2>2, <2>3 DEF GitRead
<1>2. ASSUME job.goal # "create", UNCHANGED job, pc' = "base", pc = "reread",
             seen'.walked = seen.walked, seen'.git = seen.git
      PROVE  GitInv'
  <2>1. marker' = marker
    BY <1>2 DEF EntryOf
  <2> QED
    BY <1>0, <1>2, <2>1 DEF GitInv
<1>3. CASE ReadProject
  <2>1. CASE pc' = "base"
    <3>1. (\E m \in DOMAIN Says : seen' = [seen EXCEPT !.raw = m]) /\ pc = "reread"
          /\ job' = job
      BY <1>3, <2>1 DEF ReadProject, Goto, Fail
    <3>2. seen'.walked = seen.walked /\ seen'.git = seen.git
      BY <1>0, <3>1 DEF Inspection
    <3> QED
      BY <1>0, <1>2, <2>1, <3>1, <3>2 DEF LabelInv
  <2>2. CASE pc' # "base"
    BY <1>3, <2>2 DEF ReadProject, Goto, Fail, GitInv, GitLabels
  <2> QED
    BY <2>1, <2>2
<1>4. CASE Plan \/ Review \/ User \/ UNCHANGED vars
  <2>1. job' = job /\ (seen' = seen) /\ (pc' = pc \/ pc' = "UNSUPPORTED_TARGET"
                                       \/ (pc' = "OK" /\ pc \in {"plan", "base"}))
    BY <1>0, <1>4, UserOrCommand DEF Plan, Review, Goto, Fail, vars
  <2>2. marker' = marker
    BY <2>1 DEF EntryOf
  <2> QED
    BY <1>0, <2>1, <2>2 DEF GitInv, GitLabels
<1>5. CASE List
  BY <1>0, <1>5, ListIs, UserOrCommand DEF List, GitInv, GitLabels
<1>6. CASE Visit
  BY <1>0, <1>6, VisitIs DEF GitInv, GitLabels
<1>7. CASE Begin \/ EndWalk \/ ReadManifest
  BY <1>7 DEF Begin, EndWalk, ReadManifest, Goto, GitInv, GitLabels
<1> QED
  BY Steps, <1>1, <1>3, <1>4, <1>5, <1>6, <1>7

LEMMA ProjectStep == ReviewInv /\ [Next]_vars => ProjectInv'
<1> SUFFICES ASSUME ReviewInv, [Next]_vars PROVE ProjectInv'
  OBVIOUS
<1>0. TypeOK /\ LabelInv /\ ProjectInv /\ seen \in Inspection
  BY TypeParts DEF ReviewInv, Typed
<1>1. CASE ReadProject
  <2>1. CASE pc' = "base"
    <3>1. PICK m \in DOMAIN Says : seen' = [seen EXCEPT !.raw = m] /\ Says[m].taskPath \in Tasks
      BY <1>1, <2>1 DEF ReadProject, Goto, Fail
    <3>2. seen'.raw = m
      BY <1>0, <3>1 DEF Inspection
    <3> QED
      BY <3>1, <3>2 DEF ProjectInv
  <2>2. CASE pc' # "base"
    BY <1>1, <2>2 DEF ReadProject, Goto, Fail, ProjectInv
  <2> QED
    BY <2>1, <2>2
<1>2. CASE Plan \/ Review \/ User \/ UNCHANGED vars
  BY <1>0, <1>2, UserOrCommand DEF Plan, Review, Goto, Fail, vars, ProjectInv, LabelInv
<1>3. CASE List
  BY <1>0, <1>3, ListIs DEF ProjectInv
<1>4. CASE Visit
  BY <1>0, <1>4, VisitIs DEF ProjectInv
<1>5. CASE GitRead
  BY <1>0, <1>5, GitReadIs DEF ProjectInv, GitLabels, Inspected
<1>6. CASE Begin \/ EndWalk \/ ReadManifest
  BY <1>6 DEF Begin, EndWalk, ReadManifest, Goto, ProjectInv
<1> QED
  BY Steps, <1>1, <1>2, <1>3, <1>4, <1>5, <1>6

LEMMA PlanStep == ReviewInv /\ [Next]_vars => PlanInv'
<1> SUFFICES ASSUME ReviewInv, [Next]_vars PROVE PlanInv'
  OBVIOUS
<1>0. TypeOK /\ LabelInv /\ PlanInv
  BY DEF ReviewInv
<1>1. CASE Plan
  <2>1. seen' = seen /\ job' = job /\ job.goal # "task"
    BY <1>0, <1>1 DEF Plan, Goto, Fail, LabelInv
  <2>2. Fingerprint(seen.walked, seen.git)' = Fingerprint(seen.walked, seen.git)
    BY <2>1
  <2>3. pc' = "OK" =>
           plan' = [fingerprint |-> Fingerprint(seen.walked, seen.git),
                    setup |-> IF job.goal = "create" THEN BuildCreate ELSE BuildAdopt]
    BY <1>1 DEF Plan, Goto, Fail
  <2> QED
    BY <2>1, <2>2, <2>3, SameAnswer DEF PlanInv
<1>2. CASE Review
  <2>1. seen' = seen /\ job' = job /\ job.goal = "task"
    BY <1>0, <1>2 DEF Review, LabelInv
  <2>2. \E base \in BOOLEAN : plan' = ReviewWith(base)
    BY <1>2 DEF Review
  <2> QED
    BY <2>1, <2>2, SameAnswer DEF PlanInv
<1>3. CASE User \/ UNCHANGED vars
  <2>1. seen' = seen /\ job' = job /\ pc' = pc /\ plan' = plan
    BY <1>0, <1>3, UserOrCommand DEF vars
  <2>2. Fingerprint(seen.walked, seen.git)' = Fingerprint(seen.walked, seen.git)
    BY <2>1
  <2> QED
    BY <1>0, <2>1, <2>2, SameAnswer DEF PlanInv
<1>4. CASE List
  BY <1>0, <1>4, ListIs DEF PlanInv
<1>5. CASE Visit
  BY <1>0, <1>5, VisitIs DEF PlanInv
<1>6. CASE GitRead
  BY <1>0, <1>6, GitReadIs DEF PlanInv, GitLabels, Inspected
<1>7. CASE Begin \/ EndWalk \/ ReadManifest \/ ReadProject
  BY <1>7 DEF Begin, EndWalk, ReadManifest, ReadProject, Goto, Fail, PlanInv
<1> QED
  BY Steps, <1>1, <1>2, <1>3, <1>4, <1>5, <1>6, <1>7

\* What an inspection has seen is typed, in order and of the command it is for, and
\* the answer is of it.
THEOREM ReviewInductive == Spec => []ReviewInv
<1>1. Init => ReviewInv
  <2> SUFFICES ASSUME Init PROVE ReviewInv
    OBVIOUS
  <2>1. TypeOK /\ ParentSeen
    <3>1. Unlisted \in [Names -> Listing] /\ \A n \in Names : Unlisted[n] = ""
      BY DEF Unlisted, Listing
    <3>2. NoGit \in GitSeen /\ "" \in Contents
      BY WorldsAssumption DEF NoGit, GitSeen, Detached
    <3>3. Blank \in Inspection /\ \A n \in Names : Blank.walked[n].kind = "absent"
      BY <3>2 DEF Blank, Inspection, WalkEntry, SeenKind, Kind, Empty
    <3>4. Typed /\ ParentSeen
      BY <3>1, <3>3 DEF Init, Typed, ParentSeen, Labels
    <3>5. job \in Job /\ IsTree(tree) /\ git \in GitState
          /\ edits \in 0..MaxEdits /\ faults \in 0..MaxFaults
      <4>1. job \in Jobs /\ edits = 0 /\ faults = 0
            /\ \E w \in Worlds : tree = w.tree /\ git = w.git
        BY DEF Init
      <4>2. IsTree(tree) /\ git \in GitState
        BY <4>1, WorldsAssumption
      <4> QED
        <5>1. job \in Job
          BY <4>1, WorldsAssumption
        <5>2. edits \in 0..MaxEdits /\ faults \in 0..MaxFaults
          BY <4>1, BoundsAssumption
        <5> QED
          BY <4>2, <5>1, <5>2
    <3> QED
      BY <3>4, <3>5, TypeParts
  <2> QED
    BY <2>1 DEF Init, ReviewInv, LabelInv, CreateInv, GitInv, ProjectInv, PlanInv, GitLabels
<1>2. ReviewInv /\ [Next]_vars => ReviewInv'
  BY TypeStep, LabelStep, CreateStep, GitStep, ProjectStep, PlanStep DEF ReviewInv
<1> QED
  BY <1>1, <1>2, PTL DEF Spec

-----------------------------------------------------------------------------
(* Plans *)

\* Every name, and every known path but the manifest itself, is in a directory
\* whose names are in no other's.
LEMMA ParentReached ==
    ASSUME IsTree(tree), NEW n \in Names, tree[n].kind # "absent", Dir[n] # Root
    PROVE  /\ Dir[n] \in Names /\ Dir[Dir[n]] = Root
           /\ tree[Dir[n]].kind \in {"DIRECTORY", "NESTED"} /\ Reached(Dir[n])
<1>1. Dir[n] \in Names /\ Dir[Dir[n]] = Root
  BY TreeAssumption
<1>2. tree[Dir[n]].kind \in {"DIRECTORY", "NESTED"}
  BY DEF IsTree
<1> QED
  BY <1>1, <1>2 DEF Reached

\* What a fitting CREATE plan found is what is there, all of it harmless.
LEMMA CreateIsFree ==
    ASSUME ReviewInv, pc = "OK", job.goal = "create",
           \A n \in Names : Reached(n) => seen.walked[n].kind # "absent",
           NEW p \in Known, NEW n \in Names, tree[n].kind # "absent"
    PROVE  Fold[n] # Fold[p] /\ (Dir[p] # Root => Fold[n] # Fold[Dir[p]])
<1>1. IsTree(tree)
  BY TypeParts DEF ReviewInv
<1>2. \A m \in Names : Reached(m) => m \in Harmless
  BY DEF ReviewInv, CreateInv
<1>3. CASE Dir[n] = Root
  <2>1. n \in Harmless
    BY <1>2, <1>3 DEF Reached
  <2> QED
    BY <2>1, FoldAssumption
<1>4. CASE Dir[n] # Root
  <2>1. Dir[n] \in Harmless \intersect Names
    BY <1>1, <1>2, <1>4, ParentReached
  <2>2. Fold[n] # Fold[p]
    <3> SUFFICES ASSUME Fold[n] = Fold[p] PROVE FALSE
      OBVIOUS
    <3>1. Dir[p] # Root /\ Fold[Dir[n]] = Fold[Dir[p]]
      BY <1>4, FoldAssumption
    <3> QED
      BY <2>1, <3>1, FoldAssumption
  <2>3. ASSUME Dir[p] # Root PROVE Fold[n] # Fold[Dir[p]]
    <3>1. Dir[p] \in Names /\ Dir[Dir[p]] = Root
      BY <2>3, TreeAssumption
    <3> QED
      BY <1>4, <3>1, FoldAssumption
  <2> QED
    BY <2>2, <2>3
<1> QED
  BY <1>3, <1>4

\* What a fitting ADOPT plan creates is free, its directory too.
LEMMA AdoptIsFree ==
    ASSUME ReviewInv, job.goal # "create",
           \A n \in Names : Reached(n) => /\ seen.walked[n].kind # "absent"
                                         /\ seen.walked[n] = NowEntry(n),
           NEW p \in Known, Free(p), NEW n \in Names, tree[n].kind # "absent"
    PROVE  /\ Fold[n] # Fold[p]
           /\ Dir[p] # Root /\ Fold[n] = Fold[Dir[p]] => tree[n].kind = "DIRECTORY"
<1>1. IsTree(tree)
  BY TypeParts DEF ReviewInv
<1>2. ASSUME NEW m \in Names, Reached(m) PROVE Fold[m] # Fold[p]
  <2> DEFINE e == EntryOf(p)
  <2>1. Guidance(p) = "MISSING"
    BY DEF Free
  <2>2. e.kind = "absent"
    BY <2>1 DEF Guidance
  <2> QED
    BY <1>2, <2>2, EntryOfKey DEF EntryOf
<1>3. ASSUME NEW m \in Names, Reached(m), Dir[p] # Root, Fold[m] = Fold[Dir[p]]
      PROVE  tree[m].kind = "DIRECTORY" /\ m # ".git"
  <2> DEFINE e == EntryOf(Dir[p])
  <2>1. e.kind \in {"absent", "DIRECTORY"}
    BY <1>3 DEF Free, ParentConflict
  <2>2. seen.walked[m].kind # "absent"
    BY <1>3
  <2>3. e.kind = seen.walked[m].kind
    BY <1>3, <2>1, <2>2, EntryOfKey DEF EntryOf
  <2>4. NowEntry(m).kind = "DIRECTORY"
    BY <1>3, <2>1, <2>2, <2>3
  <2>5. tree[m].kind = "DIRECTORY"
    BY <1>1, <1>3, <2>4, NowIsTyped
  <2>6. m # ".git"
    BY <1>1, <1>3, <2>4, <2>5, NowIsTyped
  <2> QED
    BY <2>5, <2>6
<1>4. Fold[n] # Fold[p]
  <2> SUFFICES ASSUME Fold[n] = Fold[p] PROVE FALSE
    OBVIOUS
  <2>1. ~Reached(n)
    BY <1>2
  <2>2. Dir[n] # Root
    BY <2>1 DEF Reached
  <2>3. Dir[p] # Root /\ Fold[Dir[n]] = Fold[Dir[p]]
    BY <2>2, FoldAssumption
  <2>4. Dir[n] \in Names /\ Reached(Dir[n])
    BY <1>1, <2>2, ParentReached
  <2>5. tree[Dir[n]].kind = "DIRECTORY" /\ Dir[n] # ".git"
    BY <1>3, <2>3, <2>4
  <2> QED
    BY <2>1, <2>5 DEF Reached
<1>5. ASSUME Dir[p] # Root, Fold[n] = Fold[Dir[p]] PROVE tree[n].kind = "DIRECTORY"
  <2>1. Dir[p] \in Names /\ Dir[Dir[p]] = Root
    BY <1>5, TreeAssumption
  <2>2. Dir[n] = Root
    BY <1>5, <2>1, FoldAssumption
  <2> QED
    BY <1>3, <1>5, <2>2 DEF Reached
<1> QED
  BY <1>4, <1>5

\* What a fitting fingerprint says of the target.
LEMMA SeenIsNow ==
    ASSUME IsTree(tree), Fingerprint(seen.walked, seen.git) = Fingerprint(NowWalked, NowGit)
    PROVE  /\ \A n \in Names : Reached(n) \/ seen.walked[n].kind # "absent" =>
                  /\ Reached(n) /\ seen.walked[n].kind # "absent"
                  /\ seen.walked[n] = NowEntry(n)
           /\ seen.git.status = NowGit.status /\ seen.git.branch = NowGit.branch
           /\ seen.git.head = NowGit.head /\ seen.git.operation = NowGit.operation
<1> DEFINE w   == seen.walked
           g   == seen.git
           now == NowWalked
           h   == NowGit
<1>1. Fingerprint(w, g) = Fingerprint(now, h)
  OBVIOUS
<1> HIDE DEF w, g, now, h
<1>3. /\ \A n \in Names : w[n].kind # "absent" \/ now[n].kind # "absent" => w[n] = now[n]
      /\ g.status = h.status /\ g.branch = h.branch /\ g.head = h.head
      /\ g.operation = h.operation
  BY <1>1, FingerprintFits
<1>4. ASSUME NEW n \in Names, Reached(n) \/ w[n].kind # "absent"
      PROVE  Reached(n) /\ w[n].kind # "absent" /\ w[n] = NowEntry(n)
  <2> DEFINE e == NowEntry(n)
             r == Reached(n)
  <2>1. now[n] = e /\ (r => e.kind # "absent") /\ (e.kind # "absent" => r)
    BY NowIsTyped DEF now
  <2>2. r \/ w[n].kind # "absent"
    BY <1>4
  <2> HIDE DEF e, r
  <2>3. w[n].kind # "absent" \/ now[n].kind # "absent" => w[n] = now[n]
    BY <1>3
  <2>4. r /\ w[n].kind # "absent" /\ w[n] = e
    BY <2>1, <2>2, <2>3
  <2> QED
    BY <2>4 DEF e, r
<1> QED
  BY <1>3, <1>4 DEF w, g, h

LEMMA FittingFree == ReviewInv => FittingPlanIsFree
<1> SUFFICES ASSUME ReviewInv, pc = "OK", job.goal # "task",
                    plan.fingerprint = Fingerprint(NowWalked, NowGit)
             PROVE  /\ \A p \in plan.setup.operations, n \in Names :
                          tree[n].kind # "absent" =>
                              /\ Fold[n] # Fold[p]
                              /\ Dir[p] # Root /\ Fold[n] = Fold[Dir[p]]
                                    => tree[n].kind = "DIRECTORY"
                    /\ Manifest \in plan.setup.operations =>
                          plan.setup.managed = plan.setup.operations \ {Manifest}
  BY DEF FittingPlanIsFree
<1> DEFINE wanted == Rendered \union {Manifest}
<1>1. IsTree(tree) /\ job \in Job
  BY TypeParts DEF ReviewInv
<1>2. plan.fingerprint = Fingerprint(seen.walked, seen.git)
  BY DEF ReviewInv, PlanInv
<1>3. \A n \in Names : Reached(n) => /\ seen.walked[n].kind # "absent"
                                    /\ seen.walked[n] = NowEntry(n)
  BY <1>1, <1>2, SeenIsNow
<1>4. Rendered \subseteq Core \union Bridges /\ wanted \subseteq Known /\ Manifest \notin Rendered
  BY <1>1, KnownKinds, NamesAssumption DEF Rendered, Job
<1>5. CASE job.goal = "create"
  <2>1. plan.setup = BuildCreate
    BY <1>5 DEF ReviewInv, PlanInv
  <2>2. plan.setup.operations = wanted /\ plan.setup.managed = Rendered
    BY <2>1 DEF BuildCreate
  <2> QED
    BY <1>3, <1>4, <1>5, <2>2, CreateIsFree
<1>6. CASE job.goal # "create"
  <2>1. plan.setup = BuildAdopt
    BY <1>6 DEF ReviewInv, PlanInv
  <2>2. /\ plan.setup.operations = {p \in wanted : Free(p)}
        /\ plan.setup.managed = {p \in Rendered : Free(p)}
    BY <2>1 DEF BuildAdopt
  <2> QED
    BY <1>3, <1>4, <1>6, <2>2, AdoptIsFree
<1> QED
  BY <1>5, <1>6

-----------------------------------------------------------------------------
(* Reviews *)

LEMMA NoBlockers ==
    ASSUME NEW g, NEW base \in BOOLEAN
    PROVE  /\ Blockers(g, base) = {} <=>
                /\ Ordinary(g) /\ g.head # 0 /\ g.branch # Detached /\ g.operation = ""
                /\ g.branch = job.work
                /\ ~(g.branch # Detached /\ Protected(g.branch, job, seen.raw))
                /\ ~(\E p \in Tasks \union {Says[seen.raw].taskPath} : EntryOf(p).kind # "absent")
                /\ base
           /\ "LOCAL_BASE_BRANCH_REQUIRED" \notin Blockers(g, base) => base
<1> DEFINE ordinary  == Ordinary(g)
           protected == g.branch # Detached /\ Protected(g.branch, job, seen.raw)
           taken     == \E p \in Tasks \union {Says[seen.raw].taskPath} :
                           EntryOf(p).kind # "absent"
<1>0. ordinary \in BOOLEAN
  BY DEF Ordinary
<1>1. Blockers(g, base) =
        {x \in {"ORDINARY_GIT_REPOSITORY_REQUIRED"} : ~ordinary}
        \union {x \in {"BORN_BRANCH_REQUIRED"} : g.head = 0}
        \union {x \in {"ATTACHED_BRANCH_REQUIRED"} : g.branch = Detached}
        \union {x \in {"GIT_OPERATION_IN_PROGRESS"} : g.operation # ""}
        \union {x \in {"WORK_BRANCH_MISMATCH"} : g.branch # job.work}
        \union {x \in {"INTEGRATION_BRANCH"} : protected}
        \union {x \in {"EXISTING_TASK_CONFLICT"} : taken}
        \union {x \in {"LOCAL_BASE_BRANCH_REQUIRED"} : ~base}
  BY Zenon DEF Blockers
<1> HIDE DEF ordinary, protected, taken
<1>2. /\ Blockers(g, base) = {} <=>
            /\ ordinary /\ g.head # 0 /\ g.branch # Detached /\ g.operation = ""
            /\ g.branch = job.work /\ ~protected /\ ~taken /\ base
      /\ "LOCAL_BASE_BRANCH_REQUIRED" \notin Blockers(g, base) => base
  BY <1>0, <1>1
<1> QED
  BY <1>2 DEF ordinary, protected, taken

\* .git is what the walk found under that name, however written.
LEMMA GitMarker ==
    ASSUME TypeOK, job.goal # "create",
           NEW same \in BOOLEAN,
           same => seen.walked[".git"] = NowEntry(".git")
    PROVE  /\ EntryOf(".git").kind = "GIT_DIRECTORY" => seen.walked[".git"].kind = "GIT_DIRECTORY"
           /\ same /\ seen.walked[".git"].kind = "GIT_DIRECTORY"
                 => tree[".git"].kind \in {"DIRECTORY", "NESTED"}
           /\ same /\ tree[".git"].kind \in {"DIRECTORY", "NESTED"}
                 => EntryOf(".git").kind = "GIT_DIRECTORY"
<1>0. ".git" \in Names /\ IsTree(tree)
  BY NamesAssumption, TypeParts
<1> DEFINE w == seen.walked
<1>1. EntryOf(".git") = Entry(w, Fold[".git"])
  BY DEF EntryOf
<1>2. ASSUME Entry(w, Fold[".git"]).kind = "GIT_DIRECTORY" PROVE w[".git"].kind = "GIT_DIRECTORY"
  <2> DEFINE e == Entry(w, Fold[".git"])
  <2>1. /\ e.name \in Names /\ Fold[e.name] = Fold[".git"] /\ e.kind = w[e.name].kind
    BY <1>2, EntryOfKey
  <2>2. e.name = ".git"
    BY <2>1, FoldAssumption
  <2> QED
    BY <1>2, <2>1, <2>2
<1>3. same /\ w[".git"].kind = "GIT_DIRECTORY" => tree[".git"].kind \in {"DIRECTORY", "NESTED"}
  BY <1>0, NowIsTyped
<1>4. ASSUME same, tree[".git"].kind \in {"DIRECTORY", "NESTED"}
      PROVE  Entry(w, Fold[".git"]).kind = "GIT_DIRECTORY"
  <2>1. Reached(".git")
    BY <1>4, TreeAssumption DEF Reached
  <2>2. w[".git"].kind = "GIT_DIRECTORY"
    BY <1>0, <1>4, <2>1, NowIsTyped
  <2>3. \A m \in Names : Fold[m] = Fold[".git"] => m = ".git"
    BY FoldAssumption
  <2> HIDE DEF w
  <2>4. Entry(w, Fold[".git"])
           = [name |-> ".git", kind |-> w[".git"].kind, data |-> w[".git"].data]
    BY <1>0, <2>2, <2>3, EntryOfOne
  <2> QED
    BY <2>2, <2>4
<1> QED
  BY <1>1, <1>2, <1>3, <1>4

LEMMA FittingRight == ReviewInv => FittingReviewIsRight
<1> SUFFICES ASSUME ReviewInv, pc = "OK", job.goal = "task",
                    plan.fingerprint
                       = <<Fingerprint(NowWalked, NowGit), tree[Manifest].data>>
             PROVE  /\ plan.disposition # "BLOCKED" => Fit /\ git.operation = "" /\ Settled
                    /\ /\ plan.disposition = "BLOCKED"
                       /\ "LOCAL_BASE_BRANCH_REQUIRED" \notin plan.blockers
                       => ~(Fit /\ git.operation = "" /\ Settled)
  BY DEF FittingReviewIsRight
<1> DEFINE marked == tree[".git"].kind \in {"DIRECTORY", "NESTED"}
           g      == TaskGit
<1>1. PICK base \in BOOLEAN : plan = ReviewWith(base)
  BY DEF ReviewInv, PlanInv
<1>2. /\ plan.fingerprint = <<Fingerprint(seen.walked, seen.git), seen.raw>>
      /\ plan.blockers = Blockers(g, base)
      /\ plan.disposition = IF Blockers(g, base) # {} \/ (job.status = "READY" /\ Gaps # {})
                               THEN "BLOCKED"
                            ELSE IF Gaps = {} THEN "READY_FOR_REVIEW" ELSE "DRAFT"
  BY <1>1 DEF ReviewWith
<1>3. plan.disposition = "BLOCKED" <=> Blockers(g, base) # {} \/ ~Settled
  BY <1>2 DEF Settled
<1>4. TypeOK /\ IsTree(tree) /\ ".git" \in Names
  BY TypeParts, NamesAssumption DEF ReviewInv
<1>5. /\ Fingerprint(seen.walked, seen.git) = Fingerprint(NowWalked, NowGit)
      /\ seen.raw = tree[Manifest].data
  BY <1>2
<1>6. /\ \A n \in Names : Reached(n) \/ seen.walked[n].kind # "absent" =>
            /\ Reached(n) /\ seen.walked[n].kind # "absent"
            /\ seen.walked[n] = NowEntry(n)
      /\ seen.git.status = NowGit.status /\ seen.git.branch = NowGit.branch
      /\ seen.git.head = NowGit.head /\ seen.git.operation = NowGit.operation
  BY <1>4, <1>5, SeenIsNow
<1>7. EntryOf(".git").kind = "GIT_DIRECTORY" <=> marked
  <2>1. CASE tree[".git"].kind # "absent"
    <3>1. Reached(".git")
      BY <2>1, TreeAssumption DEF Reached
    <3>2. seen.walked[".git"] = NowEntry(".git")
      BY <1>4, <1>6, <3>1
    <3> QED
      BY <1>4, <3>2, GitMarker
  <2>2. CASE tree[".git"].kind = "absent"
    <3>1. ~Reached(".git")
      BY <2>2 DEF Reached
    <3>2. seen.walked[".git"].kind = "absent"
      BY <1>4, <1>6, <3>1
    <3> QED
      BY <1>4, <2>2, <3>2, GitMarker
  <2> QED
    BY <2>1, <2>2
<1>8. marked => /\ NowGit.status = "OK" /\ NowGit.branch = git.branch
                /\ NowGit.head = git.head /\ NowGit.operation = git.operation
  BY DEF NowGit, NoGit, Repository
<1>9. /\ Ordinary(g) <=> marked
      /\ marked => /\ g.branch = git.branch /\ g.head = git.head
                   /\ g.operation = git.operation
  <2>1. CASE marked
    <3>1. g = seen.git /\ seen.git.status = "OK"
      BY <1>6, <1>7, <1>8, <2>1 DEF TaskGit
    <3>2. /\ seen.git.detected /\ seen.git.cli /\ seen.git.match /\ ~seen.git.file
      BY <1>7, <2>1, <3>1 DEF ReviewInv, GitInv
    <3> QED
      BY <1>6, <1>8, <2>1, <3>1, <3>2 DEF Ordinary
  <2>2. CASE ~marked
    <3>1. g = [seen.git EXCEPT !.status = "INVALID_REPOSITORY"]
      BY <1>7, <2>2 DEF TaskGit
    <3>2. seen.git \in GitSeen
      BY <1>4, TypeParts DEF Typed, Inspection
    <3>3. g.status = "INVALID_REPOSITORY"
      BY <3>1, <3>2 DEF GitSeen
    <3> QED
      BY <2>2, <3>3 DEF Ordinary
  <2> QED
    BY <2>1, <2>2
<1>10. (\E p \in Tasks \union {Says[seen.raw].taskPath} : EntryOf(p).kind # "absent") <=> TaskTaken
  <2>1. Tasks \union {Says[seen.raw].taskPath} = Tasks
    BY DEF ReviewInv, ProjectInv
  <2>2. ASSUME NEW p \in Tasks, EntryOf(p).kind # "absent" PROVE TaskTaken
    <3>1. \E n \in Names : Fold[n] = Fold[p] /\ seen.walked[n].kind # "absent"
      BY <2>2 DEF EntryOf, Entry
    <3> QED
      BY <1>6, <3>1 DEF TaskTaken
  <2>3. ASSUME NEW p \in Tasks, NEW n \in Names, Reached(n), Fold[n] = Fold[p]
        PROVE  EntryOf(p).kind # "absent"
    <3>1. seen.walked[n].kind # "absent"
      BY <1>6, <2>3
    <3> QED
      BY <2>3, <3>1, EntryOfKey DEF EntryOf
  <2> QED
    BY <2>1, <2>2, <2>3 DEF TaskTaken
<1>11. marked => (Protected(g.branch, job, seen.raw)
                     <=> \E b \in Integration : BranchKey[git.branch] = BranchKey[b])
  BY <1>5, <1>9 DEF Protected, Integration
<1>12. Blockers(g, base) = {} <=> Fit /\ git.operation = "" /\ base
  BY <1>9, <1>10, <1>11, NoBlockers DEF Fit
<1>13. "LOCAL_BASE_BRANCH_REQUIRED" \notin Blockers(g, base) => base
  BY NoBlockers
<1> QED
  BY <1>2, <1>3, <1>12, <1>13

-----------------------------------------------------------------------------
(* A target nobody works on *)

\* What is listed is there, and is what it was listed or looked at as.
ListedAs(n) ==
    \/ listed[n] \in {"DIRECTORY", "other"} /\ listed[n] = ListOf(Dir[n])[n]
    \/ listed[n] = "entered" /\ tree[n].kind = "DIRECTORY" /\ n # ".git"
    \/ listed[n] = "hash" /\ tree[n].kind = "REGULAR"
ListedNow == \A n \in Names : listed[n] # "" => Reached(n) /\ ListedAs(n)
WalkedNow ==
    \A n \in Names : seen.walked[n].kind # "absent" => seen.walked[n] = NowEntry(n)
\* What there is is found, or will be.
WalkedAll ==
    /\ pc = "walk" =>
          \A n \in Names : Reached(n) =>
              \/ seen.walked[n].kind # "absent" \/ listed[n] # ""
              \/ Dir[n] # Root /\ listed[Dir[n]] # ""
    /\ pc \in {"manifest", "reread", "base", "OK"} \union GitLabels =>
          \A n \in Names : Reached(n) => seen.walked[n].kind # "absent"
\* A Git command tells the truth or nothing.
GitNow ==
    pc \in (GitLabels \ {"top"}) \union {"reread", "base", "OK"} =>
        /\ seen.git.branch \in {"", git.branch} /\ seen.git.head \in {0, git.head}
        /\ seen.git.operation \in {"", git.operation}
        /\ faults = 0 =>
              /\ pc = "dirs" /\ git.operation = "MERGE" => seen.git.operation = "MERGE"
              /\ pc \in {"reread", "base", "OK"} /\ seen.git.status = "OK"
                    => seen.git.operation = git.operation
AnswerNow ==
    /\ pc \in {"base", "OK"} => seen.raw = tree[Manifest].data
    /\ pc = "OK" => \E base \in BOOLEAN : /\ plan = ReviewWith(base)
                                          /\ base => job.base \in git.branches

Still == ListedNow /\ WalkedNow /\ WalkedAll /\ GitNow /\ AnswerNow
StillInv == edits = 0 /\ job.goal = "task" => Still

LEMMA NowStays ==
    ASSUME UNCHANGED <<job, target>>
    PROVE  \A n \in Names : /\ Reached(n)' <=> Reached(n)
                           /\ NowEntry(n)' = NowEntry(n) /\ ListOf(Dir[n])' = ListOf(Dir[n])
<1> SUFFICES ASSUME NEW n \in Names
             PROVE  /\ Reached(n)' <=> Reached(n)
                    /\ NowEntry(n)' = NowEntry(n) /\ ListOf(Dir[n])' = ListOf(Dir[n])
  OBVIOUS
<1>1. tree' = tree /\ job' = job
  BY DEF target
<1>2. (Reached(n)' <=> Reached(n)) /\ ListOf(Dir[n])' = ListOf(Dir[n])
  BY <1>1 DEF Reached, ListOf
<1>3. NowEntry(n)' = NowEntry(n)
  BY <1>1, <1>2 DEF NowEntry
<1> QED
  BY <1>2, <1>3

\* A visit looks at what is there, or finds it and lists what can be reached
\* through it.
LEMMA VisitNow ==
    ASSUME TypeOK, Visit, ListedNow, job.goal = "task", pc' = "walk"
    PROVE  \E n \in Names :
              /\ listed[n] # "" /\ Reached(n)
              /\ \/ /\ seen' = seen
                    /\ \/ /\ listed' = [listed EXCEPT ![n] = "entered"]
                          /\ tree[n].kind = "DIRECTORY" /\ n # ".git"
                       \/ listed' = [listed EXCEPT ![n] = "hash"] /\ tree[n].kind = "REGULAR"
                 \/ /\ seen' = [seen EXCEPT !.walked[n] = NowEntry(n)]
                    /\ listed'[n] = ""
                    /\ \A m \in Names \ {n} :
                          /\ Dir[m] = n /\ Reached(m) => listed'[m] = ListOf(n)[m]
                          /\ ~(Dir[m] = n /\ Reached(m)) => listed'[m] = listed[m]
<1>1. PICK n \in Names : /\ listed[n] # ""
                         /\ \/ listed[n] = "DIRECTORY" /\ VisitDirectory(n)
                            \/ listed[n] = "entered" /\ Enter(n)
                            \/ listed[n] = "other" /\ VisitOther(n)
                            \/ listed[n] = "hash" /\ Hash(n)
  BY DEF Visit, Fail, Goto
<1>2. Reached(n) /\ tree[n].kind # "absent" /\ ListedAs(n) /\ ~Fail
  BY <1>1 DEF ListedNow, Reached, Fail, Goto
<1>3. /\ tree[n] \in Node /\ listed \in [Names -> Listing]
      /\ \A m \in Names : tree[m].kind # "absent" /\ Dir[m] # Root
                             => tree[Dir[m]].kind \in {"DIRECTORY", "NESTED"}
  BY DEF TypeOK, IsTree
<1>4. tree[n] = [kind |-> tree[n].kind, data |-> tree[n].data]
  BY <1>3 DEF Node
<1>5. n # Root
  BY NamesAssumption
<1> DEFINE met == /\ seen' = [seen EXCEPT !.walked[n] = NowEntry(n)]
                  /\ listed'[n] = ""
                  /\ \A m \in Names \ {n} :
                        /\ Dir[m] = n /\ Reached(m) => listed'[m] = ListOf(n)[m]
                        /\ ~(Dir[m] = n /\ Reached(m)) => listed'[m] = listed[m]
\* Nothing can be reached through what is not entered.
<1>6. ASSUME NEW k, NEW d, Met(n, k, d), NowEntry(n) = [kind |-> k, data |-> d],
             n = ".git" \/ tree[n].kind # "DIRECTORY"
      PROVE  met
  <2>1. \A m \in Names : Dir[m] = n => ~Reached(m)
    BY <1>5, <1>6 DEF Reached
  <2>2. /\ listed'[n] = "" /\ \A m \in Names \ {n} : listed'[m] = listed[m]
        /\ seen' = [seen EXCEPT !.walked[n] = NowEntry(n)]
    BY <1>3, <1>6 DEF Met, Found
  <2> QED
    BY <2>1, <2>2
<1>7. CASE listed[n] = "DIRECTORY" /\ VisitDirectory(n)
  <2>1. tree[n].kind \in {"DIRECTORY", "NESTED"}
    BY <1>2, <1>7 DEF ListedAs, ListOf
  <2>2. CASE n = ".git"
    <3>1. Met(n, "GIT_DIRECTORY", "")
      BY <1>2, <1>7, <2>2 DEF VisitDirectory
    <3>2. NowEntry(n) = [kind |-> "GIT_DIRECTORY", data |-> ""]
      BY <1>2, <2>1, <2>2 DEF NowEntry
    <3> QED
      BY <1>1, <1>2, <1>6, <2>2, <3>1, <3>2
  <2>3. CASE n # ".git" /\ tree[n].kind = "NESTED"
    <3>1. Met(n, "NESTED_GIT_DIRECTORY", "")
      BY <1>2, <1>7, <2>3 DEF VisitDirectory
    <3>2. NowEntry(n) = [kind |-> "NESTED_GIT_DIRECTORY", data |-> ""]
      BY <1>2, <2>3 DEF NowEntry
    <3> QED
      BY <1>1, <1>2, <1>6, <2>3, <3>1, <3>2
  <2>4. CASE n # ".git" /\ tree[n].kind = "DIRECTORY"
    <3>1. Await(n, "entered")
      BY <1>2, <1>7, <2>4 DEF VisitDirectory
    <3> QED
      BY <1>1, <1>2, <2>4, <3>1 DEF Await
  <2> QED
    BY <2>1, <2>2, <2>3, <2>4
<1>8. CASE listed[n] = "entered" /\ Enter(n)
  <2>0. n # ".git" /\ tree[n].kind = "DIRECTORY"
    BY <1>2, <1>8 DEF ListedAs
  <2>1. /\ Found(n, "DIRECTORY", "")
        /\ listed' = [m \in Names |-> IF m = n THEN "" ELSE IF Dir[m] = n THEN ListOf(n)[m]
                                      ELSE listed[m]]
    BY <1>8, <2>0 DEF Enter
  <2>2. NowEntry(n) = [kind |-> "DIRECTORY", data |-> ""]
    BY <1>2, <2>0 DEF NowEntry
  <2>3. seen' = [seen EXCEPT !.walked[n] = NowEntry(n)]
    BY <2>1, <2>2 DEF Found
  <2>4. ASSUME NEW m \in Names \ {n}
        PROVE  /\ Dir[m] = n /\ Reached(m) => listed'[m] = ListOf(n)[m]
               /\ ~(Dir[m] = n /\ Reached(m)) => listed'[m] = listed[m]
    <3>1. CASE Dir[m] = n /\ ~Reached(m)
      <4>1. tree[m].kind = "absent"
        BY <1>5, <2>0, <3>1 DEF Reached
      <4>2. ListOf(n)[m] = "" /\ listed[m] = ""
        BY <3>1, <4>1 DEF ListOf, ListedNow
      <4> QED
        BY <2>1, <3>1, <4>2
    <3>2. CASE Dir[m] = n /\ Reached(m)
      BY <2>1, <3>2
    <3>3. CASE Dir[m] # n
      BY <2>1, <3>3
    <3> QED
      BY <3>1, <3>2, <3>3
  <2>5. listed'[n] = ""
    BY <2>1
  <2> QED
    BY <1>1, <1>2, <2>3, <2>4, <2>5
<1>9. CASE listed[n] = "other" /\ VisitOther(n)
  <2>1. tree[n].kind \in {"SYMLINK", "SPECIAL", "REGULAR"}
    BY <1>2, <1>3, <1>9 DEF ListedAs, ListOf, Node, Kind
  <2>2. CASE tree[n].kind = "SYMLINK" \/ (tree[n].kind = "REGULAR" /\ n = ".git")
    <3>1. Met(n, tree[n].kind, tree[n].data)
      BY <1>2, <1>9, <2>2 DEF VisitOther
    <3>2. NowEntry(n) = [kind |-> tree[n].kind, data |-> tree[n].data]
      BY <1>2, <1>4, <2>2 DEF NowEntry
    <3>3. met
      BY <1>6, <2>2, <3>1, <3>2
    <3> QED
      BY <1>1, <1>2, <3>3
  <2>3. CASE tree[n].kind = "SPECIAL"
    <3>1. Met(n, "SPECIAL", "")
      BY <1>2, <1>9, <2>3 DEF VisitOther
    <3>2. NowEntry(n) = [kind |-> "SPECIAL", data |-> ""]
      BY <1>2, <2>3 DEF NowEntry
    <3> QED
      BY <1>1, <1>2, <1>6, <2>3, <3>1, <3>2
  <2>4. CASE tree[n].kind = "REGULAR" /\ n # ".git"
    <3>1. Await(n, "hash")
      BY <1>2, <1>9, <2>4 DEF VisitOther
    <3> QED
      BY <1>1, <1>2, <2>4, <3>1 DEF Await
  <2> QED
    BY <2>1, <2>2, <2>3, <2>4
<1>10. CASE listed[n] = "hash" /\ Hash(n)
  <2>1. tree[n].kind = "REGULAR" /\ Readable(n) = {tree[n].data}
    BY <1>2, <1>10 DEF ListedAs, Readable
  <2>2. Met(n, "REGULAR", tree[n].data)
    BY <1>2, <1>10, <2>1 DEF Hash
  <2>3. NowEntry(n) = [kind |-> "REGULAR", data |-> tree[n].data]
    BY <1>2, <1>4, <2>1 DEF NowEntry
  <2> QED
    BY <1>1, <1>2, <1>6, <2>1, <2>2, <2>3
<1> QED
  BY <1>1, <1>7, <1>8, <1>9, <1>10

LEMMA StillWalk ==
    ASSUME ReviewInv, StillInv, [Next]_vars, edits' = 0, job'.goal = "task"
    PROVE  ListedNow' /\ WalkedNow' /\ WalkedAll'
<1>0. TypeOK /\ Typed /\ edits \in Nat /\ IsTree(tree)
  BY TypeParts, BoundsAssumption DEF ReviewInv
<1>1. ~User /\ UNCHANGED target /\ edits = 0
  BY <1>0, UserOrCommand DEF target
<1>2. CASE Begin
  <2>1. listed' = Unlisted /\ seen' = Blank /\ pc' = "list"
    BY <1>2 DEF Begin, Goto
  <2>2. \A n \in Names : listed'[n] = "" /\ seen'.walked[n].kind = "absent"
    BY <2>1 DEF Unlisted, Blank, Empty
  <2> QED
    BY <2>1, <2>2 DEF ListedNow, WalkedNow, WalkedAll, GitLabels
<1>3. ASSUME ~Begin PROVE ListedNow' /\ WalkedNow' /\ WalkedAll'
  <2>1. job' = job /\ job.goal = "task" /\ ListedNow /\ WalkedNow /\ WalkedAll
    BY <1>0, <1>1, <1>3, UserOrCommand DEF StillInv, Still
  <2>2. \A n \in Names : /\ Reached(n)' <=> Reached(n)
                        /\ NowEntry(n)' = NowEntry(n) /\ ListOf(Dir[n])' = ListOf(Dir[n])
    BY <1>1, <2>1, NowStays
  <2>a. tree' = tree
    BY <1>1 DEF target
  <2>3. ASSUME UNCHANGED listed, seen'.walked = seen.walked,
               pc' = "walk" => pc = "walk",
               pc' \in {"manifest", "reread", "base", "OK"} \union GitLabels
                  => pc \in {"manifest", "reread", "base", "OK"} \union GitLabels
        PROVE  ListedNow' /\ WalkedNow' /\ WalkedAll'
    <3>1. ListedNow'
      BY <2>1, <2>2, <2>3, <2>a DEF ListedNow, ListedAs
    <3>2. WalkedNow'
      BY <2>1, <2>2, <2>3 DEF WalkedNow
    <3>3. WalkedAll'
      BY <2>1, <2>2, <2>3 DEF WalkedAll
    <3> QED
      BY <3>1, <3>2, <3>3
  <2>4. CASE List
    <3>1. CASE pc' = "UNSUPPORTED_TARGET" /\ UNCHANGED <<listed, seen>>
      BY <2>3, <3>1 DEF GitLabels
    <3>2. CASE pc' = "walk" /\ UNCHANGED seen /\ listed' = ListOf(Root)
      <4>1. pc = "list" /\ \A n \in Names : seen.walked[n].kind = "absent"
        BY <2>4 DEF List, ReviewInv, ParentSeen
      <4>2. ASSUME NEW n \in Names
            PROVE  /\ listed'[n] # "" => Reached(n) /\ listed'[n] = ListOf(Dir[n])[n]
                   /\ Reached(n) => listed'[n] # "" \/ (Dir[n] # Root /\ listed'[Dir[n]] # "")
        <5>1. listed'[n] # "" => Dir[n] = Root /\ tree[n].kind # "absent"
          BY <3>2 DEF ListOf
        <5>2. listed'[n] # "" => Reached(n) /\ listed'[n] = ListOf(Dir[n])[n]
          BY <3>2, <5>1 DEF Reached
        <5>3. Reached(n) /\ Dir[n] = Root => listed'[n] # ""
          BY <3>2 DEF Reached, ListOf
        <5>4. ASSUME Reached(n), Dir[n] # Root PROVE listed'[Dir[n]] # ""
          <6>1. Dir[n] \in Names /\ Dir[Dir[n]] = Root /\ tree[Dir[n]].kind = "DIRECTORY"
            BY <5>4, TreeAssumption DEF Reached
          <6> QED
            BY <3>2, <6>1 DEF ListOf
        <5> QED
          BY <5>2, <5>3, <5>4
      <4>3. ListedNow'
        <5>1. \A n \in Names : ListOf(Dir[n])[n] \in {"", "DIRECTORY", "other"}
          BY DEF ListOf
        <5> QED
          BY <2>2, <4>2, <5>1 DEF ListedNow, ListedAs
      <4>4. WalkedNow'
        BY <3>2, <4>1 DEF WalkedNow
      <4>5. WalkedAll'
        BY <2>2, <3>2, <4>2 DEF WalkedAll, GitLabels
      <4> QED
        BY <4>3, <4>4, <4>5
    <3> QED
      BY <1>0, <2>1, <2>4, <3>1, <3>2, ListIs
  <2>5. CASE Visit
    <3>1. CASE pc' # "walk"
      <4>1. pc' = "UNSUPPORTED_TARGET" /\ UNCHANGED <<listed, seen>>
        BY <1>0, <2>5, <3>1, VisitIs
      <4> QED
        BY <2>3, <4>1 DEF GitLabels
    <3>2. PICK n \in Names :
              /\ listed[n] # "" /\ Reached(n)
              /\ pc' # "walk" \/
                 \/ /\ seen' = seen
                    /\ \/ /\ listed' = [listed EXCEPT ![n] = "entered"]
                          /\ tree[n].kind = "DIRECTORY" /\ n # ".git"
                       \/ listed' = [listed EXCEPT ![n] = "hash"] /\ tree[n].kind = "REGULAR"
                 \/ /\ seen' = [seen EXCEPT !.walked[n] = NowEntry(n)]
                    /\ listed'[n] = ""
                    /\ \A m \in Names \ {n} :
                          /\ Dir[m] = n /\ Reached(m) => listed'[m] = ListOf(n)[m]
                          /\ ~(Dir[m] = n /\ Reached(m)) => listed'[m] = listed[m]
      <4>1. CASE pc' = "walk"
        BY <1>0, <2>1, <2>5, <4>1, VisitNow
      <4>2. CASE pc' # "walk"
        <5>1. \E n \in Names : listed[n] # ""
          BY <2>5 DEF Visit
        <5> QED
          BY <2>1, <4>2, <5>1 DEF ListedNow
      <4> QED
        BY <4>1, <4>2
    <3>3. ASSUME pc' = "walk", seen' = seen,
                 \/ /\ listed' = [listed EXCEPT ![n] = "entered"]
                    /\ tree[n].kind = "DIRECTORY" /\ n # ".git"
                 \/ listed' = [listed EXCEPT ![n] = "hash"] /\ tree[n].kind = "REGULAR"
          PROVE  ListedNow' /\ WalkedNow' /\ WalkedAll'
      <4>1. /\ listed'[n] # "" /\ \A m \in Names \ {n} : listed'[m] = listed[m]
            /\ \/ listed'[n] = "entered" /\ tree[n].kind = "DIRECTORY" /\ n # ".git"
               \/ listed'[n] = "hash" /\ tree[n].kind = "REGULAR"
        BY <1>0, <3>3 DEF Typed
      <4>2. ListedNow'
        BY <2>1, <2>2, <2>a, <3>2, <4>1 DEF ListedNow, ListedAs
      <4>3. WalkedNow'
        BY <2>1, <2>2, <3>3 DEF WalkedNow
      <4>4. \A m \in Names : listed[m] # "" => listed'[m] # ""
        BY <4>1
      <4>5. \A m \in Names : Dir[m] # Root => Dir[m] \in Names
        BY TreeAssumption
      <4>6. pc = "walk"
        BY <2>5 DEF Visit
      <4>7. WalkedAll'
        BY <2>1, <2>2, <3>3, <4>4, <4>5, <4>6 DEF WalkedAll, GitLabels
      <4> QED
        BY <4>2, <4>3, <4>7
    <3>4. ASSUME pc' = "walk", seen' = [seen EXCEPT !.walked[n] = NowEntry(n)],
                 listed'[n] = "",
                 \A m \in Names \ {n} :
                    /\ Dir[m] = n /\ Reached(m) => listed'[m] = ListOf(n)[m]
                    /\ ~(Dir[m] = n /\ Reached(m)) => listed'[m] = listed[m]
          PROVE  ListedNow' /\ WalkedNow' /\ WalkedAll'
      <4>2. /\ seen'.walked[n] = NowEntry(n)
            /\ \A m \in Names \ {n} : seen'.walked[m] = seen.walked[m]
        BY <1>0, <3>4 DEF Typed, Inspection
      <4>3. NowEntry(n).kind # "absent"
        BY <1>0, <3>2, NowIsTyped
      <4>4. ASSUME NEW m \in Names, listed'[m] # ""
            PROVE  Reached(m) /\ ListedAs(m)'
        <5>1. m # n
          BY <3>4, <4>4
        <5>2. CASE Dir[m] = n /\ Reached(m)
          <6>1. listed'[m] = ListOf(Dir[m])[m]
            BY <3>4, <5>1, <5>2
          <6>2. listed'[m] \in {"DIRECTORY", "other"}
            BY <4>4, <6>1 DEF ListOf
          <6> QED
            BY <2>2, <5>2, <6>1, <6>2 DEF ListedAs
        <5>3. CASE ~(Dir[m] = n /\ Reached(m))
          <6>1. listed'[m] = listed[m]
            BY <3>4, <5>1, <5>3
          <6> QED
            BY <2>1, <2>2, <2>a, <4>4, <6>1 DEF ListedNow, ListedAs
        <5> QED
          BY <5>2, <5>3
      <4>5. ListedNow'
        BY <2>2, <4>4 DEF ListedNow
      <4>6. WalkedNow'
        BY <2>1, <2>2, <4>2 DEF WalkedNow
      <4>7. ASSUME NEW m \in Names, Reached(m)
            PROVE  \/ seen'.walked[m].kind # "absent" \/ listed'[m] # ""
                   \/ Dir[m] # Root /\ listed'[Dir[m]] # ""
        <5>1. CASE m = n
          BY <4>2, <4>3, <5>1
        <5>2. CASE m # n /\ Dir[m] = n
          <6>1. listed'[m] = ListOf(n)[m] /\ tree[m].kind # "absent"
            BY <3>4, <4>7, <5>2 DEF Reached
          <6>2. listed'[m] # ""
            BY <5>2, <6>1 DEF ListOf
          <6> QED
            BY <6>2
        <5>3. CASE m # n /\ Dir[m] # n
          <6>1. listed'[m] = listed[m] /\ seen'.walked[m] = seen.walked[m]
            BY <3>4, <4>2, <5>3
          <6>2. CASE Dir[m] # Root /\ listed[Dir[m]] # ""
            <7>1. Dir[m] \in Names
              BY <6>2, TreeAssumption
            <7>2. listed'[Dir[m]] = listed[Dir[m]] \/ listed'[Dir[m]] = ListOf(n)[Dir[m]]
              BY <3>4, <5>3, <7>1
            <7>3. Dir[Dir[m]] = Root /\ n # Root
              BY <6>2, TreeAssumption, NamesAssumption
            <7>4. listed'[Dir[m]] = listed[Dir[m]]
              BY <3>4, <5>3, <7>1, <7>3
            <7> QED
              BY <6>2, <7>4
          <6> QED
            BY <2>1, <2>5, <3>4, <4>7, <6>1, <6>2 DEF WalkedAll, Visit
        <5> QED
          BY <5>1, <5>2, <5>3
      <4>8. WalkedAll'
        BY <2>2, <3>4, <4>7 DEF WalkedAll, GitLabels
      <4> QED
        BY <4>5, <4>6, <4>8
    <3> QED
      BY <3>1, <3>2, <3>3, <3>4
  <2>6. CASE EndWalk
    <3>1. pc = "walk" /\ pc' = "manifest" /\ UNCHANGED <<listed, seen>>
          /\ \A n \in Names : listed[n] = ""
      BY <2>6 DEF EndWalk, Goto, Unlisted
    <3>2. ASSUME NEW n \in Names, Reached(n) PROVE seen.walked[n].kind # "absent"
      <4>1. Dir[n] # Root => Dir[n] \in Names
        BY TreeAssumption
      <4> QED
        BY <2>1, <3>1, <3>2, <4>1 DEF WalkedAll
    <3>3. ListedNow' /\ WalkedNow'
      BY <2>1, <2>2, <3>1 DEF ListedNow, WalkedNow
    <3>4. WalkedAll'
      BY <2>2, <3>1, <3>2 DEF WalkedAll
    <3> QED
      BY <3>3, <3>4
  <2>7. CASE ReadManifest
    <3>1. seen'.walked = seen.walked
      BY <1>0, <2>7 DEF ReadManifest, Typed, Inspection
    <3> QED
      BY <2>3, <2>7, <3>1 DEF ReadManifest, Goto, GitLabels
  <2>8. CASE GitRead
    <3>1. seen'.walked = seen.walked
      BY <1>0, <2>8, GitReadIs DEF Typed, Inspection
    <3> QED
      BY <1>0, <2>1, <2>3, <2>8, <3>1, GitReadIs DEF GitLabels, Inspected
  <2>9. CASE ReadProject
    <3>1. seen'.walked = seen.walked
      BY <1>0, <2>9 DEF ReadProject, Fail, Typed, Inspection
    <3> QED
      BY <2>3, <2>9, <3>1 DEF ReadProject, Goto, Fail, GitLabels
  <2>10. CASE Review
    BY <2>3, <2>10 DEF Review, Goto, GitLabels
  <2>11. ~Plan
    BY <2>1 DEF Plan, ReviewInv, LabelInv
  <2>12. CASE UNCHANGED vars
    BY <2>3, <2>12 DEF vars
  <2> QED
    BY Steps, <1>1, <1>3, <2>4, <2>5, <2>6, <2>7, <2>8, <2>9, <2>10, <2>11, <2>12
<1> QED
  BY <1>2, <1>3

LEMMA StillGit ==
    ASSUME ReviewInv, StillInv, [Next]_vars, edits' = 0, job'.goal = "task"
    PROVE  GitNow'
<1>0. /\ TypeOK /\ seen \in Inspection /\ seen.git \in GitSeen /\ edits \in Nat
      /\ git.branch \in Branches \union {Detached} /\ git.head \in Nat
      /\ git.operation \in {"", "MERGE", "REBASE"} /\ faults \in Nat /\ faults' \in Nat
  <2>1. TypeOK /\ Typed /\ git \in GitState /\ edits \in 0..MaxEdits /\ faults \in 0..MaxFaults
    BY TypeParts DEF ReviewInv
  <2>2. faults' \in 0..MaxFaults
    BY <2>1, RestStep
  <2>3. edits \in Nat /\ faults \in Nat /\ faults' \in Nat
    BY <2>1, <2>2, BoundsAssumption
  <2>4. seen \in Inspection /\ seen.git \in GitSeen
    BY <2>1 DEF Typed, Inspection
  <2>5. /\ git.branch \in Branches \union {Detached} /\ git.head \in Nat
        /\ git.operation \in {"", "MERGE", "REBASE"}
    BY <2>1 DEF GitState
  <2> QED
    BY <2>1, <2>3, <2>4, <2>5
<1>a. edits \in Nat /\ faults \in Nat /\ faults' \in Nat
  BY <1>0
<1>b. edits' # edits + 1 /\ (faults' = faults + 1 => faults' # 0)
      /\ (faults' = faults + 1 \/ faults' = faults => (faults' = 0 => faults = 0))
  BY <1>a
<1>1. ~User /\ git' = git /\ edits = 0
  <2>1. ~User
    BY <1>0, <1>b, UserOrCommand
  <2> QED
    BY <1>0, <2>1, UserOrCommand DEF target
<1>2. CASE Begin
  BY <1>2 DEF Begin, Goto, GitNow, GitLabels
<1>3. ASSUME ~Begin PROVE GitNow'
  <2>1. job.goal = "task" /\ GitNow
    BY <1>0, <1>1, <1>3, UserOrCommand DEF StillInv, Still
  <2>2. ASSUME seen'.git = seen.git, faults' = 0 => faults = 0,
               pc' \in (GitLabels \ {"top"}) \union {"reread", "base", "OK"} =>
                  \/ pc' = pc
                  \/ {pc, pc'} \subseteq {"reread", "base", "OK"}
        PROVE  GitNow'
    BY <1>1, <2>1, <2>2 DEF GitNow, GitLabels
  <2>3. CASE ReadTop
    <3> DEFINE there == EntryOf(".git").kind # "absent"
               file  == EntryOf(".git").kind = "REGULAR"
               base  == [NoGit EXCEPT !.detected = there, !.file = file]
    <3>1. \/ /\ seen' = [seen EXCEPT !.git = [base EXCEPT !.detected = TRUE, !.match = TRUE,
                                                       !.status = "OK"]]
             /\ pc' = "branch"
          \/ /\ \/ seen' = [seen EXCEPT !.git = [base EXCEPT !.detected = TRUE,
                                                       !.status = "NESTED_DIRECTORY"]]
                \/ seen' = [seen EXCEPT !.git = [base EXCEPT !.status =
                               IF there THEN "INVALID_REPOSITORY" ELSE "NOT_GIT"]]
                \/ seen' = [seen EXCEPT !.git = [base EXCEPT !.cli = FALSE, !.status =
                               IF there THEN "CLI_UNAVAILABLE" ELSE "NOT_GIT"]]
             /\ pc' = "reread"
      BY <2>1, <2>3 DEF ReadTop, Goto, Inspected
    <3>2. base \in GitSeen /\ base.branch = "" /\ base.head = 0 /\ base.operation = ""
      BY DEF NoGit, GitSeen, Detached
    <3> HIDE DEF base, there
    <3>3. /\ seen'.git.branch = "" /\ seen'.git.head = 0 /\ seen'.git.operation = ""
          /\ pc' = "branch" \/ (pc' = "reread" /\ seen'.git.status # "OK")
      <4>1. ASSUME NEW g, seen' = [seen EXCEPT !.git = g] PROVE seen'.git = g
        BY <1>0, <4>1 DEF Inspection
      <4>2. CASE pc' = "branch"
        <5>1. seen'.git = [base EXCEPT !.detected = TRUE, !.match = TRUE, !.status = "OK"]
          BY <3>1, <4>1, <4>2
        <5> QED
          BY <3>2, <4>2, <5>1 DEF GitSeen
      <4>3. CASE pc' = "reread"
        <5>1. \/ seen'.git = [base EXCEPT !.detected = TRUE, !.status = "NESTED_DIRECTORY"]
              \/ seen'.git = [base EXCEPT !.status = IF there THEN "INVALID_REPOSITORY"
                                                   ELSE "NOT_GIT"]
              \/ seen'.git = [base EXCEPT !.cli = FALSE, !.status =
                                   IF there THEN "CLI_UNAVAILABLE" ELSE "NOT_GIT"]
          BY <3>1, <4>1, <4>3
        <5> QED
          BY <3>2, <4>3, <5>1 DEF GitSeen
      <4> QED
        BY <3>1, <4>2, <4>3
    <3> QED
      BY <3>3 DEF GitNow, GitLabels
  <2>4. CASE ReadBranch
    <3>1. /\ pc = "branch" /\ pc' = "head"
          /\ \/ seen' = [seen EXCEPT !.git.branch = git.branch]
             \/ seen' = seen
      BY <2>4 DEF ReadBranch, Saw, Goto, After
    <3>2. /\ seen'.git.branch = git.branch \/ seen'.git.branch = seen.git.branch
          /\ seen'.git.head = seen.git.head /\ seen'.git.operation = seen.git.operation
      BY <1>0, <3>1 DEF Inspection, GitSeen
    <3> QED
      BY <1>1, <2>1, <3>1, <3>2 DEF GitNow, GitLabels
  <2>5. CASE ReadHead
    <3>1. /\ pc = "head" /\ pc' = "status"
          /\ \/ seen' = [seen EXCEPT !.git.head = git.head]
             \/ seen' = seen
      BY <2>5 DEF ReadHead, Saw, Goto, After
    <3>2. /\ seen'.git.head = git.head \/ seen'.git.head = seen.git.head
          /\ seen'.git.branch = seen.git.branch /\ seen'.git.operation = seen.git.operation
      BY <1>0, <3>1 DEF Inspection, GitSeen
    <3> QED
      BY <1>1, <2>1, <3>1, <3>2 DEF GitNow, GitLabels
  <2>6. CASE ReadStatus
    <3>1. /\ pc = "status" /\ pc' = "heads"
          /\ \/ seen' = [seen EXCEPT !.git.status = "STATUS_UNAVAILABLE"]
             \/ seen' = seen
      BY <2>6 DEF ReadStatus, Saw, Goto, After
    <3>2. /\ seen'.git.branch = seen.git.branch /\ seen'.git.head = seen.git.head
          /\ seen'.git.operation = seen.git.operation
      BY <1>0, <3>1 DEF Inspection, GitSeen
    <3> QED
      BY <1>1, <2>1, <3>1, <3>2 DEF GitNow, GitLabels
  <2>7. CASE ReadHeads
    <3>1. /\ pc = "heads" /\ pc' = "dirs"
          /\ \/ git.operation = "MERGE" /\ seen' = [seen EXCEPT !.git.operation = "MERGE"]
             \/ git.operation # "MERGE" /\ seen' = seen
             \/ faults' = faults + 1 /\ seen' = seen
      BY <2>7 DEF ReadHeads, Saw, Goto, After, Fault
    <3>2. /\ seen'.git.branch = seen.git.branch /\ seen'.git.head = seen.git.head
          /\ \/ git.operation = "MERGE" /\ seen'.git.operation = "MERGE"
             \/ /\ git.operation # "MERGE" \/ faults' # 0
                /\ seen'.git.operation = seen.git.operation
      <4>1. faults' = faults + 1 => faults' # 0
        BY <1>b
      <4>2. CASE seen' = seen /\ (git.operation # "MERGE" \/ faults' = faults + 1)
        BY <4>1, <4>2
      <4>3. CASE git.operation = "MERGE" /\ seen' = [seen EXCEPT !.git.operation = "MERGE"]
        BY <1>0, <4>3 DEF Inspection, GitSeen
      <4> QED
        BY <3>1, <4>2, <4>3
    <3> QED
      BY <1>1, <2>1, <3>1, <3>2 DEF GitNow, GitLabels
  <2>8. CASE ReadDirs
    <3>1. /\ pc = "dirs" /\ pc' = "reread"
          /\ \/ /\ seen.git.operation = "" /\ git.operation = "REBASE"
                /\ seen' = [seen EXCEPT !.git.operation = "REBASE"] /\ faults' = faults
             \/ /\ seen.git.operation # "" \/ git.operation # "REBASE"
                /\ seen' = seen /\ faults' = faults
             \/ /\ faults' = faults + 1
                /\ seen' = seen \/ seen' = [seen EXCEPT !.git.status = "STATUS_UNAVAILABLE"]
      BY <2>1, <2>8 DEF ReadDirs, Saw, Goto, Inspected, Fault
    <3>2. /\ seen'.git.branch = seen.git.branch /\ seen'.git.head = seen.git.head
          /\ \/ /\ seen.git.operation = "" /\ git.operation = "REBASE"
                /\ seen'.git.operation = "REBASE"
             \/ /\ seen.git.operation # "" \/ git.operation # "REBASE"
                /\ seen'.git.operation = seen.git.operation /\ faults' = faults
             \/ faults' # 0 /\ seen'.git.operation = seen.git.operation
      <4>1. faults' = faults + 1 => faults' # 0
        BY <1>b
      <4>2. CASE /\ seen' = seen
                 /\ \/ /\ seen.git.operation # "" \/ git.operation # "REBASE"
                       /\ faults' = faults
                    \/ faults' = faults + 1
        BY <4>1, <4>2
      <4>3. CASE /\ seen' = [seen EXCEPT !.git.status = "STATUS_UNAVAILABLE"]
                 /\ faults' = faults + 1
        <5>1. /\ seen'.git.branch = seen.git.branch /\ seen'.git.head = seen.git.head
              /\ seen'.git.operation = seen.git.operation
          BY <1>0, <4>3 DEF Inspection, GitSeen
        <5> QED
          BY <4>1, <4>3, <5>1
      <4>4. CASE /\ seen.git.operation = "" /\ git.operation = "REBASE"
                 /\ seen' = [seen EXCEPT !.git.operation = "REBASE"]
        BY <1>0, <4>4 DEF Inspection, GitSeen
      <4> QED
        BY <3>1, <4>2, <4>3, <4>4
    <3>3. /\ seen.git.branch \in {"", git.branch} /\ seen.git.head \in {0, git.head}
          /\ seen.git.operation \in {"", git.operation}
          /\ faults = 0 /\ git.operation = "MERGE" => seen.git.operation = "MERGE"
      BY <2>1, <3>1 DEF GitNow, GitLabels
    <3>4. /\ seen'.git.operation \in {"", git.operation}
          /\ faults' = 0 => seen'.git.operation = git.operation
      BY <1>0, <3>2, <3>3
    <3> QED
      BY <1>1, <3>1, <3>2, <3>3, <3>4 DEF GitNow, GitLabels
  <2>9. CASE ReadProject
    <3>1. seen'.git = seen.git
      BY <1>0, <2>9 DEF ReadProject, Fail, Inspection
    <3>2. faults' = 0 => faults = 0
      <4>1. faults' = faults \/ faults' = faults + 1
        BY <2>9 DEF ReadProject, Fault
      <4> QED
        BY <1>b, <4>1
    <3>3. pc = "reread" /\ pc' \in {"base", "VERSION_MISMATCH", "UNSUPPORTED_TARGET"}
      BY <2>9 DEF ReadProject, Goto, Fail
    <3> QED
      BY <2>2, <3>1, <3>2, <3>3 DEF GitLabels
  <2>10. CASE Review
    <3>1. faults' = 0 => faults = 0
      <4>1. faults' = faults \/ faults' = faults + 1
        BY <2>10 DEF Review, Fault
      <4> QED
        BY <1>b, <4>1
    <3> QED
      BY <2>2, <2>10, <3>1 DEF Review, Goto, GitLabels
  <2>11. ~Plan
    BY <2>1 DEF Plan, ReviewInv, LabelInv
  <2>12. CASE List
    <3>1. pc' \in {"walk", "UNSUPPORTED_TARGET"}
      BY <1>0, <2>1, <2>12, ListIs
    <3> QED
      BY <3>1 DEF GitNow, GitLabels
  <2>13. CASE Visit
    <3>1. pc' \in {"walk", "UNSUPPORTED_TARGET"}
      BY <1>0, <2>13, VisitIs
    <3> QED
      BY <3>1 DEF GitNow, GitLabels
  <2>14. CASE EndWalk \/ ReadManifest
    BY <2>14 DEF EndWalk, ReadManifest, Goto, GitNow, GitLabels
  <2>15. CASE UNCHANGED vars
    BY <2>2, <2>15 DEF vars
  <2> QED
    BY Steps, <1>1, <1>3, <2>3, <2>4, <2>5, <2>6, <2>7, <2>8, <2>9, <2>10, <2>11, <2>12,
       <2>13, <2>14, <2>15 DEF GitRead
<1> QED
  BY <1>2, <1>3

LEMMA StillAnswer ==
    ASSUME ReviewInv, StillInv, [Next]_vars, edits' = 0, job'.goal = "task"
    PROVE  AnswerNow'
<1>0. TypeOK /\ seen \in Inspection /\ edits \in Nat
  <2>1. TypeOK /\ Typed /\ edits \in 0..MaxEdits
    BY TypeParts DEF ReviewInv
  <2>2. edits \in Nat
    BY <2>1, BoundsAssumption
  <2>3. seen \in Inspection
    BY <2>1 DEF Typed
  <2> QED
    BY <2>1, <2>2, <2>3
<1>1. ~User /\ git' = git /\ tree' = tree /\ edits = 0
  BY <1>0, UserOrCommand DEF target
<1>2. CASE Begin
  BY <1>2 DEF Begin, Goto, AnswerNow
<1>3. ASSUME ~Begin PROVE AnswerNow'
  <2>1. job' = job /\ job.goal = "task" /\ AnswerNow /\ WalkedNow
    BY <1>0, <1>1, <1>3, UserOrCommand DEF StillInv, Still
  <2>2. CASE ReadProject
    <3>1. CASE pc' = "base"
      <4>1. PICK m \in Reread(EntryOf(Manifest)) :
               /\ seen' = [seen EXCEPT !.raw = m] /\ m \in DOMAIN Says
               /\ EntryOf(Manifest).name = Manifest
        BY <2>2, <3>1 DEF ReadProject, Goto, Fail
      <4>2. m = tree[Manifest].data
        <5>1. EntryOf(Manifest).kind = "REGULAR" /\ m \in Readable(Manifest)
          BY <4>1, WorldsAssumption DEF Reread
        <5>2. Manifest \in Names /\ seen.walked[Manifest].kind = "REGULAR"
          BY <4>1, <5>1, NamesAssumption, EntryOfKey DEF EntryOf
        <5>3. NowEntry(Manifest).kind = "REGULAR"
          BY <2>1, <5>2 DEF WalkedNow
        <5>4. tree[Manifest].kind = "REGULAR"
          BY <2>1, <5>3 DEF NowEntry, Empty
        <5> QED
          BY <5>1, <5>4 DEF Readable
      <4>3. seen'.raw = m
        BY <1>0, <4>1 DEF Inspection
      <4> QED
        BY <1>1, <3>1, <4>2, <4>3 DEF AnswerNow
    <3>2. CASE pc' # "base"
      BY <2>2, <3>2 DEF ReadProject, Goto, Fail, AnswerNow
    <3> QED
      BY <3>1, <3>2
  <2>3. CASE Review
    <3>1. seen' = seen /\ pc = "base"
      BY <2>3 DEF Review
    <3>2. \E base \in BOOLEAN : plan' = ReviewWith(base) /\ (base => job.base \in git.branches)
      BY <2>3 DEF Review
    <3>3. \E base \in BOOLEAN : plan' = ReviewWith(base)' /\ (base => job'.base \in git'.branches)
      BY <1>1, <2>1, <3>1, <3>2, SameAnswer
    <3> QED
      BY <1>1, <2>1, <3>1, <3>3 DEF AnswerNow
  <2>4. CASE UNCHANGED vars
    <3>1. seen' = seen /\ pc' = pc /\ plan' = plan
      BY <2>4 DEF vars
    <3> QED
      BY <1>1, <2>1, <3>1, SameAnswer DEF AnswerNow
  <2>5. ~Plan
    BY <2>1 DEF Plan, ReviewInv, LabelInv
  <2>6. CASE List
    BY <1>0, <2>1, <2>6, ListIs DEF AnswerNow
  <2>7. CASE Visit
    BY <1>0, <2>7, VisitIs DEF AnswerNow
  <2>8. CASE GitRead
    BY <1>0, <2>8, GitReadIs DEF AnswerNow, GitLabels, Inspected
  <2>9. CASE EndWalk \/ ReadManifest
    BY <2>9 DEF EndWalk, ReadManifest, Goto, AnswerNow
  <2> QED
    BY Steps, <1>1, <1>3, <2>2, <2>3, <2>4, <2>5, <2>6, <2>7, <2>8, <2>9
<1> QED
  BY <1>2, <1>3

LEMMA StillIsClosed == ReviewInv /\ StillInv => FailsClosed
<1> SUFFICES ASSUME ReviewInv, Still, pc = "OK", job.goal = "task", edits = 0,
                    plan.disposition # "BLOCKED"
             PROVE  /\ Fit /\ job.base \in git.branches /\ Settled
                    /\ faults = 0 => git.operation = ""
  BY DEF FailsClosed, StillInv
<1> DEFINE g == TaskGit
<1>1. PICK base \in BOOLEAN : plan = ReviewWith(base) /\ (base => job.base \in git.branches)
  BY DEF Still, AnswerNow
<1>2. Blockers(g, base) = {} /\ Settled
  <2>1. plan.disposition = IF Blockers(g, base) # {} \/ (job.status = "READY" /\ Gaps # {})
                              THEN "BLOCKED"
                           ELSE IF Gaps = {} THEN "READY_FOR_REVIEW" ELSE "DRAFT"
    BY <1>1 DEF ReviewWith
  <2> QED
    BY <2>1 DEF Settled
<1>3. /\ Ordinary(g) /\ g.head # 0 /\ g.branch # Detached /\ g.operation = ""
      /\ g.branch = job.work /\ ~Protected(g.branch, job, seen.raw) /\ base
      /\ ~(\E p \in Tasks \union {Says[seen.raw].taskPath} : EntryOf(p).kind # "absent")
  BY <1>2, NoBlockers
<1>4. TypeOK /\ IsTree(tree) /\ ".git" \in Names /\ seen.git \in GitSeen
  BY TypeParts, NamesAssumption DEF ReviewInv, Typed, Inspection
<1>5. EntryOf(".git").kind = "GIT_DIRECTORY"
  <2> SUFFICES ASSUME EntryOf(".git").kind # "GIT_DIRECTORY" PROVE FALSE
    OBVIOUS
  <2>1. g = [seen.git EXCEPT !.status = "INVALID_REPOSITORY"]
    BY DEF TaskGit
  <2>2. g.status = "INVALID_REPOSITORY"
    BY <1>4, <2>1 DEF GitSeen
  <2> QED
    BY <1>3, <2>2 DEF Ordinary
<1>6. g = seen.git /\ seen.git.status = "OK"
  BY <1>3, <1>5 DEF TaskGit, Ordinary
<1>7. /\ g.branch = git.branch /\ g.head = git.head
      /\ faults = 0 => git.operation = ""
  BY <1>3, <1>6 DEF Still, GitNow, Detached
<1>8. tree[".git"].kind \in {"DIRECTORY", "NESTED"}
  <2>1. seen.walked[".git"].kind = "GIT_DIRECTORY"
    BY <1>4, <1>5, GitMarker
  <2>2. seen.walked[".git"] = NowEntry(".git")
    BY <1>4, <2>1 DEF Still, WalkedNow
  <2> QED
    BY <1>4, <2>1, <2>2, NowIsTyped
<1>9. ~TaskTaken
  <2> SUFFICES ASSUME NEW n \in Names, Reached(n), NEW p \in Tasks, Fold[n] = Fold[p]
               PROVE  FALSE
    BY DEF TaskTaken
  <2>1. seen.walked[n].kind # "absent"
    BY DEF Still, WalkedAll
  <2>2. EntryOf(p).kind # "absent"
    BY <2>1, EntryOfKey DEF EntryOf
  <2> QED
    BY <1>3, <2>2
<1>10. \A b \in Integration : BranchKey[git.branch] # BranchKey[b]
  BY <1>3, <1>7 DEF Protected, Integration, Still, AnswerNow
<1> QED
  BY <1>1, <1>2, <1>3, <1>7, <1>8, <1>9, <1>10 DEF Fit

LEMMA StillInductive == Spec => []StillInv
<1>1. Init => StillInv
  <2> SUFFICES ASSUME Init PROVE Still
    BY DEF StillInv
  <2>1. pc = "idle" /\ \A n \in Names : listed[n] = "" /\ seen.walked[n].kind = "absent"
    BY DEF Init, Unlisted, Blank, Empty
  <2> QED
    BY <2>1 DEF Still, ListedNow, WalkedNow, WalkedAll, GitNow, AnswerNow, GitLabels
<1>2. ReviewInv /\ StillInv /\ [Next]_vars => StillInv'
  BY StillWalk, StillGit, StillAnswer DEF StillInv, Still
<1> QED
  BY <1>1, <1>2, ReviewInductive, PTL DEF Spec

\* Every inspection and answer has its type, and the walk ends with nothing left to
\* visit.
THEOREM ReviewTypes == Spec => []TypeOK
  BY ReviewInductive, PTL DEF ReviewInv

\* A CREATE or ADOPT plan that fits the target goes over nothing and through
\* nothing, in whatever case it is written, and claims what it creates.
THEOREM PlansAreFree == Spec => []FittingPlanIsFree
  BY ReviewInductive, FittingFree, PTL

\* A review that fits the target and the repository is right about them.
THEOREM ReviewsAreRight == Spec => []FittingReviewIsRight
  BY ReviewInductive, FittingRight, PTL

\* A failed read or Git command never lets a task through: while nobody works on the
\* target, a review that is not BLOCKED is of a repository fit for it.
THEOREM ReviewsFailClosed == Spec => []FailsClosed
  BY ReviewInductive, StillInductive, StillIsClosed, PTL

=============================================================================
