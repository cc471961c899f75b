---------------------------- MODULE MCTargetReview ----------------------------
EXTENDS TargetReview

MCOrder == <<".exord", ".exord/manifest.json", ".git", "AGENTS.md", "Docs", "TASK.md",
             "docs", "docs/PROJECT.md">>
MCDir ==
    [n \in {MCOrder[i] : i \in 1..8} \union {".exord/TASK.md", "CLAUDE.md"} |->
        CASE n \in {".exord/manifest.json", ".exord/TASK.md"} -> ".exord"
          [] n = "docs/PROJECT.md" -> "docs"
          [] OTHER -> "."]
MCFold == [n \in DOMAIN MCDir |-> IF n = "Docs" THEN "docs" ELSE n]

MCCore     == {"AGENTS.md", "docs/PROJECT.md"}
MCBridges  == {"CLAUDE.md"}
MCHarmless == {".git"}

MCBranches  == {"work", "main", "Main"}
MCBranchKey == [b \in MCBranches |-> IF b = "Main" THEN "main" ELSE b]
MCReserved  == {"main"}

\* A manifest of this project, one of another schema, and one of another branch
\* layout.
Ours == [schema |-> 1, project |-> TRUE, ours |-> TRUE, gitMode |-> "ENABLED",
         taskPath |-> "TASK.md", managed |-> {"AGENTS.md"}, integration |-> {}]
MCContents == {"", "base", "edited", "crlf", "ours", "newer", "guarded", "document"}
MCSays ==
    [d \in {"ours", "newer", "guarded", "document"} |->
        CASE d = "ours"     -> Ours
          [] d = "newer"    -> [Ours EXCEPT !.schema = 2]
          [] d = "guarded"  -> [Ours EXCEPT !.integration = {"work"}, !.managed = {}]
          [] d = "document" -> [Ours EXCEPT !.gitMode = "DOCUMENT_ONLY"]]

Text(d)   == [kind |-> "REGULAR", data |-> d]
Of(k)     == [kind |-> k, data |-> ""]
Directory == Of("DIRECTORY")
Link      == Of("SYMLINK")

Tree(parts) ==
    [n \in {MCOrder[i] : i \in 1..8} |-> IF n \in DOMAIN parts THEN parts[n] ELSE Empty]
Bare    == Tree([n \in {".git"} |-> Directory])
Project ==
    [Bare EXCEPT ![".exord"] = Directory, ![Manifest] = Text("ours"),
                 !["AGENTS.md"] = Text("base"), !["docs"] = Directory,
                 !["docs/PROJECT.md"] = Text("base")]
Trees ==
    {Tree(<<>>), Bare, Project, [Bare EXCEPT !["AGENTS.md"] = Text("edited")],
     [Bare EXCEPT !["Docs"] = Link, !["docs"] = Directory],
     [Bare EXCEPT !["docs"] = Of("NESTED"), ![".git"] = Text("")],
     [Project EXCEPT !["TASK.md"] = Text("edited")],
     [Project EXCEPT ![Manifest] = Text("guarded")]}

Work == [enclosed |-> FALSE, linked |-> FALSE, branch |-> "work", head |-> 1,
         branches |-> {"work", "main"}, operation |-> ""]
Linked == [Work EXCEPT !.linked = TRUE]
MCGitStates ==
    {Work, [Work EXCEPT !.branch = "Main"], [Work EXCEPT !.operation = "MERGE"],
     [Work EXCEPT !.branch = Detached, !.operation = "REBASE"],
     [Work EXCEPT !.operation = "REBASE"],
     Linked, [Work EXCEPT !.head = 0], [Work EXCEPT !.branches = {"work"}]}
MCWorlds ==
    {[tree |-> t, git |-> g] : t \in Trees, g \in {Work, [Work EXCEPT !.operation = "MERGE"]}}
    \union {[tree |-> Project, git |-> g] : g \in MCGitStates}
    \union {[tree |-> Tree(<<>>), git |-> [Work EXCEPT !.enclosed = TRUE]],
            [tree |-> [Project EXCEPT ![".git"] = Link], git |-> Linked]}

MCNodes ==
    [n \in {MCOrder[i] : i \in 1..8} |->
        CASE n = Manifest          -> {Text("ours"), Text("newer"), Text("document"), Link, Empty}
          [] n = ".git"            -> {Directory, Text(""), Link, Empty}
          [] n = ".exord"          -> {Directory, Link}
          [] n = "AGENTS.md"       -> {Text("crlf"), Link, Of("SPECIAL"), Directory, Empty}
          [] n = "Docs"            -> {Directory, Link}
          [] n = "TASK.md"         -> {Text("edited"), Empty}
          [] n = "docs"            -> {Directory, Of("NESTED"), Text("edited"), Empty}
          [] n = "docs/PROJECT.md" -> {Text("edited"), Empty}]

Task == [goal |-> "task", bridges |-> {}, work |-> "work", base |-> "main",
         status |-> "READY", given |-> Evidence]
MCJobs ==
    {Task, [Task EXCEPT !.status = "DRAFT", !.given = {"goal"}],
     [Task EXCEPT !.given = Evidence \ {"owner"}], [Task EXCEPT !.work = "Main"],
     [Task EXCEPT !.goal = "create"], [Task EXCEPT !.goal = "adopt", !.bridges = MCBridges]}
=============================================================================
