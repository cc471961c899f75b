---------------------------- MODULE MCUpgradePlan ----------------------------
EXTENDS UpgradePlan

MCCore    == {"AGENTS.md"}
MCBridge  == {"CLAUDE.md"}
MCEmitted == [core |-> 2, bridge |-> 2]
MCCurrent == <<0, 6, 0>>

\* One record for each case of the planner's switch.
Plain == [template |-> "core", version |-> 2, mode |-> "TEXT_UTF8_LF_V1", policy |-> "PROPOSE_ONLY"]
Records ==
    {Plain, [Plain EXCEPT !.version = 1], [Plain EXCEPT !.mode = "other"],
     [Plain EXCEPT !.template = "retired"],
     [Plain EXCEPT !.template = "bridge", !.version = 1, !.policy = "REPLACE_IF_UNMODIFIED"]}

\* Every version with the .git of the project, and one of them without.
MCManifests ==
    {m \in [kind : {"v1"}, files : [MCCore \union MCBridge -> Records \union {None}],
            bridges : SUBSET MCBridge, gitMode : {"NONE", "ENABLED"},
            version : {<<0, 5, 9>>, <<0, 6>>, <<0, 7>>, <<-1>>}] :
        m.gitMode = "ENABLED" \/ m.version = <<0, 6>>}
=============================================================================
