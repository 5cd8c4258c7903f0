----------------------------- MODULE MCRecovery -----------------------------
(***************************************************************************)
(* Recovery of short runs: every kind of step under the planner mode and   *)
(* with the failures in which it takes a road of its own.                  *)
(***************************************************************************)
EXTENDS Recovery

Config(planner, kinds, fails, results) ==
    [planner |-> planner, kinds |-> kinds, fails |-> fails, results |-> results]

MCConfigs ==
    {Config("agent", <<"read">>, {"invalid"}, {"promoted"}),
     Config("agent", <<"read">>, {"transient", "person"}, {"promoted"}),
     Config("llm", <<"read">>, {"auth", "defect"}, {"failed", "promoted"}),
     Config("llm", <<"update">>, {"unsure", "transient"}, {"promoted"}),
     Config("llm", <<"derivative">>, {"invalid"}, {"promoted"}),
     Config("agent", <<"jira">>, {"defect"}, {"promoted"}),
     Config("llm", <<"read", "read">>, {"transient"}, {"promoted"})}
=============================================================================
