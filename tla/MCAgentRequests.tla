--------------------------- MODULE MCAgentRequests ---------------------------
(***************************************************************************)
(* Instances of AgentRequests: prompts that reach each handler of the       *)
(* dispatcher and each branch of the planner loop.                          *)
(***************************************************************************)
EXTENDS AgentRequests, TLC

Prompt(matches, workspace) ==
    [NoPrompt EXCEPT !.matches = matches, !.workspace = workspace]
MCPrompts ==
    { [NoPrompt EXCEPT !.traits = {"harmless"}],
      [Prompt({}, "other") EXCEPT !.fallbacks = {"read", "status"}, !.traits = {"evidence"}],
      [Prompt({}, "none") EXCEPT !.fallbacks = {"audit"}],
      [Prompt({"patch_proposal"}, "other") EXCEPT !.path = "fixture"],
      [Prompt({"revert_proposal"}, "other") EXCEPT !.path = "fixture"],
      [Prompt({"patch_apply"}, "other") EXCEPT !.approves = "patch"],
      [Prompt({"patch_apply"}, "other") EXCEPT !.path = "other", !.approves = "patch"],
      [Prompt({"revert_apply", "patch_apply"}, "other") EXCEPT !.approves = "revert"],
      Prompt({"patch_apply"}, "other"),
      Prompt({"ayla_edit"}, "ayla"),
      Prompt({"production"}, "other") }

Decision(intent, plan) ==
    [parses |-> TRUE, intent |-> intent, needsTools |-> FALSE, plan |-> plan, says |-> TRUE]
MCDecisions ==
    { Decision("casual_response", <<>>),
      [Decision("agent_task", <<>>) EXCEPT !.needsTools = TRUE],
      Decision("agent_task", <<Step("none", "missing")>>),
      Decision("agent_task", <<Step("text_search", "given"), Step("run_command", "given")>>),
      Decision("blocked", <<>>) }

Replace(path, before, after) == [path |-> path, before |-> before, after |-> after]
MCModelPatches ==
    { <<Replace("fixture", "before", "after")>>,
      <<Replace("fixture", "before", "after"), Replace("other", "before", "after")>>,
      <<Replace("other", "before", "after")>> }

Symmetry == Permutations(Requests)
=============================================================================
