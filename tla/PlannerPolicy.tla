---------------------------- MODULE PlannerPolicy ----------------------------
(***************************************************************************)
(* What the bounded agent of V15 (runBoundedAgent in src/agent.ts) decides  *)
(* without state: which handler a prompt goes to, whether a planner's       *)
(* decision is acceptable, the plan the supervisor falls back on, the skill *)
(* of a plan, what a tool may answer and which report a finished plan gets. *)
(*                                                                         *)
(* A prompt is abstracted to the predicates it satisfies: the routes it     *)
(* matches, the fallback plans it asks for and its traits.                  *)
(***************************************************************************)
EXTENDS Sequences, SequencesExt

\* The handlers in the order the dispatcher tries them.
RouteOrder ==
    << "safe_execution_gate", "structured_edit_proof", "scoped_execution",
       "sidecar_readiness", "gateway_readiness", "local_engineer", "diagnostic_free",
       "production", "exam_with_compile", "scratch_tests", "chat_exam", "guarded_proposal",
       "ayla_apply", "ayla_edit", "inspect", "revert_proposal", "revert_apply",
       "patch_proposal", "patch_apply", "planner" >>
Routes == ToSet(RouteOrder)
\* Handlers for a workspace, and those of Ayla's own workspace.
WorkspaceRoutes ==
    {"gateway_readiness", "diagnostic_free", "production", "inspect", "revert_proposal",
     "revert_apply", "patch_proposal", "patch_apply"}
AylaRoutes == {"chat_exam", "guarded_proposal", "ayla_apply", "ayla_edit"}

Traits == {"harmless", "evidence", "full_status", "proposal_only"}
\* The fallback plans in the order the supervisor tries them.
FallbackOrder == <<"patch", "analysis", "audit", "diff", "search", "read", "status">>
Tools == {"none", "git_status", "gateway_health", "git_diff", "read_file", "list_directory",
          "text_search", "run_command", "validate", "propose_patch"}
\* The tools a plan may name but the executor does not run.
Unavailable == {"run_command", "validate", "propose_patch"}
\* What a step's argument is: given, missing, package.json, or a path the policy refuses.
Args == {"given", "missing", "package", "refused"}
StepType == [tool : Tools, arg : Args, optional : BOOLEAN]
Intents == {"casual_response", "clarification_needed", "blocked", "agent_task"}
\* A planner's reply: "parses" when it has the schema of a decision; "says" when the
\* response, or the block reason, that its intent calls for is there.
DecisionType ==
    [parses : BOOLEAN, intent : Intents, needsTools : BOOLEAN, plan : Seq(StepType),
     says : BOOLEAN]

First(order, S) == order[CHOOSE i \in DOMAIN order :
                            order[i] \in S /\ \A j \in 1..(i - 1) : order[j] \notin S]

\* The handler of a prompt: of the routes it matches, the first that its workspace has.
Dispatch(prompt) ==
    First(RouteOrder, {route \in prompt.matches \cup {"planner"} :
                        /\ route \in WorkspaceRoutes => prompt.workspace # "none"
                        /\ route \in AylaRoutes => prompt.workspace = "ayla"})
----------------------------------------------------------------------------
ToolsOf(plan) == {plan[i].tool : i \in DOMAIN plan} \ {"none"}

\* validatePlannerSemantics, with the schema check before it.
Acceptable(prompt, d) ==
    /\ d.parses
    /\ d.intent # "agent_task" => "proposal_only" \notin prompt.traits
    /\ d.intent \in {"casual_response", "clarification_needed"} =>
            ~d.needsTools /\ ToolsOf(d.plan) = {} /\ d.says
    /\ d.intent = "blocked" => d.says /\ "harmless" \notin prompt.traits
    /\ d.intent = "agent_task" =>
            /\ "evidence" \in prompt.traits \/ d.needsTools => ToolsOf(d.plan) # {}
            /\ "full_status" \in prompt.traits =>
                    {"git_status", "read_file", "gateway_health"} \subseteq ToolsOf(d.plan)

Step(tool, arg) == [tool |-> tool, arg |-> arg, optional |-> FALSE]
AuditPlan == <<Step("git_status", "missing"),
               [Step("read_file", "given") EXCEPT !.optional = TRUE]>>

\* The supervisor's plans: of the nine files of an audit, one stands for all.
FallbackPlan(kind) ==
    CASE kind \in {"patch", "diff"} -> <<Step("git_status", "missing"), Step("git_diff", "given")>>
      [] kind \in {"analysis", "audit"} -> AuditPlan
      [] kind = "search" -> <<Step("text_search", "given")>>
      [] kind = "read" -> <<Step("read_file", "given")>>
      [] kind = "status" -> <<Step("git_status", "missing"), Step("read_file", "package"),
                              Step("gateway_health", "missing")>>

\* selectSkillForPlannerDecision says "patch_proposal_skill": a proposal prompt with
\* read-only steps, one of them on a path; or a plan that proposes a patch.
ProposalSkill(prompt, plan) ==
    LET tools == ToolsOf(plan)
    IN  \/ /\ prompt.target /\ tools \subseteq {"git_status", "git_diff", "read_file"}
           /\ \E step \in ToSet(plan) :
                step.tool \in {"git_diff", "read_file"} /\ step.arg # "missing"
        \/ "propose_patch" \in tools
----------------------------------------------------------------------------
\* What a step of a plan may come to.  A missing package.json is an observation, too; a
\* read that fails otherwise is one only where the plan says so.  git and the search
\* command may fail.
StepOutcomes(step) ==
    IF step.tool = "none" THEN {"skipped"}
    ELSE IF step.tool \in {"git_status", "gateway_health"} THEN {"observed"}
    ELSE IF step.tool \in Unavailable THEN {"blocked"}
    ELSE IF step.tool # "list_directory" /\ step.arg = "missing" THEN {"blocked"}
    ELSE IF step.tool = "read_file" /\ step.optional THEN {"observed"}
    ELSE IF step.tool = "read_file" /\ step.arg # "refused" THEN {"observed", "blocked"}
    ELSE IF step.arg = "refused" THEN {"blocked"}
    ELSE IF step.tool = "git_diff" THEN {"observed", "blocked", "thrown"}
    ELSE {"observed", "thrown"}

\* Mutant: a report needs no observation.
FinalOfPlanUnchecked(prompt, plan, fallback, observed) == "reported"

\* The report of a finished plan: without an observation it is refused, except for the
\* proposal and audit reports, which rest on their own plans.
FinalOfPlan(prompt, plan, fallback, observed) ==
    IF \/ ProposalSkill(prompt, plan) /\ prompt.target
       \/ fallback \in {"analysis", "audit"}
       \/ observed
    THEN "reported" ELSE "blocked"
=============================================================================
