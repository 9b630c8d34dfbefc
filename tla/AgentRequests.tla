---------------------------- MODULE AgentRequests ----------------------------
(***************************************************************************)
(* The chat requests of the V15 extension: handleCommand (src/router.ts)    *)
(* over the session store (src/state.ts), the two ways to apply a pending   *)
(* patch (/apply with its dialog, src/patch.ts; the approval boundary of    *)
(* runBoundedAgent, src/agent.ts) and the bounded planner loop.             *)
(*                                                                         *)
(* Requests are asynchronous functions over one session: all chats share    *)
(* the session "default", all native tools "ayla-native-agent".  A step     *)
(* runs from one await to the next, so requests interleave with each other  *)
(* and with the user's own edits exactly where the code awaits.             *)
(***************************************************************************)
EXTENDS PlannerPolicy, Integers

CONSTANTS
    Requests,      \* requests that run at the same time: each may be followed by another
    Prompts,       \* prompts of /agent
    Decisions,     \* replies of the planner
    ModelPatches,  \* patches /patch gets from the model, as sequences of replacements
    MaxEdits,      \* bound: edits of the user to the files
    MaxRequests    \* bound: requests in all

Files == {"fixture", "other"}
\* APPROVAL_BOUNDARY_BEFORE, APPROVAL_BOUNDARY_AFTER, or neither is in the file.
Texts == {"before", "after", "else"}
Content == [text : Texts, edits : 0..MaxEdits]
Replacement == [path : Files, before : Texts, after : Texts]
Objects == 1..(MaxRequests + 1)

PromptType ==
    [matches : SUBSET Routes, workspace : {"none", "other", "ayla"},
     path : Files \cup {"none"},                    \* extractPathFromPrompt
     approves : {"none", "patch", "revert"},        \* the explicit approval in it
     traits : SUBSET Traits, fallbacks : SUBSET ToSet(FallbackOrder),
     target : BOOLEAN]                              \* extractPatchProposalOnlyTargetPath

ASSUME RequestsAssumption ==
    /\ Prompts \subseteq PromptType /\ MaxEdits \in Nat /\ MaxRequests \in Nat
    /\ \A d \in Decisions : d \in DecisionType
    /\ \A p \in ModelPatches :
            /\ p \in Seq(Replacement) /\ p # <<>>
            /\ \A i, j \in DOMAIN p : i # j => p[i].path # p[j].path

\* A pending patch: "digest" holds the content it was proposed for; the patches of
\* /patch have none.
Patch(kind, replacements, digest) ==
    [kind |-> kind, replacements |-> replacements, digest |-> digest]
NoPatch == Patch("none", <<>>, {})
PatchType ==
    [kind : {"none", "model", "patch", "revert"}, replacements : Seq(Replacement),
     digest : SUBSET Content]
\* buildApprovalBoundaryPendingPatch, buildApprovalBoundaryRevertPatch.
FixturePatch(content) ==
    Patch("patch", <<[path |-> "fixture", before |-> "before", after |-> "after"]>>, {content})
RevertPatch(content) ==
    Patch("revert", <<[path |-> "fixture", before |-> "after", after |-> "before"]>>, {content})

VARIABLES
    current,  \* the session's object in the store: a reset makes a new one
    pending,  \* pendingPatch of each object
    status,   \* lastStatus of each object
    disk,     \* the files
    req,      \* the requests
    asked     \* how many there were

session == <<current, pending, status>>
vars == <<session, disk, req, asked>>

NoPrompt ==
    [matches |-> {}, workspace |-> "none", path |-> "none", approves |-> "none",
     traits |-> {}, fallbacks |-> {}, target |-> FALSE]
Idle ==
    [pc |-> "idle", command |-> "none", prompt |-> NoPrompt,
     held |-> 1,           \* the session object /apply keeps
     approved |-> FALSE,   \* the dialog, or the phrase in the prompt, said yes
     patch |-> NoPatch,    \* the patch being applied
     buffer |-> <<>>,      \* contents read, to be written back
     tries |-> 0, plan |-> <<>>, fallback |-> "none", observed |-> FALSE,
     outcome |-> "none"]
Free(r) == req[r].pc \in {"idle", "done"}
Running == {r \in Requests : ~Free(r)}

SetStatus(s) == status' = [status EXCEPT ![current] = s]
\* Mutant: an error leaves the status as it is.
FinishIfReturned(r, outcome) ==
    /\ req' = [req EXCEPT ![r] = [Idle EXCEPT !.pc = "done", !.observed = req[r].observed,
                                              !.outcome = outcome]]
    /\ IF outcome = "thrown" THEN UNCHANGED status ELSE SetStatus("Ready")

\* The handler's "finally": whatever the outcome, the session's object of now is Ready.
Finish(r, outcome) ==
    /\ req' = [req EXCEPT ![r] = [Idle EXCEPT !.pc = "done", !.observed = req[r].observed,
                                              !.outcome = outcome]]
    /\ SetStatus("Ready")
SetPending(patch) == pending' = [pending EXCEPT ![current] = patch]

At(r, pc, command) == req[r].pc = pc /\ req[r].command = command
Includes(content, text) == content.text = text
----------------------------------------------------------------------------
\* A command that asks the model or only reads: /patch, /agent, /chat, and the rest
\* (/plan, /read, /search, /diff, /validate, ...), which change nothing here.
Begin(r) ==
    /\ Free(r)
    /\ \/ \E command \in {"patch", "chat", "rest"} :
            req' = [req EXCEPT ![r] = [Idle EXCEPT !.pc = "model", !.command = command]]
       \/ \E prompt \in Prompts :
            req' = [req EXCEPT ![r] = [Idle EXCEPT !.pc = "model", !.command = "agent",
                                                   !.prompt = prompt]]
    /\ SetStatus("Running")
    /\ UNCHANGED <<current, pending, disk>>

\* No model is there, its reply is not the JSON asked for, or a read fails.
Fails(r) ==
    /\ req[r].pc = "model"
    /\ Finish(r, "thrown")
    /\ UNCHANGED <<current, pending, disk>>

\* Chat returns the promise of its answer: "finally" runs before the answer is there.
Chat(r) ==
    /\ At(r, "model", "chat")
    /\ req' = [req EXCEPT ![r].pc = "answering"]
    /\ SetStatus("Ready")
    /\ UNCHANGED <<current, pending, disk>>
\* So when it comes, or the call fails, the status is left as it is.
ChatSettles(r) ==
    /\ req[r].pc = "answering"
    /\ \E outcome \in {"answered", "thrown"} :
            req' = [req EXCEPT ![r] = [Idle EXCEPT !.pc = "done", !.outcome = outcome]]
    /\ UNCHANGED <<session, disk>>
Answered(r) ==
    /\ At(r, "model", "rest")
    /\ Finish(r, "answered")
    /\ UNCHANGED <<current, pending, disk>>

CreatePatch(r) ==
    /\ At(r, "model", "patch")
    /\ \E replacements \in ModelPatches : SetPending(Patch("model", replacements, {}))
    /\ Finish(r, "pending")
    /\ UNCHANGED <<current, disk>>

\* reset-session, and the "finally" that at once gets a new object for the session.
Reset(r) ==
    /\ Free(r)
    /\ current' = current + 1
    /\ req' = [req EXCEPT ![r] = [Idle EXCEPT !.pc = "done", !.outcome = "reset"]]
    /\ UNCHANGED <<pending, status, disk>>
----------------------------------------------------------------------------
\* /apply: a dialog about the pending patch, if there is one.
Apply(r) ==
    /\ Free(r)
    /\ IF pending[current] = NoPatch
       THEN /\ req' = [req EXCEPT ![r] = [Idle EXCEPT !.pc = "done", !.outcome = "refused"]]
            /\ SetStatus("Ready")
       ELSE /\ req' = [req EXCEPT ![r] = [Idle EXCEPT !.pc = "confirm", !.command = "apply",
                                                      !.held = current]]
            /\ SetStatus("Running")
    /\ UNCHANGED <<current, pending, disk>>

\* Mutant: an unanswered or cancelled dialog goes on.
ConfirmAny(r, choice) == TRUE
Confirmed(r, choice) == choice = "Apply"

\* The answer comes: applyPendingPatch gets the patch its session object holds by now.
Confirm(r, choice) ==
    /\ req[r].pc = "confirm"
    /\ LET patch == pending[req[r].held]
       IN  CASE ~Confirmed(r, choice) -> Finish(r, "cancelled")
             [] Confirmed(r, choice) /\ patch = NoPatch -> Finish(r, "thrown")
             [] OTHER -> /\ req' = [req EXCEPT ![r].pc = "read", ![r].patch = patch,
                                               ![r].approved = choice = "Apply"]
                         /\ UNCHANGED status
    /\ UNCHANGED <<current, pending, disk>>

Index(r) == Len(req[r].buffer) + 1
Replaced(content, replacement) == [content EXCEPT !.text = replacement.after]
\* applyPendingPatch: read every file, check the text to replace, then one edit of all.
ReadOne(r) ==
    /\ At(r, "read", "apply")
    /\ LET replacement == req[r].patch.replacements[Index(r)]
           content == disk[replacement.path]
       IN  IF Includes(content, replacement.before)
           THEN /\ req' = [req EXCEPT
                        ![r].buffer = Append(@, Replaced(content, replacement)),
                        ![r].pc = IF Index(r) = Len(req[r].patch.replacements)
                                  THEN "edit" ELSE "read"]
                /\ UNCHANGED status
           ELSE Finish(r, "thrown")
    /\ UNCHANGED <<current, pending, disk>>

\* The edit is one of documents: which of them are saved with it is up to the editor, and
\* one saved later is an edit of the user.
ApplyEdit(r) ==
    /\ req[r].pc = "edit"
    /\ LET patch == req[r].patch
           edited == {patch.replacements[i].path : i \in DOMAIN patch.replacements}
       IN  \E saved \in SUBSET edited :
              disk' = [f \in Files |->
                        IF f \in saved
                        THEN req[r].buffer[CHOOSE i \in DOMAIN patch.replacements :
                                                patch.replacements[i].path = f]
                        ELSE disk[f]]
    /\ req' = [req EXCEPT ![r].pc = "edited"]
    /\ UNCHANGED session
EditRefused(r) ==
    /\ req[r].pc = "edit" /\ Finish(r, "thrown")
    /\ UNCHANGED <<current, pending, disk>>

Applied(r) ==
    /\ req[r].pc = "edited"
    /\ SetPending(NoPatch)
    /\ Finish(r, "applied")
    /\ UNCHANGED <<current, disk>>
----------------------------------------------------------------------------
\* The rest of a request to the agent: up to the next await, or to its end.
Go(r, pc) == req' = [req EXCEPT ![r].pc = pc] /\ UNCHANGED status
Blocked(r) == Finish(r, "blocked")

\* isExplicitPatchApproval; a revert's prompt reaches it with "patch" for "revert".
Approved(prompt, route) ==
    prompt.approves \in IF route = "revert_apply" THEN {"patch", "revert"} ELSE {"patch"}

\* runApprovalBoundaryApply up to its first read.
Target(patch) == patch.replacements[1].path
ApplyIntent(r, route) ==
    LET patch == pending[current]
        prompt == req[r].prompt
    IN  IF /\ patch # NoPatch
           /\ Target(patch) = "fixture"
           /\ prompt.path \in {"none", Target(patch)}
           /\ Approved(prompt, route)
        THEN /\ req' = [req EXCEPT ![r].pc = "check", ![r].patch = patch,
                                   ![r].approved = prompt.approves # "none"]
             /\ UNCHANGED status
        ELSE Blocked(r)

\* The dispatch of runBoundedAgent.  Other handlers than those of this module get the
\* prompt delegated; none of them touches the pending patch or the files modelled here.
DispatchPrompt(r) ==
    /\ At(r, "model", "agent")
    /\ LET route == Dispatch(req[r].prompt)
           fixture == req[r].prompt.path = "fixture"
       IN  CASE route = "planner" -> Go(r, "planning")
             [] route \in {"ayla_apply", "ayla_edit"} -> Blocked(r)
             [] route = "patch_proposal" /\ fixture -> Go(r, "propose")
             [] route = "revert_proposal" /\ fixture -> Go(r, "revert")
             [] route \in {"patch_proposal", "revert_proposal"} /\ ~fixture -> Blocked(r)
             [] route \in {"patch_apply", "revert_apply"} -> ApplyIntent(r, route)
             [] OTHER -> Go(r, "delegated")
    /\ UNCHANGED <<current, pending, disk>>

Delegated(r) ==
    /\ req[r].pc = "delegated"
    /\ \E outcome \in {"answered", "blocked", "thrown"} : Finish(r, outcome)
    /\ UNCHANGED <<current, pending, disk>>

\* runApprovalBoundaryProposal, runApprovalBoundaryRevertProposal: the file is read, and
\* the patch kept if the text to replace is there.
Propose(r) ==
    /\ req[r].pc \in {"propose", "revert"}
    /\ LET content == disk["fixture"]
           patch == IF req[r].pc = "propose" THEN FixturePatch(content) ELSE RevertPatch(content)
       IN  IF Includes(content, patch.replacements[1].before)
           THEN SetPending(patch) /\ Finish(r, "pending")
           ELSE UNCHANGED pending /\ Blocked(r)
    /\ UNCHANGED <<current, disk>>

ContextMatches(patch, content) == patch.digest = {} \/ content \in patch.digest

CheckContext(r) ==
    /\ req[r].pc = "check"
    /\ LET content == disk["fixture"]
       IN  IF ContextMatches(req[r].patch, content)
           THEN req' = [req EXCEPT ![r].pc = "read"] /\ UNCHANGED <<status, pending>>
           ELSE SetPending(NoPatch) /\ Blocked(r)
    /\ UNCHANGED <<current, disk>>

\* persistApprovalBoundaryPatch: read, check, write, one replacement after the other; a
\* text that is gone ends it, and the writes before it stay.
PersistRead(r) ==
    /\ At(r, "read", "agent")
    /\ LET replacement == req[r].patch.replacements[Index(r)]
           content == disk[replacement.path]
       IN  IF Includes(content, replacement.before)
           THEN /\ req' = [req EXCEPT ![r].buffer = Append(@, Replaced(content, replacement)),
                                      ![r].pc = "write"]
                /\ UNCHANGED status
           ELSE Blocked(r)
    /\ UNCHANGED <<current, pending, disk>>

PersistWrite(r) ==
    /\ req[r].pc = "write"
    /\ LET n == Len(req[r].buffer)
           replacements == req[r].patch.replacements
       IN  /\ disk' = [disk EXCEPT ![replacements[n].path] = req[r].buffer[n]]
           /\ req' = [req EXCEPT ![r].pc = IF n = Len(replacements) THEN "verify" ELSE "read"]
    /\ UNCHANGED session

\* The target is read again and must hold the new text of every replacement.
Verify(r) ==
    /\ req[r].pc = "verify"
    /\ LET replacements == req[r].patch.replacements
       IN  IF \A i \in DOMAIN replacements : Includes(disk["fixture"], replacements[i].after)
           THEN Go(r, "edited") /\ UNCHANGED pending
           ELSE SetPending(NoPatch) /\ Blocked(r)
    /\ UNCHANGED <<current, disk>>

\* A read or a write rejects: the request with it, except for the writes of the patch.
ReadFails(r) ==
    /\ req[r].pc \in {"propose", "revert", "check", "verify"}
    /\ Finish(r, "thrown")
    /\ UNCHANGED <<current, pending, disk>>
WriteFails(r) ==
    /\ req[r].pc = "write"
    /\ Blocked(r)
    /\ UNCHANGED <<current, pending, disk>>
----------------------------------------------------------------------------
\* The planner answers, after one request to repair an unacceptable answer.
\* What becomes of an accepted decision.
Adopt(r, d, fallback) ==
    LET needsWorkspace == ToolsOf(d.plan) # {} /\ req[r].prompt.workspace = "none"
    IN  CASE d.intent = "casual_response" -> Finish(r, "answered")
          [] d.intent \in {"clarification_needed", "blocked"} -> Blocked(r)
          [] d.intent = "agent_task" /\ needsWorkspace -> Blocked(r)
          [] OTHER -> /\ req' = [req EXCEPT ![r].pc = "steps", ![r].plan = d.plan,
                                            ![r].fallback = fallback, ![r].tries = 0]
                      /\ UNCHANGED status

PlannerAnswers(r, d) ==
    /\ req[r].pc = "planning" /\ Acceptable(req[r].prompt, d)
    /\ Adopt(r, d, "none")
    /\ UNCHANGED <<current, pending, disk>>

Repair(r, d) ==
    /\ req[r].pc = "planning" /\ ~Acceptable(req[r].prompt, d) /\ req[r].tries = 0
    /\ req' = [req EXCEPT ![r].tries = 1]
    /\ UNCHANGED <<session, disk>>

\* The repaired answer is unacceptable too, or the model fails at any time: a harmless
\* prompt is answered, another gets the first fallback plan it asks for, if any.
Fallback(r) ==
    /\ req[r].pc = "planning"
    /\ LET prompt == req[r].prompt
       IN  CASE "harmless" \in prompt.traits -> Finish(r, "answered")
             [] "harmless" \notin prompt.traits /\ prompt.fallbacks = {} -> Blocked(r)
             [] OTHER ->
                    LET kind == First(FallbackOrder, prompt.fallbacks)
                    IN  Adopt(r, [intent |-> "agent_task", plan |-> FallbackPlan(kind)], kind)
    /\ UNCHANGED <<current, pending, disk>>

\* One step of the plan.  "tries" counts the steps done.
PlanStep(r) ==
    /\ req[r].pc = "steps" /\ req[r].tries < Len(req[r].plan)
    /\ \E outcome \in StepOutcomes(req[r].plan[req[r].tries + 1]) :
            CASE outcome = "blocked" -> Blocked(r)
              [] outcome = "thrown" -> Finish(r, "thrown")
              [] OTHER -> /\ req' = [req EXCEPT ![r].tries = @ + 1,
                                        ![r].observed = @ \/ outcome = "observed"]
                          /\ UNCHANGED status
    /\ UNCHANGED <<current, pending, disk>>

PlanDone(r) ==
    /\ req[r].pc = "steps" /\ req[r].tries = Len(req[r].plan)
    /\ Finish(r, FinalOfPlan(req[r].prompt, req[r].plan, req[r].fallback, req[r].observed))
    /\ UNCHANGED <<current, pending, disk>>
----------------------------------------------------------------------------
Init ==
    /\ current = 1
    /\ pending = [o \in Objects |-> NoPatch]
    /\ status = [o \in Objects |-> "Ready"]
    /\ disk \in [Files -> {[text |-> "before", edits |-> 0]}]
    /\ req = [r \in Requests |-> Idle]
    /\ asked = 0

\* The user, or a tool, edits a file.
EditFile(f, text) ==
    /\ disk["fixture"].edits + disk["other"].edits < MaxEdits
    /\ disk' = [disk EXCEPT ![f] = [text |-> text, edits |-> disk[f].edits + 1]]
    /\ UNCHANGED <<session, req, asked>>

\* The user asks, and answers the dialog.
Ask(r) ==
    /\ asked < MaxRequests /\ asked' = asked + 1
    /\ Begin(r) \/ Reset(r) \/ Apply(r)
Settle(r) ==
    \/ Fails(r) \/ Chat(r) \/ ChatSettles(r) \/ Answered(r) \/ CreatePatch(r)
    \/ \E choice \in {"Apply", "cancel"} : Confirm(r, choice)
    \/ ReadOne(r) \/ ApplyEdit(r) \/ EditRefused(r) \/ Applied(r)
    \/ DispatchPrompt(r) \/ Delegated(r) \/ Propose(r) \/ CheckContext(r)
    \/ PersistRead(r) \/ PersistWrite(r) \/ Verify(r) \/ ReadFails(r) \/ WriteFails(r)
    \/ \E d \in Decisions : PlannerAnswers(r, d) \/ Repair(r, d)
    \/ Fallback(r) \/ PlanStep(r) \/ PlanDone(r)

Next ==
    \/ \E r \in Requests : Ask(r) \/ (Settle(r) /\ UNCHANGED asked)
    \/ \E f \in Files, text \in Texts : EditFile(f, text)

Spec == Init /\ [][Next]_vars
----------------------------------------------------------------------------
Pcs == {"idle", "model", "answering", "confirm", "read", "edit", "edited", "delegated",
        "propose", "revert", "check", "write", "verify", "planning", "steps", "done"}
Outcomes == {"none", "reported", "pending", "reset", "refused", "cancelled", "applied",
             "blocked", "answered", "thrown"}
ReqType ==
    [pc : Pcs, command : {"none", "patch", "chat", "rest", "agent", "apply"},
     prompt : PromptType, held : Objects, approved : BOOLEAN, patch : PatchType,
     buffer : Seq(Content), tries : Nat, plan : Seq(StepType),
     fallback : {"none"} \cup ToSet(FallbackOrder), observed : BOOLEAN, outcome : Outcomes]
TypeOK ==
    /\ current \in Objects /\ asked \in 0..MaxRequests
    /\ pending \in [Objects -> PatchType] /\ status \in [Objects -> {"Ready", "Running"}]
    /\ disk \in [Files -> Content]
    /\ req \in [Requests -> ReqType]

\* A request changes a file only with an approval of the user behind it: the dialog
\* of /apply said "Apply", or the prompt has an approval phrase and names no other file
\* than the patch.
WritesAreApproved ==
    [][\A r \in Requests : disk' # disk /\ req'[r] # req[r] =>
        /\ req[r].approved
        /\ req[r].command = "agent" => req[r].prompt.path # "other"]_vars

\* When no request runs, but for chats whose answer is awaited, the session says Ready,
\* whatever requests failed, and whether or not it was reset while they ran.
IdleIsReady == (\A r \in Running : req[r].pc = "answering") => status[current] = "Ready"

\* A report of the planner loop rests on an observation of this very run.
ReportsAreObserved ==
    \A r \in Requests : req[r].outcome = "reported" => req[r].observed
=============================================================================
