------------------------- MODULE AgentRequestsProofs -------------------------
(***************************************************************************)
(* Proofs about AgentRequests, for any number of requests, prompts, planner *)
(* replies and patches: files are written only with an approval, an idle    *)
(* session says so, and a report rests on an observation.                   *)
(*                                                                         *)
(* The inductive invariant joins what a request knows of itself at each     *)
(* point of its handler (RequestInv) with what the session's objects hold   *)
(* (StatusInv, PendingInv) and the one link between the two: a session that *)
(* says Running has a request that runs (BusyInv).                          *)
(***************************************************************************)
EXTENDS AgentRequests, TLAPS

\* Where a request has the approval it writes with.
AtApply == {"check", "read", "edit", "write", "verify", "edited"}

\* What holds of a request at each point of its handler.
ApplyInv(q) ==
    LET steps == Len(q.patch.replacements)
        done == Len(q.buffer)
    IN  /\ q.pc \in AtApply => q.approved /\ steps > 0
        /\ q.pc \in {"model", "confirm", "check"} => done = 0
        /\ q.pc = "read" => done < steps
        /\ q.pc = "edit" => done = steps
        /\ q.pc = "write" => done \in 1..steps
        /\ q.pc \in {"check", "write"} => q.command = "agent"
        /\ q.pc = "read" => q.command \in {"agent", "apply"}
        /\ q.pc \in {"confirm", "edit"} => q.command = "apply"
        /\ q.pc \in {"check", "read", "write"} /\ q.command = "agent" => q.prompt.path # "other"

\* The steps done so far found something, or were none at all.
PlanInv(q) ==
    /\ q.pc # "done" => q.outcome = "none"
    /\ q.outcome = "reported" => q.observed
    /\ q.pc = "steps" =>
        /\ q.tries <= Len(q.plan)
        /\ q.fallback \in {"analysis", "audit"} => q.plan = AuditPlan
        /\ \A i \in 1..q.tries :
            /\ q.plan[i].tool \notin Unavailable
            /\ q.plan[i].tool = "none" \/ q.observed

\* Before its "finally".
Runs(q) == q.pc \notin {"idle", "done", "answering"}
RequestsInv(reqs) ==
    /\ reqs \in [Requests -> ReqType]
    /\ \A r \in Requests : ApplyInv(reqs[r]) /\ PlanInv(reqs[r])
StatusInv(obj, stat, count) ==
    /\ obj \in Objects /\ count \in 0..MaxRequests /\ obj <= count + 1
    /\ stat \in [Objects -> {"Ready", "Running"}]
    /\ \A o \in Objects : o > obj => stat[o] = "Ready"
PendingInv(patches) ==
    /\ patches \in [Objects -> PatchType]
    /\ \A o \in Objects : patches[o] = NoPatch \/ Len(patches[o].replacements) > 0
BusyInv(obj, stat, reqs) == stat[obj] = "Running" => \E r \in Requests : Runs(reqs[r])
SessionInv ==
    /\ RequestsInv(req) /\ StatusInv(current, status, asked) /\ PendingInv(pending)
    /\ BusyInv(current, status, req) /\ disk \in [Files -> Content]
----------------------------------------------------------------------------
(* Operators *)

\* The first of the fallback plans a prompt asks for is one it asks for.
LEMMA FirstIsMember ==
    ASSUME NEW S, S \subseteq ToSet(FallbackOrder), S # {}
    PROVE  First(FallbackOrder, S) \in S
<1> DEFINE Hit(i) == FallbackOrder[i] \in S /\ \A j \in 1..(i - 1) : FallbackOrder[j] \notin S
<1>1. FallbackOrder = <<"patch", "analysis", "audit", "diff", "search", "read", "status">>
      /\ DOMAIN FallbackOrder = 1..7
  BY DEF FallbackOrder
<1>2. ToSet(FallbackOrder) =
        {"patch", "analysis", "audit", "diff", "search", "read", "status"}
  BY <1>1 DEF ToSet
<1>3. \E i \in DOMAIN FallbackOrder : Hit(i)
  <2>1. CASE "patch" \in S
    BY <2>1, <1>1
  <2>2. CASE "patch" \notin S /\ "analysis" \in S
    <3>1. Hit(2) BY <2>2, <1>1
    <3> QED BY <3>1, <1>1
  <2>3. CASE "patch" \notin S /\ "analysis" \notin S /\ "audit" \in S
    <3>1. Hit(3) BY <2>3, <1>1
    <3> QED BY <3>1, <1>1
  <2>4. CASE /\ "patch" \notin S /\ "analysis" \notin S /\ "audit" \notin S
             /\ "diff" \in S
    <3>1. Hit(4) BY <2>4, <1>1
    <3> QED BY <3>1, <1>1
  <2>5. CASE /\ "patch" \notin S /\ "analysis" \notin S /\ "audit" \notin S
             /\ "diff" \notin S /\ "search" \in S
    <3>1. Hit(5) BY <2>5, <1>1
    <3> QED BY <3>1, <1>1
  <2>6. CASE /\ "patch" \notin S /\ "analysis" \notin S /\ "audit" \notin S
             /\ "diff" \notin S /\ "search" \notin S /\ "read" \in S
    <3>1. Hit(6) BY <2>6, <1>1
    <3> QED BY <3>1, <1>1
  <2>7. CASE /\ "patch" \notin S /\ "analysis" \notin S /\ "audit" \notin S
             /\ "diff" \notin S /\ "search" \notin S /\ "read" \notin S
    <3>1. "status" \in S BY <2>7, <1>2
    <3>2. Hit(7) BY <2>7, <3>1, <1>1
    <3> QED BY <3>2, <1>1
  <2> QED BY <2>1, <2>2, <2>3, <2>4, <2>5, <2>6, <2>7
<1>4. Hit(CHOOSE i \in DOMAIN FallbackOrder : Hit(i))
  BY <1>3
<1> QED BY <1>4 DEF First

\* A fallback plan is a plan, and that of an analysis or an audit is the audit plan.
LEMMA FallbackPlanIsPlan ==
    ASSUME NEW kind \in ToSet(FallbackOrder)
    PROVE  /\ FallbackPlan(kind) \in Seq(StepType)
           /\ kind \in {"analysis", "audit"} => FallbackPlan(kind) = AuditPlan
<1>1. kind \in {"patch", "analysis", "audit", "diff", "search", "read", "status"}
  BY DEF ToSet, FallbackOrder
<1>2. /\ Step("git_status", "missing") \in StepType /\ Step("git_diff", "given") \in StepType
      /\ Step("text_search", "given") \in StepType /\ Step("read_file", "given") \in StepType
      /\ Step("read_file", "package") \in StepType /\ Step("gateway_health", "missing") \in StepType
      /\ [Step("read_file", "given") EXCEPT !.optional = TRUE] \in StepType
  BY DEF Step, StepType, Tools, Args
<1>3. AuditPlan \in Seq(StepType)
  BY <1>2 DEF AuditPlan
<1>4. CASE kind \in {"analysis", "audit"}
  BY <1>4, <1>3 DEF FallbackPlan
<1>5. CASE kind \in {"patch", "diff"}
  BY <1>5, <1>2 DEF FallbackPlan
<1>6. CASE kind \in {"search", "read", "status"}
  BY <1>6, <1>2 DEF FallbackPlan
<1> QED BY <1>1, <1>4, <1>5, <1>6

\* A step that goes on is one the executor runs, and it observes unless it is no tool.
LEMMA StepObserves ==
    ASSUME NEW step \in StepType, NEW outcome \in StepOutcomes(step),
           outcome \notin {"blocked", "thrown"}
    PROVE  /\ step.tool \notin Unavailable
           /\ step.tool = "none" \/ outcome = "observed"
  BY DEF StepOutcomes, Unavailable

\* A plan whose steps are all done and that gets a report has observed something: for
\* the reports that ask for no observation, because their plans hold a tool.
LEMMA ReportObserved ==
    ASSUME NEW prompt, NEW plan \in Seq(StepType), NEW fallback, NEW observed \in BOOLEAN,
           fallback \in {"analysis", "audit"} => plan = AuditPlan,
           \A i \in 1..Len(plan) : /\ plan[i].tool \notin Unavailable
                                   /\ plan[i].tool = "none" \/ observed,
           FinalOfPlan(prompt, plan, fallback, observed) = "reported"
    PROVE  observed
<1>1. CASE fallback \in {"analysis", "audit"}
  <2>1. plan = AuditPlan /\ Len(AuditPlan) = 2 /\ AuditPlan[1] = Step("git_status", "missing")
    BY <1>1 DEF AuditPlan
  <2> QED BY <2>1 DEF Step
<1>2. CASE ProposalSkill(prompt, plan)
  <2>1. DOMAIN plan = 1..Len(plan)
    OBVIOUS
  <2>2. CASE "propose_patch" \in ToolsOf(plan)
    BY <2>1, <2>2 DEF ToolsOf, Unavailable
  <2>3. CASE \E step \in ToSet(plan) : step.tool \in {"git_diff", "read_file"}
    <3>1. PICK i \in 1..Len(plan) : plan[i].tool \in {"git_diff", "read_file"}
      BY <2>1, <2>3 DEF ToSet
    <3> QED BY <3>1
  <2> QED BY <1>2, <2>2, <2>3 DEF ProposalSkill
<1> QED BY <1>1, <1>2 DEF FinalOfPlan
----------------------------------------------------------------------------
(* Steps of one request *)

\* A step of request r to a state in which it satisfies its invariant, and that leaves
\* the session Ready or has r go on.
Moves(r, q) ==
    /\ req' = [req EXCEPT ![r] = q]
    /\ q \in ReqType /\ ApplyInv(q) /\ PlanInv(q)
    /\ \/ status' = status /\ (Runs(q) \/ ~Runs(req[r]))
       \/ SetStatus("Ready")
       \/ SetStatus("Running") /\ Runs(q)

LEMMA MovesKeeps ==
    ASSUME SessionInv, NEW r \in Requests, NEW q, Moves(r, q), current' = current,
           asked' = asked \/ (asked < MaxRequests /\ asked' = asked + 1),
           PendingInv(pending'), disk' \in [Files -> Content]
    PROVE  SessionInv'
<1> USE RequestsAssumption
<1>1. RequestsInv(req')
  BY DEF SessionInv, RequestsInv, Moves
<1>2. StatusInv(current', status', asked')
  <2>1. StatusInv(current, status, asked)
    BY DEF SessionInv
  <2>2. asked' \in 0..MaxRequests /\ current <= asked' + 1
    BY <2>1 DEF StatusInv, Objects
  <2>3. /\ status' \in [Objects -> {"Ready", "Running"}]
        /\ \A o \in Objects : o # current => status'[o] = status[o]
    BY <2>1 DEF StatusInv, Moves, SetStatus
  <2>4. \A o \in Objects : o > current => o # current
    BY <2>1 DEF StatusInv, Objects
  <2> QED BY <2>1, <2>2, <2>3, <2>4 DEF StatusInv
<1>3. BusyInv(current', status', req')
  <2>1. req'[r] = q /\ \A s \in Requests : s # r => req'[s] = req[s]
    BY DEF SessionInv, RequestsInv, Moves
  <2>2. CASE Runs(q)
    BY <2>1, <2>2 DEF BusyInv
  <2>3. CASE SetStatus("Ready")
    <3>1. status'[current] = "Ready"
      BY <2>3 DEF SetStatus, SessionInv, StatusInv
    <3> QED BY <3>1 DEF BusyInv
  <2>4. CASE status' = status /\ ~Runs(req[r])
    BY <2>1, <2>4 DEF BusyInv, SessionInv
  <2> QED BY <2>2, <2>3, <2>4 DEF Moves
<1> QED BY <1>1, <1>2, <1>3 DEF SessionInv

LEMMA NoPatchTyped == NoPatch \in PatchType /\ Len(NoPatch.replacements) = 0
  BY DEF NoPatch, Patch, PatchType

LEMMA IdleTyped == Idle \in ReqType /\ Idle.buffer = <<>> /\ Idle.outcome = "none"
<1>1. 1 \in Objects
  BY RequestsAssumption DEF Objects
<1>2. NoPrompt \in PromptType
  BY DEF NoPrompt, PromptType
<1> QED BY <1>1, <1>2, NoPatchTyped DEF Idle, ReqType, Pcs, Outcomes

\* The end of a request, whatever its outcome.
Ended(r, outcome) ==
    [Idle EXCEPT !.pc = "done", !.observed = req[r].observed, !.outcome = outcome]
LEMMA FinishMoves ==
    ASSUME SessionInv, NEW r \in Requests, NEW outcome \in Outcomes, Finish(r, outcome),
           outcome = "reported" => req[r].observed
    PROVE  Moves(r, Ended(r, outcome))
<1>1. req[r] \in ReqType
  BY DEF SessionInv, RequestsInv
<1>2. Ended(r, outcome) \in ReqType
  BY <1>1, IdleTyped DEF Ended, ReqType, Pcs
<1>3. /\ Ended(r, outcome).pc = "done" /\ Ended(r, outcome).outcome = outcome
      /\ Ended(r, outcome).observed = req[r].observed
  BY DEF Ended, Idle
<1>4. ApplyInv(Ended(r, outcome)) /\ PlanInv(Ended(r, outcome))
  BY <1>3 DEF ApplyInv, PlanInv, AtApply
<1> QED BY <1>2, <1>4 DEF Moves, Finish, Ended

\* The cases that need no more of the action than that it ends the request.
LEMMA FinishKeeps ==
    ASSUME SessionInv, NEW r \in Requests, NEW outcome \in Outcomes, Finish(r, outcome),
           outcome = "reported" => req[r].observed,
           PendingInv(pending'), UNCHANGED <<current, disk, asked>>
    PROVE  SessionInv'
<1>1. Moves(r, Ended(r, outcome))
  BY FinishMoves
<1> QED BY <1>1, MovesKeeps DEF SessionInv

LEMMA ClearKeeps ==
    ASSUME SessionInv, NEW patch \in PatchType, SetPending(patch),
           patch = NoPatch \/ Len(patch.replacements) > 0
    PROVE  PendingInv(pending')
  BY DEF SessionInv, PendingInv, SetPending, StatusInv

\* A step after which the request goes on.
LEMMA GoesOn ==
    ASSUME SessionInv, NEW r \in Requests, NEW q, req' = [req EXCEPT ![r] = q],
           q \in ReqType, ApplyInv(q), PlanInv(q), Runs(q),
           disk' \in [Files -> Content], UNCHANGED <<session, asked>>
    PROVE  SessionInv'
<1>1. Moves(r, q) /\ current' = current /\ asked' = asked
  BY DEF Moves, session
<1>2. PendingInv(pending')
  BY DEF SessionInv, session
<1> QED BY <1>1, <1>2, MovesKeeps

LEMMA RequestFacts ==
    ASSUME SessionInv, NEW r \in Requests
    PROVE  /\ req[r] \in ReqType /\ ApplyInv(req[r]) /\ PlanInv(req[r])
           /\ req[r].pc \in Pcs /\ req[r].prompt \in PromptType /\ req[r].patch \in PatchType
           /\ req[r].patch.replacements \in Seq(Replacement) /\ req[r].buffer \in Seq(Content)
           /\ req[r].held \in Objects /\ req[r].plan \in Seq(StepType)
           /\ req[r].tries \in Nat /\ req[r].observed \in BOOLEAN
           /\ Len(req[r].buffer) \in Nat /\ Len(req[r].patch.replacements) \in Nat
<1>1. req[r] \in ReqType /\ ApplyInv(req[r]) /\ PlanInv(req[r])
  BY DEF SessionInv, RequestsInv
<1>2. req[r].patch.replacements \in Seq(Replacement)
  BY <1>1 DEF ReqType, PatchType
<1> QED BY <1>1, <1>2 DEF ReqType

\* The first state of a request that waits for the model or for the dialog.
LEMMA BegunInv ==
    ASSUME NEW q, q.pc \in {"model", "confirm"}, q.pc = "confirm" => q.command = "apply",
           q.buffer = <<>>, q.outcome = "none"
    PROVE  ApplyInv(q) /\ PlanInv(q) /\ Runs(q)
  BY DEF ApplyInv, PlanInv, AtApply, Runs

LEMMA BeginKeeps ==
    ASSUME SessionInv, NEW r \in Requests, Begin(r), asked < MaxRequests, asked' = asked + 1
    PROVE  SessionInv'
<1>1. \E q : Moves(r, q)
  <2>1. CASE \E command \in {"patch", "chat", "rest"} :
                req' = [req EXCEPT ![r] = [Idle EXCEPT !.pc = "model", !.command = command]]
    <3>1. PICK command \in {"patch", "chat", "rest"} :
                req' = [req EXCEPT ![r] = [Idle EXCEPT !.pc = "model", !.command = command]]
      BY <2>1
    <3> DEFINE q == [Idle EXCEPT !.pc = "model", !.command = command]
    <3>2. q \in ReqType
      BY IdleTyped DEF ReqType, Pcs
    <3>3. ApplyInv(q) /\ PlanInv(q) /\ Runs(q)
      <4>1. q.pc = "model" /\ q.buffer = <<>> /\ q.outcome = "none"
        BY DEF Idle
      <4> HIDE DEF q
      <4> QED BY <4>1, BegunInv
    <3>4. req' = [req EXCEPT ![r] = q]
      BY <3>1
    <3> QED BY <3>2, <3>3, <3>4 DEF Moves, Begin
  <2>2. CASE \E prompt \in Prompts :
                req' = [req EXCEPT ![r] = [Idle EXCEPT !.pc = "model", !.command = "agent",
                                                       !.prompt = prompt]]
    <3>1. PICK prompt \in Prompts :
                req' = [req EXCEPT ![r] = [Idle EXCEPT !.pc = "model", !.command = "agent",
                                                       !.prompt = prompt]]
      BY <2>2
    <3> DEFINE q == [Idle EXCEPT !.pc = "model", !.command = "agent", !.prompt = prompt]
    <3>2. q \in ReqType
      BY IdleTyped, RequestsAssumption DEF ReqType, Pcs
    <3>3. ApplyInv(q) /\ PlanInv(q) /\ Runs(q)
      <4>1. q.pc = "model" /\ q.buffer = <<>> /\ q.outcome = "none"
        BY DEF Idle
      <4> HIDE DEF q
      <4> QED BY <4>1, BegunInv
    <3>4. req' = [req EXCEPT ![r] = q]
      BY <3>1
    <3> QED BY <3>2, <3>3, <3>4 DEF Moves, Begin
  <2> QED BY <2>1, <2>2 DEF Begin
<1>2. PendingInv(pending') /\ disk' \in [Files -> Content] /\ current' = current
  BY DEF Begin, SessionInv
<1> QED BY <1>1, <1>2, MovesKeeps

LEMMA ResetKeeps ==
    ASSUME SessionInv, NEW r \in Requests, Reset(r), asked < MaxRequests, asked' = asked + 1
    PROVE  SessionInv'
<1> DEFINE q == [Idle EXCEPT !.pc = "done", !.outcome = "reset"]
<1>1. q \in ReqType /\ ApplyInv(q) /\ PlanInv(q)
  <2>1. q \in ReqType /\ q.pc = "done" /\ q.outcome = "reset"
    BY IdleTyped DEF ReqType, Pcs, Outcomes
  <2> QED BY <2>1 DEF ApplyInv, PlanInv, AtApply
<1>2. RequestsInv(req')
  <2> HIDE DEF q
  <2>1. req' = [req EXCEPT ![r] = q]
    BY DEF Reset, q
  <2> QED BY <1>1, <2>1 DEF SessionInv, RequestsInv
<1>3. StatusInv(current', status', asked') /\ status'[current'] = "Ready"
  <2>1. /\ StatusInv(current, status, asked)
        /\ status' = status /\ current' = current + 1
    BY DEF SessionInv, Reset
  <2>2. current + 1 \in Objects /\ asked + 1 \in 0..MaxRequests
    BY <2>1, RequestsAssumption DEF StatusInv, Objects
  <2> QED BY <2>1, <2>2, RequestsAssumption DEF StatusInv, Objects
<1>4. PendingInv(pending') /\ disk' \in [Files -> Content]
  BY DEF SessionInv, Reset
<1>5. BusyInv(current', status', req')
  BY <1>3 DEF BusyInv
<1> QED BY <1>2, <1>3, <1>4, <1>5 DEF SessionInv

LEMMA ApplyKeeps ==
    ASSUME SessionInv, NEW r \in Requests, Apply(r), asked < MaxRequests, asked' = asked + 1
    PROVE  SessionInv'
<1>1. \E q : Moves(r, q)
  <2>1. CASE pending[current] = NoPatch
    <3> DEFINE q == [Idle EXCEPT !.pc = "done", !.outcome = "refused"]
    <3>1. q \in ReqType /\ q.pc = "done" /\ q.outcome = "refused"
      BY IdleTyped DEF ReqType, Pcs, Outcomes
    <3>2. ApplyInv(q) /\ PlanInv(q)
      <4> HIDE DEF q
      <4> QED BY <3>1 DEF ApplyInv, PlanInv, AtApply
    <3>3. req' = [req EXCEPT ![r] = q] /\ SetStatus("Ready")
      BY <2>1 DEF Apply
    <3> QED BY <3>1, <3>2, <3>3 DEF Moves
  <2>2. CASE pending[current] # NoPatch
    <3> DEFINE q == [Idle EXCEPT !.pc = "confirm", !.command = "apply", !.held = current]
    <3>1. q \in ReqType
      <4>1. current \in Objects
        BY DEF SessionInv, StatusInv
      <4> QED BY <4>1, IdleTyped DEF ReqType, Pcs
    <3>2. ApplyInv(q) /\ PlanInv(q) /\ Runs(q)
      <4>1. /\ q.pc = "confirm" /\ q.command = "apply" /\ q.buffer = <<>>
            /\ q.outcome = "none"
        BY DEF Idle
      <4> HIDE DEF q
      <4> QED BY <4>1, BegunInv
    <3>3. req' = [req EXCEPT ![r] = q] /\ SetStatus("Running")
      BY <2>2 DEF Apply
    <3> QED BY <3>1, <3>2, <3>3 DEF Moves
  <2> QED BY <2>1, <2>2
<1>2. PendingInv(pending') /\ disk' \in [Files -> Content] /\ current' = current
  BY DEF Apply, SessionInv
<1> QED BY <1>1, <1>2, MovesKeeps
----------------------------------------------------------------------------
(* One lemma per action *)

LEMMA FailsKeeps ==
    ASSUME SessionInv, NEW r \in Requests, UNCHANGED asked,
           \/ Fails(r) \/ Answered(r) \/ EditRefused(r) \/ ReadFails(r) \/ WriteFails(r)
           \/ Delegated(r)
    PROVE  SessionInv'
<1>1. \E outcome \in {"thrown", "answered", "blocked"} : Finish(r, outcome)
  BY DEF Fails, Answered, EditRefused, ReadFails, WriteFails, Blocked, Delegated
<1>2. UNCHANGED <<current, pending, disk>>
  BY DEF Fails, Answered, EditRefused, ReadFails, WriteFails, Delegated
<1>3. PendingInv(pending')
  BY <1>2 DEF SessionInv
<1>4. {"thrown", "answered", "blocked"} \subseteq Outcomes
  BY DEF Outcomes
<1> QED BY <1>1, <1>2, <1>3, <1>4, FinishKeeps

LEMMA ChatKeeps ==
    ASSUME SessionInv, NEW r \in Requests, UNCHANGED asked, Chat(r)
    PROVE  SessionInv'
<1> DEFINE q == [req[r] EXCEPT !.pc = "answering"]
<1>1. /\ q \in ReqType /\ q.pc = "answering" /\ q.outcome = "none"
  BY SMTT(20), RequestFacts DEF ReqType, Pcs, Chat, At, PlanInv
<1>2. req' = [req EXCEPT ![r] = q] /\ SetStatus("Ready")
  BY DEF Chat
<1>3. Moves(r, q)
  <2>1. ApplyInv(q) /\ PlanInv(q)
    <3> HIDE DEF q
    <3> QED BY <1>1 DEF ApplyInv, PlanInv, AtApply
  <2> QED BY <1>1, <1>2, <2>1 DEF Moves
<1>4. PendingInv(pending') /\ disk' \in [Files -> Content] /\ current' = current
  BY DEF Chat, SessionInv
<1> QED BY <1>3, <1>4, MovesKeeps

LEMMA ChatSettlesKeeps ==
    ASSUME SessionInv, NEW r \in Requests, UNCHANGED asked, ChatSettles(r)
    PROVE  SessionInv'
<1>1. PICK outcome \in {"answered", "thrown"} :
        req' = [req EXCEPT ![r] = [Idle EXCEPT !.pc = "done", !.outcome = outcome]]
  BY DEF ChatSettles
<1> DEFINE q == [Idle EXCEPT !.pc = "done", !.outcome = outcome]
<1>2. q \in ReqType /\ ApplyInv(q) /\ PlanInv(q)
  <2>1. q \in ReqType /\ q.pc = "done" /\ q.outcome # "reported"
    BY IdleTyped DEF ReqType, Pcs, Outcomes
  <2> HIDE DEF q
  <2> QED BY <2>1 DEF ApplyInv, PlanInv, AtApply
<1>3. ~Runs(req[r]) /\ UNCHANGED <<session, disk>>
  BY DEF ChatSettles, Runs
<1>4. Moves(r, q)
  BY <1>1, <1>2, <1>3 DEF Moves, session
<1>5. PendingInv(pending') /\ disk' \in [Files -> Content] /\ current' = current
  BY <1>3 DEF SessionInv, session
<1> QED BY <1>4, <1>5, MovesKeeps

LEMMA CreatePatchKeeps ==
    ASSUME SessionInv, NEW r \in Requests, UNCHANGED asked, CreatePatch(r)
    PROVE  SessionInv'
<1>1. PICK replacements \in ModelPatches : SetPending(Patch("model", replacements, {}))
  BY DEF CreatePatch
<1>2. replacements \in Seq(Replacement) /\ Len(replacements) > 0
  BY RequestsAssumption
<1>3. Patch("model", replacements, {}) \in PatchType
  BY <1>2 DEF Patch, PatchType
<1>4. Patch("model", replacements, {}).replacements = replacements
  BY DEF Patch
<1>5. PendingInv(pending')
  BY <1>1, <1>2, <1>3, <1>4, ClearKeeps
<1>6. Finish(r, "pending") /\ "pending" \in Outcomes /\ UNCHANGED <<current, disk>>
  BY DEF CreatePatch, Outcomes
<1> QED BY <1>5, <1>6, FinishKeeps

LEMMA ConfirmKeeps ==
    ASSUME SessionInv, NEW r \in Requests, UNCHANGED asked, NEW choice \in {"Apply", "cancel"},
           Confirm(r, choice)
    PROVE  SessionInv'
<1> DEFINE patch == pending[req[r].held]
<1>1. PendingInv(pending') /\ UNCHANGED <<current, pending, disk>>
  BY DEF Confirm, SessionInv
<1>2. CASE \E outcome \in {"cancelled", "thrown"} : Finish(r, outcome)
  <2>1. {"cancelled", "thrown"} \subseteq Outcomes
    BY DEF Outcomes
  <2> QED BY <1>1, <1>2, <2>1, FinishKeeps
<1>3. CASE /\ Confirmed(r, choice) /\ patch # NoPatch
           /\ req' = [req EXCEPT ![r].pc = "read", ![r].patch = patch,
                                 ![r].approved = choice = "Apply"]
           /\ UNCHANGED status
  <2> DEFINE q == [req[r] EXCEPT !.pc = "read", !.patch = patch, !.approved = choice = "Apply"]
  <2>1. patch \in PatchType /\ Len(patch.replacements) > 0
    BY <1>3, RequestFacts DEF SessionInv, PendingInv
  <2>2. req[r].pc = "confirm" /\ choice = "Apply"
    BY <1>3 DEF Confirm, Confirmed
  <2>3. Len(req[r].buffer) = 0 /\ req[r].command = "apply" /\ req[r].outcome = "none"
    BY <2>2, RequestFacts DEF ApplyInv, PlanInv
  <2> HIDE DEF patch
  <2>4. /\ q \in ReqType /\ q.pc = "read" /\ q.patch = patch /\ q.approved
        /\ q.buffer = req[r].buffer /\ q.command = "apply" /\ q.outcome = "none"
    BY ZenonT(30), <2>1, <2>2, <2>3, RequestFacts DEF ReqType, Pcs
  <2>5. req' = [req EXCEPT ![r] = q]
    BY <1>3
  <2>6. ApplyInv(q) /\ PlanInv(q) /\ Runs(q)
    <3> HIDE DEF q
    <3> QED BY <2>1, <2>3, <2>4 DEF ApplyInv, PlanInv, Runs
  <2>7. disk' \in [Files -> Content] /\ UNCHANGED session
    BY <1>1, <1>3 DEF SessionInv, session
  <2> QED BY <2>4, <2>5, <2>6, <2>7, GoesOn
<1> QED BY <1>2, <1>3 DEF Confirm

\* What both ways to apply read and change: the replacement at hand, and its result.
LEMMA ReplacementTyped ==
    ASSUME SessionInv, NEW r \in Requests, req[r].pc = "read",
           NEW replacement, replacement = req[r].patch.replacements[Index(r)]
    PROVE  /\ replacement \in Replacement /\ Index(r) \in 1..Len(req[r].patch.replacements)
           /\ disk[replacement.path] \in Content
           /\ Replaced(disk[replacement.path], replacement) \in Content
<1>1. Index(r) \in 1..Len(req[r].patch.replacements)
  BY SMTT(20), RequestFacts DEF Index, ApplyInv
<1>2. replacement \in Replacement
  BY <1>1, RequestFacts
<1>3. disk[replacement.path] \in Content
  BY <1>2 DEF SessionInv, Replacement
<1>4. replacement.after \in Texts
  BY <1>2 DEF Replacement
<1> QED BY <1>1, <1>2, <1>3, <1>4 DEF Replaced, Content

\* A replacement that goes into the buffer.
LEMMA BufferGrows ==
    ASSUME SessionInv, NEW r \in Requests, req[r].pc = "read", NEW new \in Content,
           NEW pc \in {"read", "edit", "write"},
           pc = "read" => Index(r) < Len(req[r].patch.replacements),
           pc = "edit" => Index(r) = Len(req[r].patch.replacements)
                          /\ req[r].command = "apply",
           pc = "write" => req[r].command = "agent",
           req' = [req EXCEPT ![r].buffer = Append(@, new), ![r].pc = pc],
           UNCHANGED <<session, disk, asked>>
    PROVE  SessionInv'
<1> DEFINE q == [req[r] EXCEPT !.buffer = Append(@, new), !.pc = pc]
<1>1. /\ Append(req[r].buffer, new) \in Seq(Content)
      /\ Len(Append(req[r].buffer, new)) = Index(r)
  BY RequestFacts DEF Index
<1>2. /\ q \in ReqType /\ q.pc = pc /\ q.patch = req[r].patch /\ q.approved = req[r].approved
      /\ Len(q.buffer) = Index(r) /\ q.command = req[r].command /\ q.outcome = req[r].outcome
      /\ q.prompt = req[r].prompt
  BY ZenonT(30), <1>1, RequestFacts DEF ReqType, Pcs
<1>3. req' = [req EXCEPT ![r] = q]
  OBVIOUS
<1>4. /\ req[r].approved /\ req[r].outcome = "none"
      /\ req[r].command = "agent" => req[r].prompt.path # "other"
      /\ Index(r) \in 1..Len(req[r].patch.replacements)
      /\ Len(req[r].patch.replacements) > 0 /\ req[r].command \in {"agent", "apply"}
      /\ Len(req[r].patch.replacements) \in Nat
  BY RequestFacts DEF ApplyInv, PlanInv, AtApply, Index
<1>5. ApplyInv(q) /\ PlanInv(q) /\ Runs(q)
  <2> HIDE DEF q
  <2> QED BY <1>2, <1>4 DEF ApplyInv, PlanInv, Runs, AtApply
<1>6. disk' \in [Files -> Content]
  BY DEF SessionInv
<1> QED BY <1>2, <1>3, <1>5, <1>6, GoesOn

LEMMA ReadOneKeeps ==
    ASSUME SessionInv, NEW r \in Requests, UNCHANGED asked, ReadOne(r)
    PROVE  SessionInv'
<1> DEFINE replacement == req[r].patch.replacements[Index(r)]
           new == Replaced(disk[replacement.path], replacement)
           pc == IF Index(r) = Len(req[r].patch.replacements) THEN "edit" ELSE "read"
<1>1. req[r].pc = "read" /\ req[r].command = "apply" /\ UNCHANGED <<current, pending, disk>>
  BY DEF ReadOne, At
<1>2. CASE Includes(disk[replacement.path], replacement.before)
  <2>1. new \in Content /\ Index(r) \in 1..Len(req[r].patch.replacements)
    BY <1>1, ReplacementTyped
  <2>2. /\ req' = [req EXCEPT ![r].buffer = Append(@, new), ![r].pc = pc]
        /\ UNCHANGED <<session, disk>>
    BY <1>2 DEF ReadOne, session
  <2>3. /\ pc \in {"read", "edit", "write"} /\ pc # "write"
        /\ pc = "read" => Index(r) < Len(req[r].patch.replacements)
        /\ pc = "edit" => Index(r) = Len(req[r].patch.replacements)
    BY <2>1, RequestFacts
  <2> HIDE DEF new, pc
  <2> QED BY <1>1, <2>1, <2>2, <2>3, BufferGrows
<1>3. CASE ~Includes(disk[replacement.path], replacement.before)
  <2>1. Finish(r, "thrown") /\ "thrown" \in Outcomes
    BY <1>3 DEF ReadOne, Outcomes
  <2>2. PendingInv(pending')
    BY <1>1 DEF SessionInv
  <2> QED BY <1>1, <2>1, <2>2, FinishKeeps
<1> QED BY <1>2, <1>3

LEMMA PersistReadKeeps ==
    ASSUME SessionInv, NEW r \in Requests, UNCHANGED asked, PersistRead(r)
    PROVE  SessionInv'
<1> DEFINE replacement == req[r].patch.replacements[Index(r)]
           new == Replaced(disk[replacement.path], replacement)
<1>1. req[r].pc = "read" /\ req[r].command = "agent" /\ UNCHANGED <<current, pending, disk>>
  BY DEF PersistRead, At
<1>2. CASE Includes(disk[replacement.path], replacement.before)
  <2>1. new \in Content
    BY <1>1, ReplacementTyped
  <2>2. /\ req' = [req EXCEPT ![r].buffer = Append(@, new), ![r].pc = "write"]
        /\ UNCHANGED <<session, disk>>
    BY <1>2 DEF PersistRead, session
  <2> HIDE DEF new
  <2> QED BY <1>1, <2>1, <2>2, BufferGrows
<1>3. CASE ~Includes(disk[replacement.path], replacement.before)
  <2>1. Finish(r, "blocked") /\ "blocked" \in Outcomes
    BY <1>3 DEF PersistRead, Blocked, Outcomes
  <2>2. PendingInv(pending')
    BY <1>1 DEF SessionInv
  <2> QED BY <1>1, <2>1, <2>2, FinishKeeps
<1> QED BY <1>2, <1>3

\* A step of an apply that only moves on to another point of the handler.
LEMMA ApplyGoesOn ==
    ASSUME SessionInv, NEW r \in Requests, req[r].pc \in AtApply,
           NEW pc \in {"edited", "verify", "read"},
           pc = "read" => Len(req[r].buffer) < Len(req[r].patch.replacements)
                          /\ req[r].pc \in {"check", "write"},
           req' = [req EXCEPT ![r].pc = pc], disk' \in [Files -> Content],
           UNCHANGED <<session, asked>>
    PROVE  SessionInv'
<1> DEFINE q == [req[r] EXCEPT !.pc = pc]
<1>1. /\ q \in ReqType /\ q.pc = pc /\ q.patch = req[r].patch /\ q.buffer = req[r].buffer
      /\ q.approved = req[r].approved /\ q.command = req[r].command
      /\ q.prompt = req[r].prompt /\ q.outcome = req[r].outcome
  BY ZenonT(30), RequestFacts DEF ReqType, Pcs
<1>2. /\ req[r].approved /\ req[r].outcome = "none"
      /\ Len(req[r].patch.replacements) > 0
      /\ pc = "read" => req[r].command = "agent" /\ req[r].prompt.path # "other"
  BY RequestFacts DEF ApplyInv, PlanInv, AtApply
<1>3. req' = [req EXCEPT ![r] = q]
  OBVIOUS
<1>4. ApplyInv(q) /\ PlanInv(q) /\ Runs(q)
  <2> HIDE DEF q
  <2> QED BY <1>1, <1>2 DEF ApplyInv, PlanInv, Runs
<1> QED BY <1>1, <1>3, <1>4, GoesOn

LEMMA ApplyEditKeeps ==
    ASSUME SessionInv, NEW r \in Requests, UNCHANGED asked, ApplyEdit(r)
    PROVE  SessionInv'
<1> DEFINE steps == req[r].patch.replacements
           at(f) == CHOOSE i \in DOMAIN steps : steps[i].path = f
<1>1. req[r].pc = "edit" /\ Len(req[r].buffer) = Len(steps) /\ req[r].buffer \in Seq(Content)
  BY RequestFacts DEF ApplyEdit, ApplyInv
<1>2. DOMAIN steps = 1..Len(steps) /\ DOMAIN req[r].buffer = 1..Len(req[r].buffer)
  BY RequestFacts
<1>3. ASSUME NEW f \in {steps[i].path : i \in DOMAIN steps}
      PROVE  req[r].buffer[at(f)] \in Content
  <2>1. at(f) \in DOMAIN req[r].buffer
    BY <1>1, <1>2
  <2> QED BY <1>1, <2>1
<1>4. disk' \in [Files -> Content]
  <2>1. PICK saved \in SUBSET {steps[i].path : i \in DOMAIN steps} :
          disk' = [f \in Files |-> IF f \in saved THEN req[r].buffer[at(f)] ELSE disk[f]]
    BY DEF ApplyEdit
  <2> HIDE DEF at, steps
  <2>2. disk \in [Files -> Content]
    BY DEF SessionInv
  <2> QED BY <1>3, <2>1, <2>2
<1>5. req' = [req EXCEPT ![r].pc = "edited"] /\ UNCHANGED session
  BY DEF ApplyEdit
<1> QED BY <1>1, <1>4, <1>5, ApplyGoesOn DEF AtApply

LEMMA AppliedKeeps ==
    ASSUME SessionInv, NEW r \in Requests, UNCHANGED asked, Applied(r)
    PROVE  SessionInv'
<1>1. PendingInv(pending') /\ Finish(r, "applied") /\ "applied" \in Outcomes
  BY NoPatchTyped, ClearKeeps DEF Applied, Outcomes
<1> QED BY <1>1, FinishKeeps DEF Applied

LEMMA CheckContextKeeps ==
    ASSUME SessionInv, NEW r \in Requests, UNCHANGED asked, CheckContext(r)
    PROVE  SessionInv'
<1>1. req[r].pc = "check" /\ UNCHANGED <<current, disk>> /\ disk' \in [Files -> Content]
  BY DEF CheckContext, SessionInv
<1>2. CASE ContextMatches(req[r].patch, disk["fixture"])
  <2>1. req' = [req EXCEPT ![r].pc = "read"] /\ UNCHANGED session
    BY <1>2 DEF CheckContext, session
  <2>2. Len(req[r].buffer) < Len(req[r].patch.replacements)
    BY <1>1, RequestFacts DEF ApplyInv, AtApply
  <2> QED BY <1>1, <2>1, <2>2, ApplyGoesOn DEF AtApply
<1>3. CASE ~ContextMatches(req[r].patch, disk["fixture"])
  <2>1. SetPending(NoPatch) /\ Finish(r, "blocked") /\ "blocked" \in Outcomes
    BY <1>3 DEF CheckContext, Blocked, Outcomes
  <2>2. PendingInv(pending')
    BY <2>1, NoPatchTyped, ClearKeeps
  <2> QED BY <1>1, <2>1, <2>2, FinishKeeps
<1> QED BY <1>2, <1>3

LEMMA PersistWriteKeeps ==
    ASSUME SessionInv, NEW r \in Requests, UNCHANGED asked, PersistWrite(r)
    PROVE  SessionInv'
<1> DEFINE n == Len(req[r].buffer)
           pc == IF n = Len(req[r].patch.replacements) THEN "verify" ELSE "read"
<1>1. req[r].pc = "write" /\ n \in 1..Len(req[r].patch.replacements) /\ UNCHANGED session
  BY RequestFacts DEF PersistWrite, ApplyInv
<1>2. req[r].buffer[n] \in Content
  BY <1>1, RequestFacts
<1>3. disk' \in [Files -> Content]
  BY <1>2 DEF PersistWrite, SessionInv
<1>4. req' = [req EXCEPT ![r].pc = pc]
  BY DEF PersistWrite
<1>5. /\ pc \in {"verify", "read"}
      /\ pc = "read" => n < Len(req[r].patch.replacements)
  BY <1>1, RequestFacts
<1> HIDE DEF pc
<1> QED BY <1>1, <1>3, <1>4, <1>5, ApplyGoesOn DEF AtApply

LEMMA VerifyKeeps ==
    ASSUME SessionInv, NEW r \in Requests, UNCHANGED asked, Verify(r)
    PROVE  SessionInv'
<1> DEFINE steps == req[r].patch.replacements
           holds == \A i \in DOMAIN steps : Includes(disk["fixture"], steps[i].after)
<1>1. req[r].pc = "verify" /\ UNCHANGED <<current, disk>> /\ disk' \in [Files -> Content]
  BY DEF Verify, SessionInv
<1>2. CASE holds
  <2>1. req' = [req EXCEPT ![r].pc = "edited"] /\ UNCHANGED session
    BY <1>2 DEF Verify, Go, session
  <2> QED BY <1>1, <2>1, ApplyGoesOn DEF AtApply
<1>3. CASE ~holds
  <2>1. SetPending(NoPatch) /\ Finish(r, "blocked") /\ "blocked" \in Outcomes
    BY <1>3 DEF Verify, Blocked, Outcomes
  <2>2. PendingInv(pending')
    BY <2>1, NoPatchTyped, ClearKeeps
  <2> QED BY <1>1, <2>1, <2>2, FinishKeeps
<1> QED BY <1>2, <1>3

\* A step from the dispatcher or the planner to a point that asks nothing of a request.
LEMMA GoKeeps ==
    ASSUME SessionInv, NEW r \in Requests, Runs(req[r]),
           NEW pc \in {"planning", "propose", "revert", "delegated"}, Go(r, pc),
           UNCHANGED <<current, pending, disk, asked>>
    PROVE  SessionInv'
<1> DEFINE q == [req[r] EXCEPT !.pc = pc]
<1>1. req[r].outcome = "none"
  BY RequestFacts DEF PlanInv, Runs
<1>2. q \in ReqType /\ q.pc = pc /\ q.outcome = "none"
  BY <1>1, RequestFacts DEF ReqType, Pcs
<1>3. req' = [req EXCEPT ![r] = q] /\ UNCHANGED session
  BY DEF Go, session
<1>4. ApplyInv(q) /\ PlanInv(q) /\ Runs(q)
  <2> HIDE DEF q
  <2> QED BY <1>2 DEF ApplyInv, PlanInv, Runs, AtApply
<1>5. disk' \in [Files -> Content]
  BY DEF SessionInv
<1> QED BY <1>2, <1>3, <1>4, <1>5, GoesOn

LEMMA BlockedKeeps ==
    ASSUME SessionInv, NEW r \in Requests, Blocked(r), PendingInv(pending'),
           UNCHANGED <<current, disk, asked>>
    PROVE  SessionInv'
<1>1. Finish(r, "blocked") /\ "blocked" \in Outcomes
  BY DEF Blocked, Outcomes
<1> QED BY <1>1, FinishKeeps

LEMMA ApplyIntentKeeps ==
    ASSUME SessionInv, NEW r \in Requests, NEW route, At(r, "model", "agent"),
           ApplyIntent(r, route), UNCHANGED <<current, pending, disk, asked>>
    PROVE  SessionInv'
<1> DEFINE patch == pending[current]
           prompt == req[r].prompt
           q == [req[r] EXCEPT !.pc = "check", !.patch = patch,
                               !.approved = prompt.approves # "none"]
           ready == /\ patch # NoPatch /\ Target(patch) = "fixture"
                    /\ prompt.path \in {"none", Target(patch)} /\ Approved(prompt, route)
<1>1. CASE ready
  <2>1. patch \in PatchType /\ Len(patch.replacements) > 0
    BY <1>1 DEF SessionInv, PendingInv, StatusInv
  <2>2. prompt.approves # "none" /\ prompt.path # "other"
    BY <1>1 DEF Approved
  <2>3. req[r].command = "agent" /\ Len(req[r].buffer) = 0 /\ req[r].outcome = "none"
    BY RequestFacts DEF At, ApplyInv, PlanInv
  <2>4. req' = [req EXCEPT ![r] = q] /\ UNCHANGED session
    BY <1>1 DEF ApplyIntent, session
  <2> HIDE DEF patch
  <2>5. /\ q \in ReqType /\ q.pc = "check" /\ q.patch = patch /\ q.approved
        /\ q.buffer = req[r].buffer /\ q.command = "agent" /\ q.outcome = "none"
        /\ q.prompt = prompt
    BY ZenonT(30), <2>1, <2>2, <2>3, RequestFacts DEF ReqType, Pcs
  <2>6. ApplyInv(q) /\ PlanInv(q) /\ Runs(q)
    <3> HIDE DEF q
    <3> QED BY <2>1, <2>2, <2>3, <2>5 DEF ApplyInv, PlanInv, Runs
  <2>7. disk' \in [Files -> Content]
    BY DEF SessionInv
  <2> QED BY <2>4, <2>5, <2>6, <2>7, GoesOn
<1>2. CASE ~ready
  <2>1. Blocked(r) /\ PendingInv(pending')
    BY <1>2 DEF ApplyIntent, SessionInv
  <2> QED BY <2>1, BlockedKeeps
<1> QED BY <1>1, <1>2

LEMMA DispatchPromptKeeps ==
    ASSUME SessionInv, NEW r \in Requests, UNCHANGED asked, DispatchPrompt(r)
    PROVE  SessionInv'
<1>1. /\ At(r, "model", "agent") /\ UNCHANGED <<current, pending, disk>>
      /\ PendingInv(pending') /\ Runs(req[r])
  BY DEF DispatchPrompt, SessionInv, At, Runs
<1>2. \/ \E pc \in {"planning", "propose", "revert", "delegated"} : Go(r, pc)
      \/ Blocked(r)
      \/ \E route : ApplyIntent(r, route)
  <2> DEFINE route == Dispatch(req[r].prompt)
  <2> HIDE DEF route
  <2> QED BY DEF DispatchPrompt, route
<1> QED BY <1>1, <1>2, GoKeeps, BlockedKeeps, ApplyIntentKeeps

LEMMA ProposeKeeps ==
    ASSUME SessionInv, NEW r \in Requests, UNCHANGED asked, Propose(r)
    PROVE  SessionInv'
<1> DEFINE content == disk["fixture"]
           patch == IF req[r].pc = "propose" THEN FixturePatch(content) ELSE RevertPatch(content)
<1>1. content \in Content
  BY DEF SessionInv, Files
<1>2. patch \in PatchType /\ Len(patch.replacements) > 0
  BY <1>1 DEF FixturePatch, RevertPatch, Patch, PatchType, Replacement, Files, Texts
<1>3. CASE Includes(content, patch.replacements[1].before)
  <2>1. SetPending(patch) /\ Finish(r, "pending") /\ "pending" \in Outcomes
    BY <1>3 DEF Propose, Outcomes
  <2> HIDE DEF patch
  <2>2. PendingInv(pending')
    BY <1>2, <2>1, ClearKeeps
  <2> QED BY <2>1, <2>2, FinishKeeps DEF Propose
<1>4. CASE ~Includes(content, patch.replacements[1].before)
  <2>1. Blocked(r) /\ PendingInv(pending')
    BY <1>4 DEF Propose, SessionInv
  <2> QED BY <2>1, BlockedKeeps DEF Propose
<1> QED BY <1>3, <1>4

\* What becomes of a decision: for the plan of a fallback, that plan.
LEMMA AdoptKeeps ==
    ASSUME SessionInv, NEW r \in Requests, req[r].pc = "planning", NEW d,
           d.intent \in Intents, d.plan \in Seq(StepType),
           NEW fallback \in {"none"} \cup ToSet(FallbackOrder),
           fallback \in {"analysis", "audit"} => d.plan = AuditPlan,
           Adopt(r, d, fallback), UNCHANGED <<current, pending, disk, asked>>
    PROVE  SessionInv'
<1> DEFINE q == [req[r] EXCEPT !.pc = "steps", !.plan = d.plan, !.fallback = fallback,
                               !.tries = 0]
<1>1. PendingInv(pending')
  BY DEF SessionInv
<1>2. \/ Finish(r, "answered") \/ Blocked(r)
      \/ req' = [req EXCEPT ![r] = q] /\ UNCHANGED status
  BY DEF Adopt, Intents
<1>3. CASE Finish(r, "answered")
  BY <1>1, <1>3, FinishKeeps DEF Outcomes
<1>4. CASE req' = [req EXCEPT ![r] = q] /\ UNCHANGED status
  <2>1. req[r].outcome = "none"
    BY RequestFacts DEF PlanInv
  <2>2. /\ q \in ReqType /\ q.pc = "steps" /\ q.plan = d.plan /\ q.fallback = fallback
        /\ q.tries = 0 /\ q.outcome = "none"
    BY ZenonT(30), <2>1, RequestFacts DEF ReqType, Pcs
  <2>3. Len(d.plan) \in Nat
    OBVIOUS
  <2>4. ApplyInv(q) /\ PlanInv(q) /\ Runs(q)
    <3> HIDE DEF q
    <3> QED BY <2>2, <2>3 DEF ApplyInv, PlanInv, Runs, AtApply
  <2>5. UNCHANGED session /\ disk' \in [Files -> Content]
    BY <1>4 DEF session, SessionInv
  <2> QED BY <1>4, <2>2, <2>4, <2>5, GoesOn
<1> QED BY <1>1, <1>2, <1>3, <1>4, BlockedKeeps

LEMMA PlannerAnswersKeeps ==
    ASSUME SessionInv, NEW r \in Requests, UNCHANGED asked, NEW d \in Decisions,
           PlannerAnswers(r, d)
    PROVE  SessionInv'
<1>1. d.intent \in Intents /\ d.plan \in Seq(StepType)
  BY RequestsAssumption DEF DecisionType
<1>2. /\ req[r].pc = "planning" /\ Adopt(r, d, "none") /\ UNCHANGED <<current, pending, disk>>
  BY DEF PlannerAnswers
<1> QED BY <1>1, <1>2, AdoptKeeps

LEMMA RepairKeeps ==
    ASSUME SessionInv, NEW r \in Requests, UNCHANGED asked, NEW d \in Decisions, Repair(r, d)
    PROVE  SessionInv'
<1> DEFINE q == [req[r] EXCEPT !.tries = 1]
<1>1. req[r].pc = "planning" /\ req' = [req EXCEPT ![r] = q] /\ UNCHANGED <<session, disk>>
  BY DEF Repair
<1>2. req[r].outcome = "none"
  BY <1>1, RequestFacts DEF PlanInv
<1>3. q \in ReqType /\ q.pc = "planning" /\ q.outcome = "none"
  BY <1>1, <1>2, RequestFacts DEF ReqType
<1>4. ApplyInv(q) /\ PlanInv(q) /\ Runs(q)
  <2> HIDE DEF q
  <2> QED BY <1>3 DEF ApplyInv, PlanInv, Runs, AtApply
<1>5. disk' \in [Files -> Content]
  BY <1>1 DEF SessionInv
<1> QED BY <1>1, <1>3, <1>4, <1>5, GoesOn

LEMMA FallbackKeeps ==
    ASSUME SessionInv, NEW r \in Requests, UNCHANGED asked, Fallback(r)
    PROVE  SessionInv'
<1> DEFINE prompt == req[r].prompt
           kind == First(FallbackOrder, prompt.fallbacks)
           d == [intent |-> "agent_task", plan |-> FallbackPlan(kind)]
<1>1. /\ req[r].pc = "planning" /\ UNCHANGED <<current, pending, disk>>
      /\ PendingInv(pending')
  BY DEF Fallback, SessionInv
<1>2. CASE Finish(r, "answered")
  BY <1>1, <1>2, FinishKeeps DEF Outcomes
<1>3. CASE prompt.fallbacks # {} /\ Adopt(r, d, kind)
  <2>1. prompt.fallbacks \subseteq ToSet(FallbackOrder)
    BY RequestFacts DEF PromptType
  <2>2. kind \in ToSet(FallbackOrder)
    BY <1>3, <2>1, FirstIsMember
  <2> HIDE DEF kind
  <2>3. /\ FallbackPlan(kind) \in Seq(StepType)
        /\ kind \in {"analysis", "audit"} => FallbackPlan(kind) = AuditPlan
    BY <2>2, FallbackPlanIsPlan
  <2>4. /\ d.intent \in Intents /\ d.plan \in Seq(StepType)
        /\ kind \in {"analysis", "audit"} => d.plan = AuditPlan
    BY <2>3 DEF Intents
  <2> HIDE DEF d
  <2> QED BY <1>1, <1>3, <2>2, <2>4, AdoptKeeps
<1>4. Finish(r, "answered") \/ Blocked(r) \/ (prompt.fallbacks # {} /\ Adopt(r, d, kind))
  <2> HIDE DEF kind, prompt
  <2> QED BY DEF Fallback, kind, prompt
<1> QED BY <1>1, <1>2, <1>3, <1>4, BlockedKeeps

LEMMA PlanStepKeeps ==
    ASSUME SessionInv, NEW r \in Requests, UNCHANGED asked, PlanStep(r)
    PROVE  SessionInv'
<1> DEFINE step == req[r].plan[req[r].tries + 1]
<1>1. /\ req[r].pc = "steps" /\ req[r].tries < Len(req[r].plan)
      /\ UNCHANGED <<current, pending, disk>> /\ PendingInv(pending')
  BY DEF PlanStep, SessionInv
<1>2. step \in StepType
  BY <1>1, RequestFacts
<1>3. PICK outcome \in StepOutcomes(step) :
        \/ Blocked(r) \/ Finish(r, "thrown")
        \/ /\ outcome \notin {"blocked", "thrown"}
           /\ req' = [req EXCEPT ![r].tries = @ + 1, ![r].observed = @ \/ outcome = "observed"]
           /\ UNCHANGED status
  BY DEF PlanStep
<1>4. CASE Finish(r, "thrown")
  BY <1>1, <1>4, FinishKeeps DEF Outcomes
<1>5. CASE /\ outcome \notin {"blocked", "thrown"}
           /\ req' = [req EXCEPT ![r].tries = @ + 1,
                                 ![r].observed = @ \/ outcome = "observed"]
           /\ UNCHANGED status
  <2> DEFINE found == req[r].observed \/ outcome = "observed"
             q == [req[r] EXCEPT !.tries = @ + 1, !.observed = found]
             tries == req[r].tries
             plan == req[r].plan
  <2>1. step.tool \notin Unavailable /\ (step.tool = "none" \/ outcome = "observed")
    BY <1>2, <1>5, StepObserves
  <2>2. /\ q \in ReqType /\ q.pc = "steps" /\ q.plan = plan /\ q.tries = tries + 1
        /\ q.observed = found /\ q.fallback = req[r].fallback /\ q.outcome = req[r].outcome
    <3>1. found \in BOOLEAN /\ tries + 1 \in Nat /\ req[r] \in ReqType
      BY RequestFacts
    <3> HIDE DEF found
    <3>2. q \in ReqType
      BY <3>1 DEF ReqType
    <3>3. /\ q.pc = req[r].pc /\ q.plan = plan /\ q.tries = tries + 1
          /\ q.observed = found /\ q.fallback = req[r].fallback
          /\ q.outcome = req[r].outcome
      BY <3>1 DEF ReqType
    <3> QED BY <1>1, <3>2, <3>3
  <2>3. /\ req[r].outcome = "none" /\ tries \in Nat /\ tries < Len(plan) /\ Len(plan) \in Nat
        /\ req[r].fallback \in {"analysis", "audit"} => plan = AuditPlan
        /\ \A i \in 1..tries : /\ plan[i].tool \notin Unavailable
                               /\ plan[i].tool = "none" \/ req[r].observed
    BY <1>1, RequestFacts DEF PlanInv
  <2>4. \A i \in 1..(tries + 1) : i \in 1..tries \/ i = tries + 1
    BY <2>3
  <2>5. req' = [req EXCEPT ![r] = q] /\ UNCHANGED session /\ disk' \in [Files -> Content]
    BY <1>1, <1>5 DEF session, SessionInv
  <2> HIDE DEF q
  <2>6. PlanInv(q)
    <3>1. q.tries <= Len(q.plan) /\ q.outcome = "none"
      BY <2>2, <2>3
    <3>2. \A i \in 1..q.tries : /\ q.plan[i].tool \notin Unavailable
                                /\ q.plan[i].tool = "none" \/ q.observed
      BY <2>1, <2>2, <2>3, <2>4
    <3> QED BY <2>2, <2>3, <3>1, <3>2 DEF PlanInv
  <2>7. ApplyInv(q) /\ Runs(q)
    BY <2>2 DEF ApplyInv, Runs, AtApply
  <2> QED BY <2>2, <2>5, <2>6, <2>7, GoesOn
<1> QED BY <1>1, <1>3, <1>4, <1>5, BlockedKeeps

LEMMA PlanDoneKeeps ==
    ASSUME SessionInv, NEW r \in Requests, UNCHANGED asked, PlanDone(r)
    PROVE  SessionInv'
<1> DEFINE q == req[r]
           outcome == FinalOfPlan(q.prompt, q.plan, q.fallback, q.observed)
<1>1. /\ q.pc = "steps" /\ q.tries = Len(q.plan) /\ Finish(r, outcome)
      /\ UNCHANGED <<current, pending, disk>> /\ PendingInv(pending')
  BY DEF PlanDone, SessionInv
<1>2. outcome \in Outcomes
  BY DEF FinalOfPlan, Outcomes
<1>3. outcome = "reported" => q.observed
  <2>1. /\ q.plan \in Seq(StepType) /\ q.observed \in BOOLEAN
        /\ q.fallback \in {"analysis", "audit"} => q.plan = AuditPlan
        /\ \A i \in 1..Len(q.plan) : /\ q.plan[i].tool \notin Unavailable
                                     /\ q.plan[i].tool = "none" \/ q.observed
    BY <1>1, RequestFacts DEF PlanInv
  <2> HIDE DEF q
  <2> QED BY <2>1, ReportObserved
<1> HIDE DEF outcome
<1> QED BY <1>1, <1>2, <1>3, FinishKeeps

LEMMA EditFileKeeps ==
    ASSUME SessionInv, NEW f \in Files, NEW text \in Texts, EditFile(f, text)
    PROVE  SessionInv'
<1> DEFINE new == [text |-> text, edits |-> disk[f].edits + 1]
<1>1. /\ disk \in [Files -> Content] /\ disk["fixture"].edits \in Nat
      /\ disk["other"].edits \in Nat /\ f \in {"fixture", "other"}
  BY DEF SessionInv, Files, Content
<1>2. disk[f].edits + 1 \in 0..MaxEdits
  BY <1>1, RequestsAssumption DEF EditFile
<1>3. new \in Content
  BY <1>2 DEF Content
<1>4. disk' \in [Files -> Content]
  BY <1>1, <1>3 DEF EditFile
<1> QED BY <1>4 DEF EditFile, SessionInv, session
----------------------------------------------------------------------------
LEMMA InitInv == Init => SessionInv
<1> SUFFICES ASSUME Init PROVE SessionInv
  OBVIOUS
<1>1. ApplyInv(Idle) /\ PlanInv(Idle)
  BY DEF ApplyInv, PlanInv, AtApply, Idle
<1>2. RequestsInv(req)
  BY <1>1, IdleTyped DEF Init, RequestsInv
<1>3. StatusInv(current, status, asked) /\ status[current] = "Ready"
  BY RequestsAssumption DEF Init, StatusInv, Objects
<1>4. PendingInv(pending)
  BY NoPatchTyped DEF Init, PendingInv
<1>5. disk \in [Files -> Content]
  BY RequestsAssumption DEF Init, Content, Texts
<1> QED BY <1>2, <1>3, <1>4, <1>5 DEF SessionInv, BusyInv

LEMMA SettleKeeps ==
    ASSUME SessionInv, NEW r \in Requests, Settle(r), UNCHANGED asked
    PROVE  SessionInv'
<1>1. CASE \/ Fails(r) \/ Answered(r) \/ EditRefused(r) \/ ReadFails(r) \/ WriteFails(r)
           \/ Delegated(r)
  BY <1>1, FailsKeeps
<1>2. CASE Chat(r) \/ ChatSettles(r) \/ CreatePatch(r)
  BY <1>2, ChatKeeps, ChatSettlesKeeps, CreatePatchKeeps
<1>3. CASE \E choice \in {"Apply", "cancel"} : Confirm(r, choice)
  BY <1>3, ConfirmKeeps
<1>4. CASE ReadOne(r) \/ ApplyEdit(r) \/ Applied(r)
  BY <1>4, ReadOneKeeps, ApplyEditKeeps, AppliedKeeps
<1>5. CASE DispatchPrompt(r) \/ Propose(r)
  BY <1>5, DispatchPromptKeeps, ProposeKeeps
<1>6. CASE CheckContext(r) \/ PersistRead(r) \/ PersistWrite(r) \/ Verify(r)
  BY <1>6, CheckContextKeeps, PersistReadKeeps, PersistWriteKeeps, VerifyKeeps
<1>7. CASE \E d \in Decisions : PlannerAnswers(r, d) \/ Repair(r, d)
  BY <1>7, PlannerAnswersKeeps, RepairKeeps
<1>8. CASE Fallback(r) \/ PlanStep(r) \/ PlanDone(r)
  BY <1>8, FallbackKeeps, PlanStepKeeps, PlanDoneKeeps
<1> QED BY <1>1, <1>2, <1>3, <1>4, <1>5, <1>6, <1>7, <1>8 DEF Settle

LEMMA StepKeeps == SessionInv /\ [Next]_vars => SessionInv'
<1> SUFFICES ASSUME SessionInv, [Next]_vars PROVE SessionInv'
  OBVIOUS
<1>1. CASE \E r \in Requests : Ask(r)
  BY <1>1, BeginKeeps, ResetKeeps, ApplyKeeps DEF Ask
<1>2. CASE \E r \in Requests : Settle(r) /\ UNCHANGED asked
  BY <1>2, SettleKeeps
<1>3. CASE \E f \in Files, text \in Texts : EditFile(f, text)
  BY <1>3, EditFileKeeps
<1>4. CASE UNCHANGED vars
  BY <1>4 DEF vars, session, SessionInv
<1> QED BY <1>1, <1>2, <1>3, <1>4 DEF Next

\* The invariant of a session and the requests that share it.
LEMMA SessionsCorrect == Spec => []SessionInv
  BY InitInv, StepKeeps, PTL DEF Spec

\* Every variable keeps its type: the session objects, the patches, the files and all
\* that a request of handleCommand holds between two awaits.
THEOREM RequestsTyped == Spec => []TypeOK
<1>1. SessionInv => TypeOK
  BY DEF SessionInv, RequestsInv, StatusInv, PendingInv, TypeOK
<1> QED BY <1>1, SessionsCorrect, PTL

\* Whatever requests failed, were cancelled or were overtaken by a reset, a session whose
\* requests are all done, or await no more than a chat's answer, says Ready
\* (handleCommand's "finally").
THEOREM IdleReady == Spec => []IdleIsReady
<1>1. SessionInv => IdleIsReady
  BY DEF SessionInv, BusyInv, StatusInv, IdleIsReady, Running, Free, Runs
<1> QED BY <1>1, SessionsCorrect, PTL

\* Whatever the planner answers and whichever plan the supervisor falls back on, a
\* report is made only after an observation of the same run (runBoundedAgent).
THEOREM ReportsObserved == Spec => []ReportsAreObserved
<1>1. SessionInv => ReportsAreObserved
  BY DEF SessionInv, RequestsInv, PlanInv, ReportsAreObserved
<1> QED BY <1>1, SessionsCorrect, PTL
----------------------------------------------------------------------------
\* A step of one request is a step of no other.
LEMMA OneRequestMoves ==
    ASSUME SessionInv, NEW r \in Requests, Settle(r) \/ Ask(r),
           NEW s \in Requests, req'[s] # req[s]
    PROVE  s = r
<1>1. \E q : req' = [req EXCEPT ![r] = q]
  BY DEF Settle, Ask, Begin, Reset, Apply, Fails, Answered, EditRefused, ReadFails, WriteFails,
         Delegated, Chat, ChatSettles, CreatePatch, Confirm, ReadOne, ApplyEdit, Applied, DispatchPrompt,
         ApplyIntent, Propose, CheckContext, PersistRead, PersistWrite, Verify, PlannerAnswers,
         Adopt, Repair, Fallback, PlanStep, PlanDone, Finish, Blocked, Go
<1> QED BY <1>1 DEF SessionInv, RequestsInv

\* Only the edit of an apply and the writes of the approval boundary touch a file.
LEMMA WritersOnly ==
    ASSUME NEW r \in Requests, Settle(r) \/ Ask(r), disk' # disk
    PROVE  ApplyEdit(r) \/ PersistWrite(r)
  BY DEF Settle, Ask, Begin, Reset, Apply, Fails, Answered, EditRefused, ReadFails, WriteFails,
         Delegated, Chat, ChatSettles, CreatePatch, Confirm, ReadOne, Applied, DispatchPrompt, Propose,
         CheckContext, PersistRead, Verify, PlannerAnswers, Repair, Fallback, PlanStep, PlanDone,
         session

\* No request writes a file without the user's approval, and none that an approval phrase
\* started writes when its prompt names another file than the patch.
THEOREM WritesApproved == Spec => WritesAreApproved
<1>1. ASSUME SessionInv, [Next]_vars
      PROVE  [\A r \in Requests : disk' # disk /\ req'[r] # req[r] =>
                /\ req[r].approved
                /\ req[r].command = "agent" => req[r].prompt.path # "other"]_vars
  <2> SUFFICES ASSUME NEW r \in Requests, disk' # disk, req'[r] # req[r]
               PROVE  /\ req[r].approved
                      /\ req[r].command = "agent" => req[r].prompt.path # "other"
    OBVIOUS
  <2>1. PICK s \in Requests : Settle(s) \/ Ask(s)
    BY <1>1 DEF Next, EditFile, vars
  <2>2. r = s
    BY <1>1, <2>1, OneRequestMoves
  <2>3. req[r].pc \in {"edit", "write"}
    BY <2>1, <2>2, WritersOnly DEF ApplyEdit, PersistWrite
  <2> QED BY <1>1, <2>3, RequestFacts DEF ApplyInv, AtApply
<1> QED BY <1>1, SessionsCorrect, PTL DEF Spec, WritesAreApproved
=============================================================================
