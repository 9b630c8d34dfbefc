---------------------------- MODULE WorkSession ----------------------------
(***************************************************************************)
(* The gateway's agent loop and the work session it persists:              *)
(* runGatewayAgentToolLoop (gateway/src/agent/toolLoop.ts) with the kernel  *)
(* (workSession/kernel.ts), resume validation (workSession/resume.ts) and   *)
(* the worktree calls the loop makes (workSession/worktreeSandbox.ts).      *)
(*                                                                         *)
(* A loop is one chat request being served.  Every await of the loop at     *)
(* which another loop, the user or a crash can intervene ends an action.    *)
(* What survives a crash of the gateway is the workspace: the session       *)
(* records (disk), the worktrees and their manifests, and the source.       *)
(***************************************************************************)
EXTENDS Integers, FiniteSets

CONSTANTS
    Loops,         \* concurrent invocations of runGatewayAgentToolLoop
    Sessions,      \* the session ids randomUUID can return
    Tasks,         \* (task hash, task class) pairs
    Requests,      \* the requests clients send
    ModelActions,  \* the classes of tool intents the model can answer with
    NoLoop,        \* the value of a loop variable while no request is served
    MaxHead,       \* bound: commits the user makes to the source
    MaxRuns,       \* bound: where the count of tools that ran saturates
    MaxFaults,     \* bound: crashes and failed writes of a record, and as many throws
    LocalIgnored,  \* does the workspace's .gitignore cover .local/ ?
    DiskFaults,    \* may a write of a session record fail ?
    Disturbances   \* what the user does meanwhile: "edits", "aborts"

Buckets == {"readOps", "searchOps", "editOps", "validationOps"}
Counters == Buckets \cup {"modelTurns", "toolExecutions"}
FinalReports == {"final_report", "final_report_blocked"}
Terminal == {"completed", "blocked"}
Unlimited == {"auto", "none"}

\* A request as routes/chat.ts hands it to the loop.  overrides is the toolBudget
\* it carries, negative where it leaves the default.
RequestType ==
    [task : Tasks, strict : BOOLEAN, maxSteps : Int, maxRepairAttempts : Int,
     resume : Sessions \cup Unlimited, allowStale : BOOLEAN, eager : BOOLEAN,
     cleanup : BOOLEAN, overrides : [Counters -> Int]]

ASSUME RequestsAssumption == Requests \subseteq RequestType
ASSUME BoundsAssumption ==
    /\ MaxHead \in Nat /\ MaxFaults \in Nat /\ MaxRuns \in Nat
    /\ LocalIgnored \in BOOLEAN /\ DiskFaults \in BOOLEAN
    /\ Disturbances \subseteq {"edits", "aborts"}
    /\ ModelActions \subseteq Buckets \cup FinalReports \cup {"other", "none"}
    /\ Sessions \cap Unlimited = {}

VARIABLES
    disk,         \* .local/agent-work-sessions/<id>.json
    allocated,    \* session ids handed out so far
    worktree,     \* the session's worktree, as git knows it
    manifest,     \* .local/agent-worktrees/<id>.json
    head,         \* HEAD of the source workspace
    userDirty,    \* uncommitted changes of the user in the source
    sourceEdited, \* uncommitted changes of an agent in the source
    pc, sess, req, rec, index, repairs, result, final, aborted, journal,
    faults,       \* how many faults have happened
    ran,          \* history: how many tools of each session ran or wrote to a file
    throws        \* history: how many requests an edit ended by throwing after it wrote

loopVars == <<pc, sess, req, rec, index, repairs, result, final, aborted, journal>>
repoVars == <<head, userDirty, sourceEdited>>
boxVars == <<worktree, manifest>>
vars == <<disk, allocated, boxVars, repoVars, loopVars, faults, ran, throws>>
----------------------------------------------------------------------------
Clamp(n, lo, hi) == IF n < lo THEN lo ELSE IF n > hi THEN hi ELSE n
Larger(a, b) == IF a > b THEN a ELSE b
MaxStepsOf(r) == Clamp(r.maxSteps, 1, 24)
MaxRepairsOf(r) == Clamp(r.maxRepairAttempts, 1, 3)

\* defaultWorkSessionToolBudget
DefaultBudget(steps) ==
    [c \in Counters |->
        CASE c = "readOps"       -> Larger(4, 3 * Clamp(steps, 1, 24))
          [] c = "searchOps"     -> Larger(3, 2 * Clamp(steps, 1, 24))
          [] c = "editOps"       -> Clamp(steps, 1, 8)
          [] c = "validationOps" -> Clamp(steps, 1, 6)
          [] OTHER               -> Clamp(steps, 1, 24)]

Budget(r) ==
    [c \in Counters |-> IF r.overrides[c] >= 0 THEN r.overrides[c]
                        ELSE DefaultBudget(MaxStepsOf(r))[c]]

\* captureWorkSessionWorkspaceState: HEAD and what `git status' lists.  The
\* records under .local/ are listed too unless the workspace ignores them.
WorkspaceState ==
    [head |-> head, user |-> userDirty, agent |-> sourceEdited,
     records |-> IF LocalIgnored THEN {} ELSE {s \in Sessions : disk[s].status # "absent"},
     manifests |-> IF LocalIgnored THEN {} ELSE {s \in Sessions : manifest[s] # "none"}]

WorkspaceStates ==
    [head : Nat, user : BOOLEAN, agent : BOOLEAN,
     records : SUBSET Sessions, manifests : SUBSET Sessions]

\* createWorkSessionKernel.  step is checkpoint.next_step, 0 without checkpoint.
NewKernel(r) ==
    [status |-> "running", task |-> r.task, budget |-> Budget(r),
     used |-> [c \in Counters |-> 0], step |-> 0, repairs |-> 0,
     ws |-> WorkspaceState, box |-> FALSE, stale |-> FALSE]

Kernels ==
    [status : {"running", "completed", "blocked", "interrupted"}, task : Tasks,
     budget : [Counters -> Nat], used : [Counters -> Nat], step : Nat,
     repairs : Nat, ws : WorkspaceStates, box : BOOLEAN, stale : BOOLEAN]
NoRecord == [status |-> "absent"]

\* Mutant: the tool that reaches the limit may run once more.
BudgetAllowsOneMore(k, action) ==
    /\ k.used["modelTurns"] <= k.budget["modelTurns"]
    /\ action \in Buckets => k.used[action] <= k.budget[action]
\* Mutant: the limit on model turns is not looked at.
BudgetAllowsAnyTurn(k, action) ==
    /\ action \notin FinalReports \cup {"none"}
          => k.used["toolExecutions"] < k.budget["toolExecutions"]
    /\ action \in Buckets => k.used[action] < k.budget[action]
\* evaluateWorkSessionBudget
BudgetAllows(k, action) ==
    /\ k.used["modelTurns"] <= k.budget["modelTurns"]
    /\ action \notin FinalReports \cup {"none"}
          => k.used["toolExecutions"] < k.budget["toolExecutions"]
    /\ action \in Buckets => k.used[action] < k.budget[action]

\* recordWorkSessionModelTurn
TurnRecorded(k) == [k EXCEPT !.used["modelTurns"] = @ + 1]

\* recordWorkSessionToolResult
ToolRecorded(k, res) ==
    [k EXCEPT !.used = [c \in Counters |->
        IF /\ res.executed /\ res.action \notin FinalReports
           /\ c \in {"toolExecutions", res.action}
        THEN k.used[c] + 1 ELSE k.used[c]]]

\* Mutant: the checkpoint names the step just done as the next one.
CheckpointedSameStep(k, step, attempts) ==
    [k EXCEPT !.step = step - 1, !.repairs = attempts]
\* setWorkSessionCheckpoint
Checkpointed(k, step, attempts) == [k EXCEPT !.step = step, !.repairs = attempts]
----------------------------------------------------------------------------
Actions == Buckets \cup FinalReports \cup {"other", "none"}
Categories == {"none", "unsafe", "ambiguous", "cancelled", "sandbox", "budget", "malformed"}
Results ==
    [action : Actions, executed : BOOLEAN, allowed : BOOLEAN,
     category : Categories, validation : {"passed", "failed", "not_validation"}]

Refused(action, category) ==
    [action |-> action, executed |-> FALSE, allowed |-> FALSE,
     category |-> category, validation |-> "not_validation"]
Ran(action) ==
    [action : {action}, executed : BOOLEAN, allowed : {TRUE}, category : {"none"},
     validation : {"passed", "failed", "not_validation"}]
NoResult == Refused("none", "none")

\* Mutant: a validation command that hangs is never given up.
ToolOutcomesNoTimeout(action) ==
    {res \in Ran(action) : /\ action # "validationOps"
                           /\ res.executed /\ res.validation = "not_validation"}
\* The results executeGatewayWorkspaceTool can reach for an allowed intent: a
\* path or argument error is allowed but not executed, and only a validation
\* action that ran has a verdict.
ToolOutcomes(action) ==
    {res \in Ran(action) :
        /\ action \in FinalReports => res.executed
        /\ res.validation # "not_validation" => res.executed /\ action = "validationOps"}

\* Where the loop's tools run.
InSource(l) == ~rec[l].box

Idle(l) == pc[l] = "idle"
Goto(l, label) == pc' = [pc EXCEPT ![l] = label]
SetRec(l, k) == rec' = [rec EXCEPT ![l] = k]

\* The request's call stack is gone: returned, thrown or killed with the gateway.
Forget(ls) ==
    /\ pc' = [l \in Loops |-> IF l \in ls THEN "idle" ELSE pc[l]]
    /\ sess' = [l \in Loops |-> IF l \in ls THEN NoLoop ELSE sess[l]]
    /\ req' = [l \in Loops |-> IF l \in ls THEN NoLoop ELSE req[l]]
    /\ rec' = [l \in Loops |-> IF l \in ls THEN NoLoop ELSE rec[l]]
    /\ index' = [l \in Loops |-> IF l \in ls THEN 0 ELSE index[l]]
    /\ repairs' = [l \in Loops |-> IF l \in ls THEN 0 ELSE repairs[l]]
    /\ result' = [l \in Loops |-> IF l \in ls THEN NoResult ELSE result[l]]
    /\ final' = [l \in Loops |-> IF l \in ls THEN "max_steps_reached" ELSE final[l]]
    /\ aborted' = [l \in Loops |-> IF l \in ls THEN FALSE ELSE aborted[l]]
    /\ journal' = [l \in Loops |-> IF l \in ls THEN "empty" ELSE journal[l]]

\* persistWorkSessionKernel: a temporary file renamed over the record, so it
\* is replaced as a whole or, when the write fails, not at all.
Persist(l) ==
    \/ disk' = [disk EXCEPT ![sess[l]] = rec[l]] /\ UNCHANGED faults
    \/ /\ DiskFaults /\ faults < MaxFaults
       /\ faults' = faults + 1 /\ UNCHANGED disk
----------------------------------------------------------------------------
(* Starting or resuming a session *)

\* Mutant: a session whose gateway died is not looked for.
ResumableInterrupted(r) ==
    {s \in Sessions : /\ disk[s].status = "interrupted"
                      /\ disk[s].task = r.task /\ disk[s].step > 0}
\* findLatestResumableWorkSession.  Which match is the latest depends on
\* wall-clock times and is left open.
Resumable(r) ==
    {s \in Sessions : /\ disk[s].status \in {"running", "interrupted"}
                      /\ disk[s].task = r.task
                      /\ disk[s].step > 0}

\* The session a request resumes: the one it names or, on auto, a match.
Resumes(r, s) ==
    \/ r.resume = s /\ disk[s].status # "absent"
    \/ r.resume = "auto" /\ s \in Resumable(r)

\* validateWorkSessionResume
WorkspaceChanged(k) == k.ws # WorkspaceState
\* Mutant: a finished session may be resumed too.
ResumeAllowedWhenDone(k, r) ==
    k.task = r.task /\ k.step > 0 /\ (~WorkspaceChanged(k) \/ r.allowStale)
ResumeAllowed(k, r) ==
    /\ k.task = r.task
    /\ k.step > 0
    /\ k.status \notin Terminal
    /\ ~WorkspaceChanged(k) \/ r.allowStale

\* Only a record that passes the earlier checks is compared with the workspace.
MarkedStale(k, r) ==
    /\ k.task = r.task /\ k.step > 0 /\ k.status \notin Terminal
    /\ WorkspaceChanged(k)

Resumed(k, r) ==
    [k EXCEPT !.status = IF ResumeAllowed(k, r) THEN "running" ELSE "blocked",
              !.ws = IF ResumeAllowed(k, r) THEN WorkspaceState ELSE @,
              !.stale = @ \/ MarkedStale(k, r)]

Enter(l, r, s, k, label) ==
    /\ Goto(l, label)
    /\ sess' = [sess EXCEPT ![l] = s]
    /\ req' = [req EXCEPT ![l] = r]
    /\ SetRec(l, k)
    /\ repairs' = [repairs EXCEPT ![l] = k.repairs]
    /\ index' = [index EXCEPT ![l] = IF k.step > 0 THEN k.step ELSE 1]
    /\ UNCHANGED <<result, final, aborted, journal>>

\* A refused resume, and one whose worktree was already removed, end blocked.
Resume(l, r, s) ==
    /\ Idle(l)
    /\ Resumes(r, s)
    /\ LET k == Resumed(disk[s], r)
           cleaned == k.box /\ manifest[s] = "cleaned"
       IN IF ~ResumeAllowed(disk[s], r) THEN Enter(l, r, s, k, "rejected")
          ELSE IF cleaned THEN Enter(l, r, s, [k EXCEPT !.status = "blocked"], "rejected")
          ELSE Enter(l, r, s, k, "begin")
    /\ UNCHANGED <<disk, allocated, boxVars, repoVars, faults, ran, throws>>

StartFresh(l, r, s) ==
    /\ Idle(l)
    /\ \/ r.resume = "none"
       \/ r.resume = "auto" /\ Resumable(r) = {}
    /\ s \in Sessions \ allocated
    /\ allocated' = allocated \cup {s}
    /\ Enter(l, r, s, NewKernel(r), IF r.eager THEN "eager" ELSE "begin")
    /\ UNCHANGED <<disk, boxVars, repoVars, faults, ran, throws>>

\* createWorktreeSandbox: refused on a source that is not clean; `rm' of the
\* path, then `git worktree add', which fails on a path still registered.
CreateWorktree(s) ==
    IF userDirty \/ sourceEdited
    THEN UNCHANGED boxVars
    ELSE /\ worktree' = [worktree EXCEPT ![s] = IF @ = "absent" THEN "live" ELSE "missing"]
         /\ manifest' = [manifest EXCEPT ![s] = IF worktree[s] = "absent" THEN "live" ELSE @]
WorktreeCreated(s) == ~userDirty /\ ~sourceEdited /\ worktree[s] = "absent"

EagerSandbox(l) ==
    /\ pc[l] = "eager"
    /\ CreateWorktree(sess[l])
    /\ IF WorktreeCreated(sess[l])
       THEN SetRec(l, [rec[l] EXCEPT !.box = TRUE]) /\ Goto(l, "begin")
       ELSE SetRec(l, [rec[l] EXCEPT !.status = "blocked"]) /\ Goto(l, "rejected")
    /\ UNCHANGED <<disk, allocated, repoVars, sess, req, index, repairs, result,
                   final, aborted, journal, faults, ran, throws>>

Rejected(l) ==
    /\ pc[l] = "rejected"
    /\ Persist(l)
    /\ Forget({l})
    /\ UNCHANGED <<allocated, boxVars, repoVars, ran, throws>>

Begin(l) ==
    /\ pc[l] = "begin"
    /\ Persist(l)
    /\ Goto(l, "turn")
    /\ UNCHANGED <<allocated, boxVars, repoVars, sess, req, rec, index, repairs, result,
                   final, aborted, journal, ran, throws>>
----------------------------------------------------------------------------
(* One iteration of the loop *)

\* The head of the for loop, with the abort check before the model is asked.
Turn(l) ==
    /\ pc[l] = "turn"
    /\ LET stop == index[l] > MaxStepsOf(req[l])
       IN /\ Goto(l, IF stop \/ aborted[l] THEN "finish" ELSE "chat")
          /\ final' = [final EXCEPT ![l] = IF ~stop /\ aborted[l] THEN "blocked" ELSE @]
    /\ UNCHANGED <<disk, allocated, boxVars, repoVars, sess, req, rec, index, repairs,
                   result, aborted, journal, faults, ran, throws>>

\* client.chat rejects (model down, timeout, abort) and the whole call with it.
ChatFails(l) ==
    /\ pc[l] = "chat"
    /\ Forget({l})
    /\ UNCHANGED <<disk, allocated, boxVars, repoVars, faults, ran, throws>>

\* Mutant: only a session's first turns ask for a worktree.
NeedsWorktreeAtStart(l, action) ==
    req[l].strict /\ action = "editOps" /\ ~rec[l].box /\ rec[l].step = 0
NeedsWorktree(l, action) == req[l].strict /\ action = "editOps" /\ ~rec[l].box

\* A strict answer without a valid envelope is a repair turn: no tool, no budget.
InvalidAnswer(l) ==
    /\ pc[l] = "chat" /\ req[l].strict
    /\ SetRec(l, TurnRecorded(rec[l]))
    /\ repairs' = [repairs EXCEPT ![l] = @ + 1]
    /\ result' = [result EXCEPT ![l] = Refused("none", "malformed")]
    /\ Goto(l, "ran")
    /\ UNCHANGED <<disk, allocated, boxVars, repoVars, sess, req, index, final,
                   aborted, journal, faults, ran, throws>>

\* A valid envelope always names a tool; without the strict protocol the intent
\* may be missing.
ToolAnswer(l, action, safe) ==
    /\ pc[l] = "chat"
    /\ req[l].strict => action # "none"
    /\ SetRec(l, TurnRecorded(rec[l]))
    /\ result' = [result EXCEPT ![l] = Refused(action,
                    IF action = "none" THEN "ambiguous" ELSE IF safe THEN "none" ELSE "unsafe")]
    /\ Goto(l, IF NeedsWorktree(l, action) THEN "lazy" ELSE "tool")
    /\ UNCHANGED <<disk, allocated, boxVars, repoVars, sess, req, index, repairs, final,
                   aborted, journal, faults, ran, throws>>

\* The first mutation of a strict session creates its worktree; when that
\* fails the tool is refused.
LazySandbox(l) ==
    /\ pc[l] = "lazy"
    /\ CreateWorktree(sess[l])
    /\ IF WorktreeCreated(sess[l])
       THEN /\ SetRec(l, [rec[l] EXCEPT !.box = TRUE])
            /\ Goto(l, "tool")
            /\ UNCHANGED result
       ELSE /\ result' = [result EXCEPT ![l] = Refused(@.action, "sandbox")]
            /\ Goto(l, "ran")
            /\ UNCHANGED rec
    /\ UNCHANGED <<disk, allocated, repoVars, sess, req, index, repairs, final,
                   aborted, journal, faults, ran, throws>>

\* The refusals that come before a tool runs, in the code's order: the budget,
\* the abort signal, then the verdict of evaluateToolIntentPolicy.
Refusal(l) ==
    LET action == result[l].action
    IN IF ~BudgetAllows(rec[l], action) THEN "budget"
       ELSE IF aborted[l] THEN "cancelled"
       ELSE result[l].category

RefuseTool(l) ==
    /\ pc[l] = "tool"
    /\ Refusal(l) # "none"
    /\ result' = [result EXCEPT ![l] = Refused(@.action, Refusal(l))]
    /\ Goto(l, "ran")
    /\ UNCHANGED <<disk, allocated, boxVars, repoVars, sess, req, rec, index, repairs, final,
                   aborted, journal, faults, ran, throws>>

\* An edit may have written files even when it reports that it did not apply, and a
\* validation command may write where it runs.
Wrote(outcome) ==
    IF outcome.action \notin {"editOps", "validationOps"} THEN {FALSE}
    ELSE IF outcome.action = "editOps" /\ outcome.executed THEN {TRUE}
    ELSE IF outcome.action = "validationOps" /\ ~outcome.executed THEN {FALSE}
    ELSE BOOLEAN

\* One more tool of the loop's session has run.
OneMoreRan(l) == ran' = [ran EXCEPT ![sess[l]] = IF @ < MaxRuns THEN @ + 1 ELSE @]

\* The first edit of a file snapshots it in the loop's journal.
RunTool(l, outcome) ==
    /\ pc[l] = "tool"
    /\ Refusal(l) = "none"
    /\ result' = [result EXCEPT ![l] = outcome]
    /\ \E wrote \in Wrote(outcome) :
          /\ sourceEdited' = (sourceEdited \/ (wrote /\ InSource(l)))
          /\ journal' = [journal EXCEPT ![l] =
                IF wrote /\ outcome.action = "editOps" /\ InSource(l) THEN "edits" ELSE @]
          /\ IF wrote \/ (outcome.executed /\ outcome.action \notin FinalReports)
             THEN OneMoreRan(l) ELSE UNCHANGED ran
    /\ Goto(l, "ran")
    /\ UNCHANGED <<disk, allocated, boxVars, head, userDirty, sess, req, rec, index,
                   repairs, final, aborted, faults, throws>>

\* An edit of a file that cannot be read or written throws (replaceInFile and
\* editLineRange read it unguarded, the second file of a patch may be a directory) and
\* rejects the whole call: nothing of this turn is recorded, whatever it wrote before.
ToolThrows(l) ==
    /\ pc[l] = "tool" /\ Refusal(l) = "none"
    /\ result[l].action = "editOps"
    /\ \/ UNCHANGED <<sourceEdited, ran, throws>>
       \/ /\ throws < MaxFaults
          /\ throws' = throws + 1
          /\ OneMoreRan(l)
          /\ sourceEdited' = (sourceEdited \/ InSource(l))
    /\ Forget({l})
    /\ UNCHANGED <<disk, allocated, boxVars, head, userDirty, faults>>

\* A tool that ran to its end is reported cancelled once the signal is aborted.
Reported(l) ==
    IF aborted[l] /\ result[l].allowed
    THEN [result[l] EXCEPT !.executed = FALSE, !.category = "cancelled",
                           !.validation = "not_validation"]
    ELSE result[l]

\* After a tool: roll the journal back on a failed validation, account for the
\* result and take the checkpoint (in memory).  A rollback in the source may fail, and
\* what commands wrote stays: EditJournal has the files.
ToolReturns(l) ==
    /\ pc[l] = "ran"
    /\ LET res == Reported(l)
           undo == res.validation = "failed" /\ journal[l] # "empty"
       IN /\ result' = [result EXCEPT ![l] = res]
          /\ IF undo THEN /\ sourceEdited' \in BOOLEAN
                          /\ \E left \in {"empty", "edits"} :
                                journal' = [journal EXCEPT ![l] = left]
             ELSE UNCHANGED <<sourceEdited, journal>>
          /\ SetRec(l, Checkpointed(ToolRecorded(rec[l], res), index[l] + 1, repairs[l]))
    /\ Goto(l, "save")
    /\ UNCHANGED <<disk, allocated, boxVars, head, userDirty, sess, req, index, repairs,
                   final, aborted, faults, ran, throws>>

RepairsExhausted(l) ==
    result[l].category = "malformed" /\ repairs[l] >= MaxRepairsOf(req[l])

\* Mutant: the session status of a loop that stops early in place of its own.
ExitStatusOfSession(l) ==
    IF RepairsExhausted(l) THEN "interrupted"
    ELSE IF result[l].action \in FinalReports THEN "completed" ELSE ""
\* The exits of the loop body, in the code's order; "" goes on.
ExitStatus(l) ==
    LET res == result[l]
    IN IF RepairsExhausted(l) \/ res.action = "final_report_blocked" THEN "blocked"
       ELSE IF res.action \in FinalReports THEN "completed"
       ELSE IF ~res.allowed /\ res.category \notin {"unsafe", "malformed"} THEN "blocked"
       ELSE IF index[l] >= MaxStepsOf(req[l])
            THEN IF res.allowed THEN "completed" ELSE "blocked"
       ELSE ""

Save(l) ==
    /\ pc[l] = "save"
    /\ Persist(l)
    /\ IF ExitStatus(l) = ""
       THEN /\ index' = [index EXCEPT ![l] = @ + 1]
            /\ result' = [result EXCEPT ![l] = NoResult]
            /\ Goto(l, "turn") /\ UNCHANGED final
       ELSE /\ final' = [final EXCEPT ![l] = ExitStatus(l)]
            /\ Goto(l, "finish") /\ UNCHANGED <<index, result>>
    /\ UNCHANGED <<allocated, boxVars, repoVars, sess, req, rec, repairs, aborted, journal, ran, throws>>
----------------------------------------------------------------------------
(* Finishing: finalizeWorkSessionKernel, finalizeWorktreeSandbox, last persist *)

\* Mutant: only a blocked loop puts its worktree away.
SandboxDoneWhenBlocked(l) == rec[l].box /\ final[l] = "blocked"
SandboxDone(l) == rec[l].box /\ final[l] # "max_steps_reached"

Finish(l) ==
    /\ pc[l] = "finish"
    /\ SetRec(l, [rec[l] EXCEPT !.status =
                    IF final[l] = "max_steps_reached" THEN "interrupted" ELSE final[l]])
    /\ Goto(l, IF SandboxDone(l) THEN "diff" ELSE "final")
    /\ UNCHANGED <<disk, allocated, boxVars, repoVars, sess, req, index, repairs, result,
                   final, aborted, journal, faults, ran, throws>>

\* git add, git diff and the patch file, then git worktree remove: both fail in
\* a worktree that is gone, and the session is blocked.
SandboxRemove(l) ==
    /\ pc[l] = "diff"
    /\ IF worktree[sess[l]] = "live"
       THEN /\ worktree' = [worktree EXCEPT ![sess[l]] = IF req[l].cleanup THEN "absent" ELSE @]
            /\ Goto(l, "manifest") /\ UNCHANGED <<rec, final>>
       ELSE /\ SetRec(l, [rec[l] EXCEPT !.status = "blocked"])
            /\ final' = [final EXCEPT ![l] = "blocked"]
            /\ Goto(l, "final") /\ UNCHANGED worktree
    /\ UNCHANGED <<disk, allocated, manifest, repoVars, sess, req, index, repairs, result,
                   aborted, journal, faults, ran, throws>>

SandboxManifest(l) ==
    /\ pc[l] = "manifest"
    /\ manifest' = [manifest EXCEPT ![sess[l]] = IF req[l].cleanup THEN "cleaned" ELSE @]
    /\ Goto(l, "final")
    /\ UNCHANGED <<disk, allocated, worktree, repoVars, sess, req, rec, index, repairs, result,
                   final, aborted, journal, faults, ran, throws>>

FinalPersist(l) ==
    /\ pc[l] = "final"
    /\ Persist(l)
    /\ Forget({l})
    /\ UNCHANGED <<allocated, boxVars, repoVars, ran, throws>>
----------------------------------------------------------------------------
(* The environment *)

\* The client disconnects or cancels: server.ts aborts the request's signal.
Abort(l) ==
    /\ "aborts" \in Disturbances
    /\ ~Idle(l) /\ ~aborted[l]
    /\ aborted' = [aborted EXCEPT ![l] = TRUE]
    /\ UNCHANGED <<disk, allocated, boxVars, repoVars, pc, sess, req, rec, index, repairs,
                   result, final, journal, faults, ran, throws>>

\* The gateway process dies: every loop is lost, the workspace stays.
Crash ==
    /\ faults < MaxFaults
    /\ \E l \in Loops : ~Idle(l)
    /\ faults' = faults + 1
    /\ Forget(Loops)
    /\ UNCHANGED <<disk, allocated, boxVars, repoVars, ran, throws>>

EditSource ==
    /\ "edits" \in Disturbances
    /\ userDirty' = ~userDirty
    /\ UNCHANGED <<disk, allocated, boxVars, head, sourceEdited, loopVars, faults, ran, throws>>

CommitSource ==
    /\ head < MaxHead
    /\ head' = head + 1
    /\ userDirty' = FALSE /\ sourceEdited' = FALSE
    /\ UNCHANGED <<disk, allocated, boxVars, loopVars, faults, ran, throws>>
----------------------------------------------------------------------------
Init ==
    /\ disk = [s \in Sessions |-> NoRecord]
    /\ allocated = {}
    /\ worktree = [s \in Sessions |-> "absent"]
    /\ manifest = [s \in Sessions |-> "none"]
    /\ head = 0 /\ userDirty = FALSE /\ sourceEdited = FALSE
    /\ pc = [l \in Loops |-> "idle"]
    /\ sess = [l \in Loops |-> NoLoop]
    /\ req = [l \in Loops |-> NoLoop]
    /\ rec = [l \in Loops |-> NoLoop]
    /\ index = [l \in Loops |-> 0]
    /\ repairs = [l \in Loops |-> 0]
    /\ result = [l \in Loops |-> NoResult]
    /\ final = [l \in Loops |-> "max_steps_reached"]
    /\ aborted = [l \in Loops |-> FALSE]
    /\ journal = [l \in Loops |-> "empty"]
    /\ faults = 0
    /\ ran = [s \in Sessions |-> 0] /\ throws = 0

Start(l) ==
    \E r \in Requests, s \in Sessions : Resume(l, r, s) \/ StartFresh(l, r, s)

Answer(l) == InvalidAnswer(l) \/ \E action \in ModelActions, safe \in BOOLEAN : ToolAnswer(l, action, safe)
Tool(l) == \E outcome \in ToolOutcomes(result[l].action) : RunTool(l, outcome)

LoopStep(l) ==
    \/ EagerSandbox(l) \/ Rejected(l) \/ Begin(l)
    \/ Turn(l) \/ ChatFails(l) \/ Answer(l) \/ LazySandbox(l)
    \/ RefuseTool(l) \/ Tool(l) \/ ToolThrows(l) \/ ToolReturns(l) \/ Save(l)
    \/ Finish(l) \/ SandboxRemove(l) \/ SandboxManifest(l) \/ FinalPersist(l)

Next ==
    \/ \E l \in Loops : Start(l) \/ LoopStep(l) \/ Abort(l)
    \/ Crash \/ EditSource \/ CommitSource

Spec == Init /\ [][Next]_vars
----------------------------------------------------------------------------
(* Properties *)

LoopLabels ==
    {"idle", "rejected", "eager", "begin", "turn", "chat", "lazy", "tool", "ran", "save",
     "finish", "diff", "manifest", "final"}

\* Every variable holds a value of its type: records, worktrees and manifests
\* of workSession/*.ts, and a request's locals exactly while it is served.
TypeOK ==
    /\ disk \in [Sessions -> Kernels \cup {NoRecord}]
    /\ allocated \subseteq Sessions
    /\ worktree \in [Sessions -> {"absent", "live", "missing"}]
    /\ manifest \in [Sessions -> {"none", "live", "cleaned"}]
    /\ head \in Nat /\ userDirty \in BOOLEAN /\ sourceEdited \in BOOLEAN
    /\ pc \in [Loops -> LoopLabels]
    /\ sess \in [Loops -> Sessions \cup {NoLoop}]
    /\ req \in [Loops -> Requests \cup {NoLoop}]
    /\ rec \in [Loops -> Kernels \cup {NoLoop}]
    /\ index \in [Loops -> Nat] /\ repairs \in [Loops -> Nat]
    /\ result \in [Loops -> Results]
    /\ final \in [Loops -> {"max_steps_reached", "completed", "blocked"}]
    /\ aborted \in [Loops -> BOOLEAN]
    /\ journal \in [Loops -> {"empty", "edits"}]
    /\ faults \in Nat /\ throws \in Nat /\ ran \in [Sessions -> Nat]
    /\ \A l \in Loops : ~Idle(l) => /\ sess[l] \in Sessions
                                    /\ req[l] \in Requests
                                    /\ rec[l] \in Kernels

\* A session's budget holds over its whole life, however often it is resumed
\* and by however many loops: no record and no loop's copy of one ever counts
\* more executed tools than the budget createWorkSessionKernel gave it.
WithinBudget(k) ==
    \A c \in Buckets \cup {"toolExecutions"} : k.used[c] <= k.budget[c]
BudgetRespected ==
    /\ \A s \in Sessions : disk[s].status # "absent" => WithinBudget(disk[s])
    /\ \A l \in Loops : ~Idle(l) => WithinBudget(rec[l])

\* The checkpoint and the counters of a record belong together: a record saved
\* at next_step n has used n - 1 model turns and no more tools than turns, so a
\* resumed session neither repeats nor skips a step of its budget.
Consistent(k) ==
    /\ k.used["modelTurns"] = IF k.step = 0 THEN 0 ELSE k.step - 1
    /\ k.used["toolExecutions"] <= k.used["modelTurns"]
    /\ \A c \in Buckets : k.used[c] <= k.used["toolExecutions"]
CheckpointMatchesTurns == \A s \in Sessions : disk[s].status # "absent" => Consistent(disk[s])

\* A strict request edits in the worktree of its session, and nothing takes that
\* worktree away while the request is served: only a fault can leave it editing
\* where no worktree is.
EditsIsolated ==
    \A l \in Loops :
        pc[l] = "tool" /\ result[l].action = "editOps" /\ req[l].strict =>
            rec[l].box /\ (worktree[sess[l]] = "live" \/ faults > 0)

\* A record only says completed after the worktree it names was removed, even
\* across crashes between the removal, the manifest and the record (where the
\* requests for its task ask for the clean-up, as the CLI's do).
CleansUp(k) == \A r \in Requests : r.task = k.task => r.cleanup
CompletedRemovedWorktree ==
    \A s \in Sessions :
        disk[s].status = "completed" /\ disk[s].box /\ CleansUp(disk[s]) => worktree[s] = "absent"

\* The budget bounds what really runs and not only what is written down: every tool
\* that runs or writes to a file, reported as executed or not, has been paid for with a
\* turn of the session, except that each crash, each failed write of the record and each
\* edit that throws half-way lets the session forget one.
RunsBounded ==
    \A l \in Loops : ~Idle(l) =>
        ran[sess[l]] <= rec[l].budget["modelTurns"] + faults + throws
----------------------------------------------------------------------------
(* The records implement the ledger of AbstractSession *)

LedgerEntry(k) ==
    IF k.status = "absent" THEN [state |-> "none"]
    ELSE [state |-> IF k.status \in Terminal THEN "ended" ELSE "open",
          task |-> k.task, limit |-> k.budget, spent |-> k.used]
Ledger == INSTANCE AbstractSession
          WITH Kinds <- Buckets, ledger <- [s \in Sessions |-> LedgerEntry(disk[s])]
\* No two loops serve a session at the same time.  The code does not see to it: two
\* requests may resume one record, and the later write of it wins.
OneServer == \A l, m \in Loops : ~Idle(l) /\ ~Idle(m) /\ sess[l] = sess[m] => l = m
\* What is read from a session's record follows the ledger across resumes, crashes and
\* failed writes, as long as OneServer holds: an ended session never reopens, no count
\* goes back, no resume moves the limit or changes the task.
RecordIsLedger == Ledger!Spec
----------------------------------------------------------------------------
\* The gateway's process keeps running the loops it serves, the client keeps
\* asking for its task, and neither the model nor the tools fail for ever.
FairSpec ==
    /\ Spec
    /\ \A l \in Loops : /\ WF_vars(LoopStep(l)) /\ WF_vars(Start(l))
                        /\ SF_vars(Answer(l)) /\ SF_vars(Tool(l))

\* Every request that is served returns, whatever the model answers.
LoopReturns == \A l \in Loops : ~Idle(l) ~> Idle(l)

\* An interrupted session with steps left ends when its task is asked for again,
\* or uses its steps up.
Interrupted(s) == disk[s].status \in {"running", "interrupted"} /\ disk[s].step > 0
StepsUsedUp(s) == Interrupted(s) /\ \E r \in Requests : disk[s].step > MaxStepsOf(r)
SessionEnds ==
    \A s \in Sessions : Interrupted(s) ~> disk[s].status \in Terminal \/ StepsUsedUp(s)

=============================================================================
