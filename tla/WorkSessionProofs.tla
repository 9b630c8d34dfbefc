------------------------- MODULE WorkSessionProofs -------------------------
(***************************************************************************)
(* Theorems about WorkSession, for every number of loops, sessions,        *)
(* requests, faults and commits.                                           *)
(***************************************************************************)
EXTENDS WorkSession, TLAPS

----------------------------------------------------------------------------
(* The operations of the kernel on a record *)

\* The bounded numbers of a request are what Math.max(1, Math.min(n, hi)) gives.
LEMMA ClampType ==
    ASSUME NEW n \in Int, NEW lo \in Nat, NEW hi \in Nat
    PROVE  Clamp(n, lo, hi) \in Nat
BY DEF Clamp

\* createWorkSessionKernel gives every counter a natural number as its budget.
LEMMA BudgetType ==
    ASSUME NEW r \in RequestType
    PROVE  Budget(r) \in [Counters -> Nat]
<1>1. r.maxSteps \in Int /\ r.overrides \in [Counters -> Int]
  BY DEF RequestType
<1>2. MaxStepsOf(r) \in Nat
  BY <1>1, ClampType DEF MaxStepsOf
<1>3. /\ Clamp(MaxStepsOf(r), 1, 24) \in Nat
      /\ Clamp(MaxStepsOf(r), 1, 8) \in Nat
      /\ Clamp(MaxStepsOf(r), 1, 6) \in Nat
  BY <1>2 DEF Clamp
<1>4. DefaultBudget(MaxStepsOf(r)) \in [Counters -> Nat]
  <2> SUFFICES ASSUME NEW c \in Counters
               PROVE  DefaultBudget(MaxStepsOf(r))[c] \in Nat
    BY DEF DefaultBudget
  <2>1. /\ Larger(4, 3 * Clamp(MaxStepsOf(r), 1, 24)) \in Nat
        /\ Larger(3, 2 * Clamp(MaxStepsOf(r), 1, 24)) \in Nat
    BY <1>3 DEF Larger
  <2> QED
    BY <2>1, <1>3 DEF DefaultBudget
<1> QED
  BY <1>1, <1>4 DEF Budget

\* captureWorkSessionWorkspaceState returns a workspace state.
LEMMA WorkspaceStateType ==
    ASSUME TypeOK
    PROVE  WorkspaceState \in WorkspaceStates
BY DEF TypeOK, WorkspaceState, WorkspaceStates

\* A new kernel is a record that has used nothing of its budget.
LEMMA NewKernelFacts ==
    ASSUME TypeOK, NEW r \in Requests
    PROVE  /\ NewKernel(r) \in Kernels
           /\ NewKernel(r).used = [c \in Counters |-> 0]
           /\ NewKernel(r).budget \in [Counters -> Nat]
           /\ NewKernel(r).step = 0
<1>1. r \in RequestType
  BY RequestsAssumption
<1>2. r.task \in Tasks
  BY <1>1 DEF RequestType
<1> QED
  BY <1>1, <1>2, BudgetType, WorkspaceStateType DEF NewKernel, Kernels

\* recordWorkSessionModelTurn changes the turn counter only.
LEMMA TurnRecordedFacts ==
    ASSUME NEW k \in Kernels
    PROVE  /\ TurnRecorded(k) \in Kernels
           /\ TurnRecorded(k).used["modelTurns"] = k.used["modelTurns"] + 1
           /\ \A c \in Buckets \cup {"toolExecutions"} : TurnRecorded(k).used[c] = k.used[c]
           /\ TurnRecorded(k).budget = k.budget
           /\ TurnRecorded(k).step = k.step
BY DEF TurnRecorded, Kernels, Counters, Buckets

\* recordWorkSessionToolResult counts an executed tool that is not a report.
LEMMA ToolRecordedFacts ==
    ASSUME NEW k \in Kernels, NEW res \in Results
    PROVE  /\ ToolRecorded(k, res) \in Kernels
           /\ ToolRecorded(k, res).budget = k.budget
           /\ ToolRecorded(k, res).step = k.step
           /\ \A c \in Counters : ToolRecorded(k, res).used[c] =
                 IF /\ res.executed /\ res.action \notin FinalReports
                    /\ c \in {"toolExecutions", res.action}
                 THEN k.used[c] + 1 ELSE k.used[c]
BY DEF ToolRecorded, Kernels, Counters, Buckets

\* setWorkSessionCheckpoint changes the checkpoint only.
LEMMA CheckpointedFacts ==
    ASSUME NEW k \in Kernels, NEW step \in Nat, NEW n \in Nat
    PROVE  /\ Checkpointed(k, step, n) \in Kernels
           /\ Checkpointed(k, step, n).used = k.used
           /\ Checkpointed(k, step, n).budget = k.budget
           /\ Checkpointed(k, step, n).step = step
BY DEF Checkpointed, Kernels

\* validateWorkSessionResume keeps the counters and the checkpoint.
LEMMA ResumedFacts ==
    ASSUME TypeOK, NEW k \in Kernels, NEW r
    PROVE  /\ Resumed(k, r) \in Kernels
           /\ Resumed(k, r).used = k.used
           /\ Resumed(k, r).budget = k.budget
           /\ Resumed(k, r).step = k.step
BY WorkspaceStateType DEF Resumed, Kernels, MarkedStale

----------------------------------------------------------------------------
(* Parts of steps *)

\* A request that is over leaves well-typed variables behind.
LEMMA ForgetType ==
    ASSUME TypeOK, NEW ls, Forget(ls)
    PROVE  /\ pc' \in [Loops -> LoopLabels]
           /\ sess' \in [Loops -> Sessions \cup {NoLoop}]
           /\ req' \in [Loops -> Requests \cup {NoLoop}]
           /\ rec' \in [Loops -> Kernels \cup {NoLoop}]
           /\ index' \in [Loops -> Nat] /\ repairs' \in [Loops -> Nat]
           /\ result' \in [Loops -> Results]
           /\ final' \in [Loops -> {"max_steps_reached", "completed", "blocked"}]
           /\ aborted' \in [Loops -> BOOLEAN]
           /\ journal' \in [Loops -> {"empty", "edits"}]
           /\ \A l \in Loops : ~Idle(l)' => /\ sess'[l] \in Sessions
                                            /\ req'[l] \in Requests
                                            /\ rec'[l] \in Kernels
<1>1. NoResult \in Results
  BY DEF NoResult, Refused, Results, Actions, Categories
<1>2. \A l \in Loops : ~Idle(l)' => l \notin ls /\ ~Idle(l)
  BY DEF Forget, Idle
<1>3. pc' \in [Loops -> LoopLabels]
  BY DEF Forget, TypeOK, LoopLabels
<1>4. /\ sess' \in [Loops -> Sessions \cup {NoLoop}]
      /\ req' \in [Loops -> Requests \cup {NoLoop}]
      /\ rec' \in [Loops -> Kernels \cup {NoLoop}]
  BY DEF Forget, TypeOK
<1>5. /\ index' \in [Loops -> Nat] /\ repairs' \in [Loops -> Nat]
      /\ result' \in [Loops -> Results]
      /\ final' \in [Loops -> {"max_steps_reached", "completed", "blocked"}]
      /\ aborted' \in [Loops -> BOOLEAN]
      /\ journal' \in [Loops -> {"empty", "edits"}]
  BY <1>1 DEF Forget, TypeOK
<1> QED
  BY <1>2, <1>3, <1>4, <1>5 DEF Forget, TypeOK

\* Writing a record leaves the disk with records.
LEMMA PersistType ==
    ASSUME TypeOK, NEW l \in Loops, ~Idle(l), Persist(l)
    PROVE  disk' \in [Sessions -> Kernels \cup {NoRecord}] /\ faults' \in Nat
BY DEF TypeOK, Persist

\* A session that can be resumed has a record.
LEMMA ResumesRecord ==
    ASSUME TypeOK, NEW r \in Requests, NEW s \in Sessions, Resumes(r, s)
    PROVE  disk[s] \in Kernels
BY DEF TypeOK, Resumes, Resumable, NoRecord

\* The results tools and refusals have are results.
LEMMA RefusedType ==
    ASSUME NEW action \in Actions, NEW category \in Categories
    PROVE  Refused(action, category) \in Results
BY DEF Refused, Results

\* What executeGatewayWorkspaceTool returns is a result for the action asked for.
LEMMA ToolOutcomesType ==
    ASSUME NEW action \in Actions, NEW outcome \in ToolOutcomes(action)
    PROVE  outcome \in Results /\ outcome.action = action
BY DEF ToolOutcomes, Ran, Results, Categories

\* Cancelling a tool's result leaves a result.
LEMMA ReportedType ==
    ASSUME TypeOK, NEW l \in Loops
    PROVE  /\ Reported(l) \in Results
           /\ Reported(l).action = result[l].action
           /\ Reported(l).executed => result[l].executed
<1>1. result[l] \in Results
  BY DEF TypeOK
<1>2. CASE aborted[l] /\ result[l].allowed
  BY <1>1, <1>2 DEF Reported, Results, Categories
<1>3. CASE ~(aborted[l] /\ result[l].allowed)
  BY <1>1, <1>3 DEF Reported
<1> QED
  BY <1>2, <1>3

\* Putting a well-typed record and label in a loop keeps the types.
LEMMA EnterType ==
    ASSUME TypeOK, NEW l \in Loops, NEW r \in Requests, NEW s \in Sessions,
           NEW k \in Kernels, NEW label \in LoopLabels, Enter(l, r, s, k, label)
    PROVE  /\ pc' \in [Loops -> LoopLabels]
           /\ sess' \in [Loops -> Sessions \cup {NoLoop}]
           /\ req' \in [Loops -> Requests \cup {NoLoop}]
           /\ rec' \in [Loops -> Kernels \cup {NoLoop}]
           /\ index' \in [Loops -> Nat] /\ repairs' \in [Loops -> Nat]
           /\ \A m \in Loops : ~Idle(m)' => /\ sess'[m] \in Sessions
                                            /\ req'[m] \in Requests
                                            /\ rec'[m] \in Kernels
<1>1. k.step \in Nat /\ k.repairs \in Nat
  BY DEF Kernels
<1> QED
  BY <1>1 DEF Enter, Goto, SetRec, TypeOK, Idle

\* A worktree is live or missing once its session asked for it.
LEMMA CreateWorktreeType ==
    ASSUME TypeOK, NEW s \in Sessions, CreateWorktree(s)
    PROVE  /\ worktree' \in [Sessions -> {"absent", "live", "missing"}]
           /\ manifest' \in [Sessions -> {"none", "live", "cleaned"}]
BY DEF TypeOK, CreateWorktree, boxVars

\* The value the loop ends with is one finalizeWorkSessionKernel knows.
LEMMA ExitStatusType ==
    ASSUME NEW l
    PROVE  ExitStatus(l) \in {"", "completed", "blocked"}
BY DEF ExitStatus

----------------------------------------------------------------------------
(* Type correctness *)

\* A gateway that has served nothing is well-typed.
LEMMA InitType == Init => TypeOK
<1> SUFFICES ASSUME Init PROVE TypeOK
  OBVIOUS
<1>1. NoResult \in Results
  BY DEF NoResult, Refused, Results, Actions, Categories
<1> QED
  BY <1>1 DEF Init, TypeOK, LoopLabels, Idle

\* A request that starts or resumes a session keeps the types.
LEMMA StartType ==
    ASSUME TypeOK, NEW l \in Loops, Start(l)
    PROVE  TypeOK'
<1>1. PICK r \in Requests, s \in Sessions : Resume(l, r, s) \/ StartFresh(l, r, s)
  BY DEF Start
<1>2. CASE Resume(l, r, s)
  <2>1. disk[s] \in Kernels
    BY <1>2, ResumesRecord DEF Resume
  <2>2. Resumed(disk[s], r) \in Kernels
    BY <2>1, ResumedFacts
  <2>3. [Resumed(disk[s], r) EXCEPT !.status = "blocked"] \in Kernels
    BY <2>2 DEF Kernels
  <2>4. PICK k \in Kernels, label \in LoopLabels : Enter(l, r, s, k, label)
    BY <1>2, <2>2, <2>3 DEF Resume, LoopLabels
  <2> QED
    BY <1>2, <2>4, EnterType DEF Resume, TypeOK, boxVars, repoVars, Enter
<1>3. CASE StartFresh(l, r, s)
  <2>1. NewKernel(r) \in Kernels
    BY NewKernelFacts
  <2>2. PICK label \in LoopLabels : Enter(l, r, s, NewKernel(r), label)
    BY <1>3 DEF StartFresh, LoopLabels
  <2> QED
    BY <1>3, <2>1, <2>2, EnterType DEF StartFresh, TypeOK, boxVars, repoVars, Enter
<1> QED
  BY <1>1, <1>2, <1>3

\* Every step of the loop, from its entry to its last write, keeps the types.
LEMMA LoopStepType ==
    ASSUME TypeOK, NEW l \in Loops, LoopStep(l)
    PROVE  TypeOK'
<1> USE DEF boxVars, repoVars
<1>1. ~Idle(l)
  BY DEF LoopStep, Idle, EagerSandbox, Rejected, Begin, Turn, ChatFails, Answer, InvalidAnswer,
         ToolAnswer, LazySandbox, RefuseTool, Tool, RunTool, ToolThrows, ToolReturns, Save,
         Finish, SandboxRemove, SandboxManifest, FinalPersist
<1>2. /\ sess[l] \in Sessions /\ req[l] \in Requests /\ rec[l] \in Kernels
      /\ result[l] \in Results /\ result[l].action \in Actions
      /\ index[l] \in Nat /\ repairs[l] \in Nat
  BY <1>1 DEF TypeOK, Results
<1>3. /\ [rec[l] EXCEPT !.box = TRUE] \in Kernels
      /\ \A status \in {"completed", "blocked", "interrupted"} :
            [rec[l] EXCEPT !.status = status] \in Kernels
  BY <1>2 DEF Kernels
<1>4. CASE EagerSandbox(l)
  <2>1. /\ worktree' \in [Sessions -> {"absent", "live", "missing"}]
        /\ manifest' \in [Sessions -> {"none", "live", "cleaned"}]
    BY <1>2, <1>4, CreateWorktreeType DEF EagerSandbox
  <2>2. /\ pc' \in [Loops -> LoopLabels]
        /\ rec' \in [Loops -> Kernels \cup {NoLoop}]
        /\ rec'[l] \in Kernels
        /\ \A m \in Loops \ {l} : pc'[m] = pc[m] /\ rec'[m] = rec[m]
    <3>1. CASE WorktreeCreated(sess[l])
      <4>1. /\ rec' = [rec EXCEPT ![l] = [rec[l] EXCEPT !.box = TRUE]]
            /\ pc' = [pc EXCEPT ![l] = "begin"]
        BY <1>4, <3>1 DEF EagerSandbox, SetRec, Goto
      <4> QED
        BY <1>3, <4>1 DEF TypeOK, LoopLabels
    <3>2. CASE ~WorktreeCreated(sess[l])
      <4>1. /\ rec' = [rec EXCEPT ![l] = [rec[l] EXCEPT !.status = "blocked"]]
            /\ pc' = [pc EXCEPT ![l] = "rejected"]
        BY <1>4, <3>2 DEF EagerSandbox, SetRec, Goto
      <4> QED
        BY <1>3, <4>1 DEF TypeOK, LoopLabels
    <3> QED
      BY <3>1, <3>2
  <2> QED
    BY <1>2, <1>4, <2>1, <2>2 DEF EagerSandbox, TypeOK, Idle
<1>5. CASE Rejected(l)
  BY <1>1, <1>5, ForgetType, PersistType DEF Rejected, TypeOK
<1>6. CASE Begin(l)
  BY <1>1, <1>6, PersistType DEF Begin, TypeOK, Goto, Idle, LoopLabels
<1>7. CASE Turn(l)
  BY <1>7 DEF Turn, TypeOK, Goto, Idle, LoopLabels
<1>8. CASE ChatFails(l)
  BY <1>8, ForgetType DEF ChatFails, TypeOK
<1>9. CASE InvalidAnswer(l)
  <2>1. Refused("none", "malformed") \in Results
    BY RefusedType DEF Actions, Categories
  <2> QED
    BY <1>2, <1>9, <2>1, TurnRecordedFacts DEF InvalidAnswer, TypeOK, SetRec, Goto, Idle, LoopLabels
<1>10. CASE Answer(l) /\ ~InvalidAnswer(l)
  <2>1. PICK action \in ModelActions, safe \in BOOLEAN : ToolAnswer(l, action, safe)
    BY <1>10 DEF Answer
  <2>2. action \in Actions
    BY BoundsAssumption DEF Actions
  <2>3. \A category \in {"ambiguous", "none", "unsafe"} : Refused(action, category) \in Results
    BY <2>2, RefusedType DEF Categories
  <2>4. TurnRecorded(rec[l]) \in Kernels
    BY <1>2, TurnRecordedFacts
  <2> QED
    BY <1>2, <2>1, <2>3, <2>4 DEF ToolAnswer, TypeOK, SetRec, Goto, Idle, LoopLabels
<1>11. CASE LazySandbox(l)
  <2>1. Refused(result[l].action, "sandbox") \in Results
    BY <1>2, RefusedType DEF Categories
  <2>2. /\ worktree' \in [Sessions -> {"absent", "live", "missing"}]
        /\ manifest' \in [Sessions -> {"none", "live", "cleaned"}]
    BY <1>2, <1>11, CreateWorktreeType DEF LazySandbox
  <2>3. /\ pc' \in [Loops -> LoopLabels]
        /\ rec' \in [Loops -> Kernels \cup {NoLoop}]
        /\ result' \in [Loops -> Results]
        /\ rec'[l] \in Kernels
        /\ \A m \in Loops \ {l} : pc'[m] = pc[m] /\ rec'[m] = rec[m]
    <3>1. CASE WorktreeCreated(sess[l])
      <4>1. /\ rec' = [rec EXCEPT ![l] = [rec[l] EXCEPT !.box = TRUE]]
            /\ pc' = [pc EXCEPT ![l] = "tool"] /\ result' = result
        BY <1>11, <3>1 DEF LazySandbox, SetRec, Goto
      <4> QED
        BY <1>3, <4>1 DEF TypeOK, LoopLabels
    <3>2. CASE ~WorktreeCreated(sess[l])
      <4>1. /\ rec' = rec /\ pc' = [pc EXCEPT ![l] = "ran"]
            /\ result' = [result EXCEPT ![l] = Refused(result[l].action, "sandbox")]
        BY <1>11, <3>2 DEF LazySandbox, Goto
      <4> QED
        BY <1>2, <2>1, <4>1 DEF TypeOK, LoopLabels
    <3> QED
      BY <3>1, <3>2
  <2> QED
    BY <1>2, <1>11, <2>2, <2>3 DEF LazySandbox, TypeOK, Idle
<1>12. CASE RefuseTool(l)
  <2>1. Refusal(l) \in Categories
    BY <1>2 DEF Refusal, Categories, Results
  <2>2. Refused(result[l].action, Refusal(l)) \in Results
    BY <1>2, <2>1, RefusedType
  <2> QED
    BY <1>12, <2>2 DEF RefuseTool, TypeOK, Goto, Idle, LoopLabels
<1>13. CASE Tool(l)
  <2>1. PICK outcome \in ToolOutcomes(result[l].action) : RunTool(l, outcome)
    BY <1>13 DEF Tool
  <2>2. outcome \in Results
    BY <1>2, ToolOutcomesType
  <2>3. sourceEdited' \in BOOLEAN /\ journal' \in [Loops -> {"empty", "edits"}]
    BY <2>1 DEF RunTool, TypeOK
  <2>4. ran' \in [Sessions -> Nat]
    BY <1>2, <2>1 DEF RunTool, OneMoreRan, TypeOK
  <2> QED
    BY <2>1, <2>2, <2>3, <2>4 DEF RunTool, TypeOK, Goto, Idle, LoopLabels
<1>14. CASE ToolThrows(l)
  <2>1. sourceEdited' \in BOOLEAN /\ throws' \in Nat /\ ran' \in [Sessions -> Nat]
    <3>1. CASE UNCHANGED <<sourceEdited, ran, throws>>
      BY <3>1 DEF TypeOK
    <3>2. CASE /\ throws' = throws + 1 /\ OneMoreRan(l)
               /\ sourceEdited' = (sourceEdited \/ InSource(l))
      <4>1. sourceEdited' \in BOOLEAN
        BY <3>2
      <4>2. throws' \in Nat
        BY <3>2 DEF TypeOK
      <4>3. ran' \in [Sessions -> Nat]
        BY <1>2, <3>2 DEF OneMoreRan, TypeOK
      <4> QED BY <4>1, <4>2, <4>3
    <3> QED BY <1>14, <3>1, <3>2 DEF ToolThrows
  <2>2. UNCHANGED <<disk, allocated, boxVars, head, userDirty, faults>> /\ Forget({l})
    BY <1>14 DEF ToolThrows
  <2> QED
    BY <2>1, <2>2, ForgetType DEF TypeOK
<1>15. CASE ToolReturns(l)
  <2>1. Reported(l) \in Results
    BY ReportedType
  <2>2. ToolRecorded(rec[l], Reported(l)) \in Kernels
    BY <1>2, <2>1, ToolRecordedFacts
  <2>3. Checkpointed(ToolRecorded(rec[l], Reported(l)), index[l] + 1, repairs[l]) \in Kernels
    <3>1. index[l] + 1 \in Nat
      BY <1>2
    <3> QED
      BY <1>2, <2>2, <3>1, CheckpointedFacts
  <2>4. sourceEdited' \in BOOLEAN /\ journal' \in [Loops -> {"empty", "edits"}]
    BY <1>15 DEF ToolReturns, TypeOK
  <2> QED
    BY <1>2, <1>15, <2>1, <2>3, <2>4 DEF ToolReturns, TypeOK, SetRec, Goto, Idle, LoopLabels
<1>16. CASE Save(l)
  <2>1. NoResult \in Results
    BY DEF NoResult, Refused, Results, Actions, Categories
  <2>2. disk' \in [Sessions -> Kernels \cup {NoRecord}] /\ faults' \in Nat
    BY <1>1, <1>16, PersistType DEF Save
  <2>3. /\ pc' \in [Loops -> LoopLabels]
        /\ index' \in [Loops -> Nat]
        /\ result' \in [Loops -> Results]
        /\ final' \in [Loops -> {"max_steps_reached", "completed", "blocked"}]
    <3>1. CASE ExitStatus(l) = ""
      <4>1. /\ index' = [index EXCEPT ![l] = @ + 1] /\ result' = [result EXCEPT ![l] = NoResult]
            /\ pc' = [pc EXCEPT ![l] = "turn"] /\ final' = final
        BY <1>16, <3>1 DEF Save, Goto
      <4> QED
        BY <1>2, <2>1, <4>1 DEF TypeOK, LoopLabels
    <3>2. CASE ExitStatus(l) \in {"completed", "blocked"}
      <4>1. /\ index' = index /\ result' = result /\ pc' = [pc EXCEPT ![l] = "finish"]
            /\ final' = [final EXCEPT ![l] = ExitStatus(l)]
        BY <1>16, <3>2 DEF Save, Goto
      <4> QED
        BY <3>2, <4>1 DEF TypeOK, LoopLabels
    <3> QED
      BY <3>1, <3>2, ExitStatusType
  <2>4. \A m \in Loops : ~Idle(m)' => ~Idle(m)
    BY <1>1, <1>16 DEF Save, Goto, TypeOK, Idle
  <2> QED
    BY <1>16, <2>2, <2>3, <2>4 DEF Save, TypeOK
<1>17. CASE Finish(l)
  <2>1. [rec[l] EXCEPT !.status = IF final[l] = "max_steps_reached" THEN "interrupted" ELSE final[l]]
           \in Kernels
    BY <1>3 DEF TypeOK
  <2> QED
    BY <1>2, <1>17, <2>1 DEF Finish, TypeOK, SetRec, Goto, Idle, LoopLabels
<1>18. CASE SandboxRemove(l)
  BY SMTT(20), <1>2, <1>3, <1>18 DEF SandboxRemove, TypeOK, SetRec, Goto, Idle, LoopLabels
<1>19. CASE SandboxManifest(l)
  BY <1>19 DEF SandboxManifest, TypeOK, Goto, Idle, LoopLabels
<1>20. CASE FinalPersist(l)
  BY <1>1, <1>20, ForgetType, PersistType DEF FinalPersist, TypeOK
<1> QED
  BY <1>4, <1>5, <1>6, <1>7, <1>8, <1>9, <1>10, <1>11, <1>12, <1>13, <1>14, <1>15, <1>16,
     <1>17, <1>18, <1>19, <1>20 DEF LoopStep

\* Aborts, crashes and what the user does to the source keep the types.
LEMMA EnvironmentType ==
    ASSUME TypeOK, (\E l \in Loops : Abort(l)) \/ Crash \/ EditSource \/ CommitSource
    PROVE  TypeOK'
<1> USE DEF boxVars, repoVars, loopVars
<1>1. CASE \E l \in Loops : Abort(l)
  BY <1>1 DEF Abort, TypeOK, Idle
<1>2. CASE Crash
  BY <1>2, ForgetType DEF Crash, TypeOK
<1>3. CASE EditSource
  BY <1>3 DEF EditSource, TypeOK, Idle
<1>4. CASE CommitSource
  <2>1. head' \in Nat
    BY <1>4 DEF CommitSource, TypeOK
  <2>3. userDirty' \in BOOLEAN /\ sourceEdited' \in BOOLEAN
    BY <1>4 DEF CommitSource
  <2>2. UNCHANGED <<disk, allocated, worktree, manifest, loopVars, faults, ran, throws>>
    BY <1>4 DEF CommitSource
  <2> QED
    BY <2>1, <2>2, <2>3 DEF TypeOK, Idle
<1> QED
  BY <1>1, <1>2, <1>3, <1>4

\* The types of the records and of the loops' locals hold for ever: no handler,
\* user or crash can break them.
THEOREM TypeCorrect == Spec => []TypeOK
<1>1. TypeOK /\ [Next]_vars => TypeOK'
  <2> SUFFICES ASSUME TypeOK, [Next]_vars PROVE TypeOK'
    OBVIOUS
  <2>1. CASE UNCHANGED vars
    BY <2>1 DEF vars, boxVars, repoVars, loopVars, TypeOK, Idle
  <2>2. CASE Next
    BY <2>2, StartType, LoopStepType, EnvironmentType DEF Next
  <2> QED
    BY <2>1, <2>2
<1> QED
  BY InitType, <1>1, PTL DEF Spec

----------------------------------------------------------------------------
(* The counters of a record: the inductive invariant *)

\* What the counters of a loop's record k say at label p of the loop, with the
\* result res and the loop variable i.  Before a turn they match the checkpoint
\* and i is the next turn; from the model's answer to the checkpoint that
\* follows it they are one turn ahead, and the turn's tool may not be counted yet.
Accounts(p, k, res, i) ==
    /\ WithinBudget(k)
    /\ p \notin {"lazy", "tool", "ran"} => Consistent(k)
    /\ p \in {"eager", "begin", "turn", "chat"} => i = k.used["modelTurns"] + 1
    /\ p = "save" => i = k.used["modelTurns"]
    /\ p \in {"lazy", "tool", "ran"} =>
          /\ i = k.used["modelTurns"]
          /\ k.used["toolExecutions"] < k.used["modelTurns"]
          /\ \A c \in Buckets : k.used[c] <= k.used["toolExecutions"]
    /\ p \in {"lazy", "tool"} /\ res.action = "none" => res.category = "ambiguous"
    /\ p = "ran" /\ res.executed = TRUE /\ res.action \notin FinalReports =>
          \A c \in {"toolExecutions", res.action} \cap Counters : k.used[c] < k.budget[c]

Accounting(l) == Accounts(pc[l], rec[l], result[l], index[l])

\* A record a loop may write.
Writable(k) == WithinBudget(k) /\ Consistent(k)

Inv ==
    /\ TypeOK
    /\ \A s \in Sessions : disk[s] # NoRecord => Writable(disk[s])
    /\ \A l \in Loops : ~Idle(l) => Accounting(l)

\* Only the counters, the budget and the checkpoint of a record matter.
LEMMA SameCounters ==
    ASSUME NEW k, NEW m, m.used = k.used, m.budget = k.budget, m.step = k.step
    PROVE  (Writable(k) => Writable(m)) /\ (WithinBudget(k) => WithinBudget(m))
BY DEF Writable, WithinBudget, Consistent

\* A step of one loop changes no local of another.
LEMMA LocalsUntouched ==
    ASSUME TypeOK, NEW l \in Loops, Start(l) \/ LoopStep(l) \/ Abort(l), NEW m \in Loops \ {l}
    PROVE  /\ pc'[m] = pc[m] /\ sess'[m] = sess[m] /\ req'[m] = req[m] /\ rec'[m] = rec[m]
           /\ result'[m] = result[m] /\ index'[m] = index[m]
           /\ final'[m] = final[m] /\ aborted'[m] = aborted[m]
<1> DEFINE Functions == /\ pc \in [Loops -> LoopLabels]
                        /\ sess \in [Loops -> Sessions \cup {NoLoop}]
                        /\ req \in [Loops -> Requests \cup {NoLoop}]
                        /\ rec \in [Loops -> Kernels \cup {NoLoop}]
                        /\ result \in [Loops -> Results]
                        /\ index \in [Loops -> Nat]
                        /\ final \in [Loops -> {"max_steps_reached", "completed", "blocked"}]
                        /\ aborted \in [Loops -> BOOLEAN]
<1>1. Functions
  BY DEF TypeOK
<1> USE DEF Goto, SetRec, Forget
<1>2. CASE Start(l)
  BY <1>1, <1>2 DEF Start, Resume, StartFresh, Enter
<1>3. CASE Abort(l)
  BY <1>1, <1>3 DEF Abort
<1>4. CASE EagerSandbox(l)
  BY <1>1, <1>4 DEF EagerSandbox
<1>5. CASE Rejected(l)
  BY <1>1, <1>5 DEF Rejected
<1>6. CASE Begin(l)
  BY <1>1, <1>6 DEF Begin
<1>7. CASE Turn(l)
  BY <1>1, <1>7 DEF Turn
<1>8. CASE ChatFails(l)
  BY <1>1, <1>8 DEF ChatFails
<1>9. CASE Answer(l)
  BY <1>1, <1>9 DEF Answer, InvalidAnswer, ToolAnswer
<1>10. CASE LazySandbox(l)
  BY <1>1, <1>10 DEF LazySandbox
<1>11. CASE RefuseTool(l)
  BY <1>1, <1>11 DEF RefuseTool
<1>12. CASE Tool(l)
  BY <1>1, <1>12 DEF Tool, RunTool
<1>13. CASE ToolThrows(l)
  BY <1>1, <1>13 DEF ToolThrows
<1>14. CASE ToolReturns(l)
  BY <1>1, <1>14 DEF ToolReturns
<1>15. CASE Save(l)
  BY ZenonT(30), <1>1, <1>15 DEF Save
<1>16. CASE Finish(l)
  BY <1>1, <1>16 DEF Finish
<1>17. CASE SandboxRemove(l)
  BY <1>1, <1>17 DEF SandboxRemove
<1>18. CASE SandboxManifest(l)
  BY <1>1, <1>18 DEF SandboxManifest
<1>19. CASE FinalPersist(l)
  BY <1>1, <1>19 DEF FinalPersist
<1> QED
  BY <1>2, <1>3, <1>4, <1>5, <1>6, <1>7, <1>8, <1>9, <1>10, <1>11,
     <1>12, <1>13, <1>14, <1>15, <1>16, <1>17, <1>18, <1>19 DEF LoopStep

\* A loop that moves is serving a request.
LEMMA Moving ==
    ASSUME TypeOK, NEW l \in Loops, LoopStep(l) \/ Abort(l)
    PROVE  ~Idle(l)
BY DEF LoopStep, Idle, EagerSandbox, Rejected, Begin, Turn, ChatFails, Answer,
       InvalidAnswer, ToolAnswer, LazySandbox, RefuseTool, Tool, RunTool, ToolThrows,
       ToolReturns, Save, Finish, SandboxRemove, SandboxManifest, FinalPersist, Abort

\* The only record a loop writes is its own, and only at four points.
LEMMA DiskWrites ==
    ASSUME TypeOK, NEW l \in Loops, Start(l) \/ LoopStep(l) \/ Abort(l), NEW s \in Sessions
    PROVE  \/ disk'[s] = disk[s]
           \/ pc[l] \in {"rejected", "begin", "save", "final"} /\ disk'[s] = rec[l]
<1> USE DEF TypeOK
<1>1. CASE Start(l) \/ Abort(l)
  BY <1>1 DEF Start, Resume, StartFresh, Abort
<1>2. CASE Rejected(l) \/ Begin(l) \/ Save(l) \/ FinalPersist(l)
  BY <1>2 DEF Rejected, Begin, Save, FinalPersist, Persist
<1>3. CASE EagerSandbox(l) \/ Turn(l) \/ ChatFails(l) \/ Answer(l) \/ LazySandbox(l)
  BY <1>3 DEF EagerSandbox, Turn, ChatFails, Answer, InvalidAnswer, ToolAnswer, LazySandbox
<1>4. CASE RefuseTool(l) \/ Tool(l) \/ ToolThrows(l) \/ ToolReturns(l)
  BY <1>4 DEF RefuseTool, Tool, RunTool, ToolThrows, ToolReturns
<1>5. CASE Finish(l) \/ SandboxRemove(l) \/ SandboxManifest(l)
  BY <1>5 DEF Finish, SandboxRemove, SandboxManifest
<1> QED
  BY <1>1, <1>2, <1>3, <1>4, <1>5 DEF LoopStep

\* A record the loop starts with, new or resumed.
LEMMA StartAccounts ==
    ASSUME Inv, NEW l \in Loops, Start(l)
    PROVE  Accounting(l)'
<1> USE DEF Inv
<1>1. PICK r \in Requests, s \in Sessions : Resume(l, r, s) \/ StartFresh(l, r, s)
  BY DEF Start
<1>2. result[l]' = result[l] /\ TypeOK
  BY <1>1 DEF Resume, StartFresh, Enter
<1>3. ASSUME NEW k \in Kernels, Writable(k), NEW label \in {"rejected", "eager", "begin"},
             Enter(l, r, s, k, label)
      PROVE  Accounting(l)'
  <2>1. /\ pc'[l] = label /\ rec'[l] = k
        /\ index'[l] = IF k.step > 0 THEN k.step ELSE 1
    BY <1>2, <1>3 DEF Enter, Goto, SetRec, TypeOK
  <2>2. k.step \in Nat /\ k.used["modelTurns"] \in Nat
    BY DEF Kernels, Counters
  <2>3. index'[l] = k.used["modelTurns"] + 1
    BY <1>3, <2>1, <2>2 DEF Writable, Consistent
  <2> QED
    BY <1>3, <2>1, <2>3 DEF Accounting, Accounts, Writable
<1>4. CASE Resume(l, r, s)
  <2>1. disk[s] \in Kernels /\ Writable(disk[s])
    BY <1>2, <1>4, ResumesRecord DEF Resume, NoRecord, Kernels
  <2>2. Resumed(disk[s], r) \in Kernels /\ Writable(Resumed(disk[s], r))
    BY <1>2, <2>1, ResumedFacts, SameCounters
  <2>3. /\ [Resumed(disk[s], r) EXCEPT !.status = "blocked"] \in Kernels
        /\ Writable([Resumed(disk[s], r) EXCEPT !.status = "blocked"])
    BY <2>2, SameCounters DEF Kernels
  <2> QED
    BY <1>3, <1>4, <2>2, <2>3 DEF Resume
<1>5. CASE StartFresh(l, r, s)
  <2>1. NewKernel(r) \in Kernels
    BY <1>2, NewKernelFacts
  <2>2. Writable(NewKernel(r))
    BY <1>2, NewKernelFacts DEF Writable, WithinBudget, Consistent, Counters, Buckets
  <2> QED
    BY <1>3, <1>5, <2>1, <2>2 DEF StartFresh
<1> QED
  BY <1>1, <1>4, <1>5

\* The points at which a record only changes its status, its worktree or nothing.
LEMMA QuietAccounts ==
    ASSUME Inv, NEW l \in Loops, ~Idle(l),
           \/ EagerSandbox(l) \/ Rejected(l) \/ Begin(l) \/ Turn(l) \/ ChatFails(l)
           \/ Save(l) \/ ToolThrows(l) \/ Abort(l)
           \/ Finish(l) \/ SandboxRemove(l) \/ SandboxManifest(l) \/ FinalPersist(l)
    PROVE  ~Idle(l)' => Accounting(l)'
<1>1. /\ TypeOK /\ Accounts(pc[l], rec[l], result[l], index[l])
      /\ rec[l] \in Kernels /\ index[l] \in Nat /\ pc[l] # "idle"
  BY DEF Inv, Accounting, TypeOK, Idle
<1>2. ASSUME NEW b, NEW status
      PROVE  /\ Writable(rec[l]) => Writable([rec[l] EXCEPT !.box = b])
             /\ Writable(rec[l]) => Writable([rec[l] EXCEPT !.status = status])
  BY <1>1, SameCounters DEF Kernels
<1> USE DEF Goto, SetRec
<1>3. CASE EagerSandbox(l)
  <2>1. /\ index'[l] = index[l]
        /\ \/ pc'[l] = "begin" /\ rec'[l] = [rec[l] EXCEPT !.box = TRUE]
           \/ pc'[l] = "rejected" /\ rec'[l] = [rec[l] EXCEPT !.status = "blocked"]
    BY ZenonT(30), <1>1, <1>3 DEF EagerSandbox, TypeOK
  <2>2. Writable(rec[l]) /\ index[l] = rec[l].used["modelTurns"] + 1
    BY <1>1, <1>3 DEF EagerSandbox, Accounts, Writable
  <2>3. rec'[l].used = rec[l].used
    BY <1>1, <2>1 DEF Kernels
  <2> QED
    BY <1>2, <2>1, <2>2, <2>3 DEF Accounting, Accounts, Writable
<1>4. CASE Rejected(l) \/ ChatFails(l) \/ ToolThrows(l) \/ FinalPersist(l)
  BY <1>1, <1>4 DEF Rejected, ChatFails, ToolThrows, FinalPersist, Forget, Idle
<1>5. CASE Begin(l) \/ Turn(l) \/ Abort(l)
  <2>1. /\ rec'[l] = rec[l] /\ index'[l] = index[l] /\ result'[l] = result[l]
        /\ \/ pc[l] = "begin" /\ pc'[l] = "turn"
           \/ pc[l] = "turn" /\ pc'[l] \in {"chat", "finish"}
           \/ pc'[l] = pc[l]
    BY <1>1, <1>5 DEF Begin, Turn, Abort, TypeOK
  <2> QED
    BY <1>1, <2>1 DEF Accounting, Accounts
<1>6. CASE Save(l)
  <2>1. /\ pc[l] = "save" /\ rec'[l] = rec[l]
        /\ \/ pc'[l] = "turn" /\ index'[l] = index[l] + 1
           \/ pc'[l] = "finish"
    <3>1. CASE ExitStatus(l) = ""
      BY ZenonT(30), <1>1, <1>6, <3>1 DEF Save, TypeOK
    <3>2. CASE ExitStatus(l) # ""
      BY <1>1, <1>6, <3>2 DEF Save, TypeOK
    <3> QED
      BY <3>1, <3>2
  <2> QED
    BY <1>1, <2>1 DEF Accounting, Accounts
<1>7. CASE Finish(l) \/ SandboxRemove(l) \/ SandboxManifest(l)
  <2>1. /\ pc[l] \in {"finish", "diff", "manifest"} /\ pc'[l] \in {"diff", "manifest", "final"}
        /\ \/ rec'[l] = rec[l]
           \/ \E status \in {"completed", "blocked", "interrupted"} :
                 rec'[l] = [rec[l] EXCEPT !.status = status]
    <3>1. CASE Finish(l)
      BY <1>1, <3>1 DEF Finish, TypeOK
    <3>2. CASE SandboxRemove(l)
      BY <1>1, <3>2 DEF SandboxRemove, TypeOK
    <3>3. CASE SandboxManifest(l)
      BY <1>1, <3>3 DEF SandboxManifest, TypeOK
    <3> QED
      BY <1>7, <3>1, <3>2, <3>3
  <2>2. Writable(rec[l])
    BY <1>1, <2>1 DEF Accounts, Writable
  <2>3. Writable(rec'[l])
    BY <1>2, <2>1, <2>2
  <2> QED
    BY <2>1, <2>3 DEF Accounting, Accounts, Writable
<1> QED
  BY <1>3, <1>4, <1>5, <1>6, <1>7

\* From the model's answer to the checkpoint after it.
LEMMA TurnAccounts ==
    ASSUME Inv, NEW l \in Loops, ~Idle(l),
           \/ Answer(l) \/ LazySandbox(l) \/ RefuseTool(l) \/ Tool(l) \/ ToolReturns(l)
    PROVE  Accounting(l)'
<1>1. /\ TypeOK /\ Accounts(pc[l], rec[l], result[l], index[l])
      /\ rec[l] \in Kernels /\ index[l] \in Nat /\ repairs[l] \in Nat
      /\ result[l] \in Results /\ result[l].action \in Actions
  BY DEF Inv, Accounting, TypeOK, Idle, Results
<1>2. \A c \in Counters : rec[l].used[c] \in Nat /\ rec[l].budget[c] \in Nat
  BY <1>1 DEF Kernels
<1> USE DEF Goto, SetRec
<1>3. ASSUME NEW label \in {"lazy", "tool", "ran"}, NEW res, pc[l] = "chat",
             label # "ran" /\ res.action = "none" => res.category = "ambiguous",
             res.executed = FALSE
      PROVE  Accounts(label, TurnRecorded(rec[l]), res, index[l])
  <2>1. Consistent(rec[l]) /\ index[l] = rec[l].used["modelTurns"] + 1 /\ WithinBudget(rec[l])
    BY <1>1, <1>3 DEF Accounts
  <2>2. /\ TurnRecorded(rec[l]).used["modelTurns"] = index[l]
        /\ \A c \in Buckets \cup {"toolExecutions"} : TurnRecorded(rec[l]).used[c] = rec[l].used[c]
        /\ TurnRecorded(rec[l]).budget = rec[l].budget
    BY <1>1, <2>1, TurnRecordedFacts
  <2>3. rec[l].used["toolExecutions"] < index[l]
    BY <1>2, <2>1 DEF Consistent, Counters
  <2> QED
    BY <1>3, <2>1, <2>2, <2>3 DEF Accounts, WithinBudget, Consistent
<1>4. CASE InvalidAnswer(l)
  <2>1. /\ pc[l] = "chat" /\ pc'[l] = "ran" /\ rec'[l] = TurnRecorded(rec[l])
        /\ index'[l] = index[l] /\ result'[l] = Refused("none", "malformed")
    BY <1>1, <1>4 DEF InvalidAnswer, TypeOK
  <2>2. Refused("none", "malformed").executed = FALSE
    BY DEF Refused
  <2> QED
    BY <1>3, <2>1, <2>2 DEF Accounting
<1>5. CASE Answer(l) /\ ~InvalidAnswer(l)
  <2>1. PICK action \in ModelActions, safe \in BOOLEAN : ToolAnswer(l, action, safe)
    BY <1>5 DEF Answer
  <2>2. PICK category \in Categories, label \in {"lazy", "tool"} :
            /\ pc[l] = "chat" /\ pc'[l] = label /\ rec'[l] = TurnRecorded(rec[l])
            /\ index'[l] = index[l] /\ result'[l] = Refused(action, category)
            /\ action = "none" => category = "ambiguous"
    BY <1>1, <2>1 DEF ToolAnswer, TypeOK, Categories
  <2>3. /\ Refused(action, category).executed = FALSE
        /\ Refused(action, category).action = action
        /\ Refused(action, category).category = category
    BY DEF Refused
  <2> QED
    BY <1>3, <2>2, <2>3 DEF Accounting
<1>6. CASE LazySandbox(l)
  <2>1. /\ pc[l] = "lazy" /\ index'[l] = index[l]
        /\ \/ pc'[l] = "tool" /\ result'[l] = result[l] /\ rec'[l] = [rec[l] EXCEPT !.box = TRUE]
           \/ pc'[l] = "ran" /\ rec'[l] = rec[l]
              /\ result'[l] = Refused(result[l].action, "sandbox")
    <3>1. CASE WorktreeCreated(sess[l])
      BY <1>1, <1>6, <3>1 DEF LazySandbox, TypeOK
    <3>2. CASE ~WorktreeCreated(sess[l])
      BY <1>1, <1>6, <3>2 DEF LazySandbox, TypeOK
    <3> QED
      BY <3>1, <3>2
  <2>2. rec'[l].used = rec[l].used /\ rec'[l].budget = rec[l].budget
    BY <1>1, <2>1 DEF Kernels
  <2>3. Refused(result[l].action, "sandbox").executed = FALSE
    BY DEF Refused
  <2> QED
    BY <1>1, <2>1, <2>2, <2>3 DEF Accounting, Accounts, WithinBudget
<1>7. CASE RefuseTool(l)
  <2>1. /\ pc[l] = "tool" /\ pc'[l] = "ran" /\ rec'[l] = rec[l] /\ index'[l] = index[l]
        /\ result'[l].executed = FALSE
    BY <1>1, <1>7 DEF RefuseTool, TypeOK, Refused
  <2> QED
    BY <1>1, <2>1 DEF Accounting, Accounts
<1>8. CASE Tool(l)
  <2>1. PICK outcome \in ToolOutcomes(result[l].action) : RunTool(l, outcome)
    BY <1>8 DEF Tool
  <2>2. /\ pc[l] = "tool" /\ pc'[l] = "ran" /\ rec'[l] = rec[l] /\ index'[l] = index[l]
        /\ result'[l].action = result[l].action
    BY <1>1, <2>1, ToolOutcomesType DEF RunTool, TypeOK
  <2>3. Refusal(l) = "none"
    BY <2>1 DEF RunTool
  <2>4. BudgetAllows(rec[l], result[l].action) /\ result[l].category = "none"
    BY <2>3 DEF Refusal
  <2>5. result[l].action # "none"
    BY <1>1, <2>2, <2>4 DEF Accounts
  <2>6. result[l].action \notin FinalReports =>
           \A c \in {"toolExecutions", result[l].action} \cap Counters :
              rec[l].used[c] < rec[l].budget[c]
    BY <1>1, <2>4, <2>5 DEF BudgetAllows, Counters, Actions, FinalReports, Buckets
  <2> QED
    BY <1>1, <2>2, <2>6 DEF Accounting, Accounts
<1>9. CASE ToolReturns(l)
  <2> DEFINE res == Reported(l)
             k == ToolRecorded(rec[l], res)
  <2>1. /\ res \in Results /\ res.action = result[l].action
        /\ res.executed = TRUE => result[l].executed = TRUE
    BY <1>1, ReportedType DEF Results
  <2>2. /\ pc[l] = "ran" /\ pc'[l] = "save" /\ index'[l] = index[l]
        /\ rec'[l] = Checkpointed(k, index[l] + 1, repairs[l])
    BY <1>1, <1>9 DEF ToolReturns, TypeOK
  <2>3. /\ k \in Kernels /\ k.budget = rec[l].budget
        /\ \A c \in Counters : k.used[c] =
              IF res.executed /\ res.action \notin FinalReports /\ c \in {"toolExecutions", res.action}
              THEN rec[l].used[c] + 1 ELSE rec[l].used[c]
    BY <1>1, <2>1, ToolRecordedFacts
  <2> HIDE DEF res, k
  <2>4. /\ rec'[l].used = k.used /\ rec'[l].budget = k.budget /\ rec'[l].step = index[l] + 1
    <3>1. index[l] + 1 \in Nat
      BY <1>1
    <3>2. k \in Kernels /\ repairs[l] \in Nat
      BY <1>1, <2>3
    <3>3. /\ Checkpointed(k, index[l] + 1, repairs[l]).used = k.used
          /\ Checkpointed(k, index[l] + 1, repairs[l]).budget = k.budget
          /\ Checkpointed(k, index[l] + 1, repairs[l]).step = index[l] + 1
      BY <3>1, <3>2, CheckpointedFacts
    <3> QED
      BY <2>2, <3>3
  <2>5. /\ WithinBudget(rec[l]) /\ index[l] = rec[l].used["modelTurns"]
        /\ rec[l].used["toolExecutions"] < rec[l].used["modelTurns"]
        /\ \A c \in Buckets : rec[l].used[c] <= rec[l].used["toolExecutions"]
    BY <1>1, <2>2 DEF Accounts
  <2>6. WithinBudget(rec'[l])
    <3> SUFFICES ASSUME NEW c \in Buckets \cup {"toolExecutions"}
                 PROVE  rec'[l].used[c] <= rec[l].budget[c]
      BY <2>3, <2>4 DEF WithinBudget
    <3>1. c \in Counters /\ rec[l].used[c] <= rec[l].budget[c]
      BY <2>5 DEF WithinBudget, Counters
    <3>2. CASE res.executed = TRUE /\ res.action \notin FinalReports /\ c \in {"toolExecutions", res.action}
      <4>1. rec[l].used[c] < rec[l].budget[c]
        BY <1>1, <2>1, <2>2, <3>1, <3>2 DEF Accounts
      <4> QED
        BY <1>2, <2>3, <2>4, <3>1, <3>2, <4>1
    <3>3. CASE ~(res.executed = TRUE /\ res.action \notin FinalReports /\ c \in {"toolExecutions", res.action})
      BY <2>1, <2>3, <2>4, <3>1, <3>3 DEF Results
    <3> QED
      BY <3>2, <3>3
  <2>7. Consistent(rec'[l]) /\ index'[l] = rec'[l].used["modelTurns"]
    <3>1. "modelTurns" \notin {"toolExecutions", res.action}
      BY <1>1, <2>1 DEF Actions, Buckets, FinalReports
    <3>2. rec'[l].used["modelTurns"] = index[l]
      BY <2>3, <2>4, <2>5, <3>1 DEF Counters
    <3>3. rec'[l].used["toolExecutions"] <= index[l]
      BY <1>1, <1>2, <2>3, <2>4, <2>5 DEF Counters
    <3>4. \A c \in Buckets : rec'[l].used[c] <= rec'[l].used["toolExecutions"]
      BY <1>2, <2>3, <2>4, <2>5 DEF Counters
    <3> QED
      BY <1>1, <2>2, <2>4, <3>2, <3>3, <3>4 DEF Consistent
  <2> QED
    BY <2>2, <2>6, <2>7 DEF Accounting, Accounts
<1> QED
  BY <1>4, <1>5, <1>6, <1>7, <1>8, <1>9

\* Every step keeps the types, the accounts of the records on disk and those of
\* the loops' copies.
LEMMA StepInv ==
    ASSUME Inv, [Next]_vars
    PROVE  Inv'
<1>1. TypeOK /\ TypeOK'
  <2>1. CASE UNCHANGED vars
    BY <2>1 DEF Inv, vars, boxVars, repoVars, loopVars, TypeOK, Idle
  <2>2. CASE Next
    BY <2>2, StartType, LoopStepType, EnvironmentType DEF Next, Inv
  <2> QED
    BY <2>1, <2>2
<1>2. CASE \E l \in Loops : Start(l) \/ LoopStep(l) \/ Abort(l)
  <2>1. PICK l \in Loops : Start(l) \/ LoopStep(l) \/ Abort(l)
    BY <1>2
  <2>2. ASSUME NEW s \in Sessions, disk'[s] # NoRecord
        PROVE  Writable(disk'[s])
    <3>1. CASE disk'[s] = disk[s]
      BY <2>2, <3>1 DEF Inv
    <3>2. CASE pc[l] \in {"rejected", "begin", "save", "final"} /\ disk'[s] = rec[l]
      BY <3>2 DEF Inv, Accounting, Accounts, Writable, Idle
    <3> QED
      BY <1>1, <2>1, <3>1, <3>2, DiskWrites
  <2>3. ASSUME NEW m \in Loops, ~Idle(m)'
        PROVE  Accounting(m)'
    <3>1. CASE m # l
      BY <1>1, <2>1, <2>3, <3>1, LocalsUntouched DEF Inv, Accounting, Idle
    <3>2. CASE m = l /\ Start(l)
      BY <3>2, StartAccounts
    <3>3. CASE m = l /\ Abort(l)
      <4>1. ~Idle(l)
        BY <3>3 DEF Abort
      <4> QED
        BY <2>3, <3>3, <4>1, QuietAccounts
    <3>4. CASE m = l /\ LoopStep(l)
      <4>1. ~Idle(l)
        BY <3>4 DEF LoopStep, Idle, EagerSandbox, Rejected, Begin, Turn, ChatFails, Answer,
           InvalidAnswer, ToolAnswer, LazySandbox, RefuseTool, Tool, RunTool, ToolThrows,
           ToolReturns, Save, Finish, SandboxRemove, SandboxManifest, FinalPersist
      <4> QED
        BY <2>3, <3>4, <4>1, QuietAccounts, TurnAccounts DEF LoopStep
    <3> QED
      BY <2>1, <3>1, <3>2, <3>3, <3>4
  <2> QED
    BY <1>1, <2>2, <2>3 DEF Inv
<1>3. CASE Crash
  <2>1. disk' = disk /\ \A l \in Loops : Idle(l)'
    BY <1>3 DEF Crash, Forget, Idle
  <2> QED
    BY <1>1, <2>1 DEF Inv
<1>4. CASE EditSource \/ CommitSource \/ UNCHANGED vars
  <2>1. UNCHANGED <<disk, pc, rec, result, index>>
    BY <1>4 DEF EditSource, CommitSource, vars, loopVars
  <2> QED
    BY <1>1, <2>1 DEF Inv, Idle, Accounting
<1> QED
  BY <1>2, <1>3, <1>4 DEF Next

\* The strengthened invariant holds in every state.
LEMMA Invariance == Spec => []Inv
<1>1. Init => Inv
  BY InitType DEF Init, Inv, Idle, NoRecord
<1>2. Inv /\ [Next]_vars => Inv'
  BY StepInv
<1> QED
  BY <1>1, <1>2, PTL DEF Spec

\* No record of a session, on disk or in a loop's memory, ever counts more tools
\* than its budget allows: for any number of loops serving and resuming it, any
\* number of crashes and failed writes, and any budget a request can carry.
THEOREM WithinBudgetAlways == Spec => []BudgetRespected
<1>1. Inv => BudgetRespected
  BY DEF Inv, BudgetRespected, Writable, Accounting, Accounts, NoRecord
<1> QED
  BY <1>1, Invariance, PTL

\* What a resumed session starts from is a checkpoint that agrees with the turns
\* and the tools it has used: a crash can neither repeat nor skip a recorded step.
THEOREM CheckpointsConsistent == Spec => []CheckpointMatchesTurns
<1>1. Inv => CheckpointMatchesTurns
  BY DEF Inv, CheckpointMatchesTurns, Writable, NoRecord
<1> QED
  BY <1>1, Invariance, PTL

----------------------------------------------------------------------------
(* One loop at a time serves a session: the inductive invariant *)

\* The counters of the executed tools and of the turns.
Tools == "toolExecutions"
Turns == "modelTurns"

\* Everything the loop's record k counts more than the record d on disk was paid for
\* by turns, with one turn left when its tool is not counted yet.
PaidBy(d, k, open) ==
    /\ \A c \in Counters : d.used[c] <= k.used[c]
    /\ k.used[Tools] - d.used[Tools] + open <= k.used["modelTurns"] - d.used["modelTurns"]
    /\ \A c \in Buckets : k.used[c] - d.used[c] <= k.used[Tools] - d.used[Tools]

\* The loop at label p holds the record on disk, still open, and only ever adds to it.
Books(p, k, d) ==
    /\ p = "eager" => d = NoRecord
    /\ p = "rejected" => k.status = "blocked"
    /\ p \notin {"rejected", "diff", "manifest", "final"} => k.status = "running"
    /\ p \in {"diff", "manifest"} => k.status \in Terminal
    /\ d # NoRecord =>
        /\ d.task = k.task /\ d.budget = k.budget
        /\ p = "rejected" => d.used = k.used
        /\ p # "rejected" => d.status \notin Terminal
        /\ PaidBy(d, k, IF p \in {"lazy", "tool", "ran"} THEN 1 ELSE 0)

\* A record that names a worktree has one, up to the removal that ends the session.
Boxes(p, k, d, r, res, w, f) ==
    /\ p # "rejected" => k.task = r.task
    /\ d # NoRecord => (d.box => k.box)
    /\ p \in {"eager", "lazy"} => ~k.box
    /\ p = "tool" /\ res.action = "editOps" /\ r.strict => k.box
    /\ k.box /\ f = 0 /\ p \notin {"manifest", "final", "rejected"} => w = "live"
    /\ k.box /\ f = 0 /\ p = "final" /\ k.status \notin Terminal => w = "live"
    /\ p \in {"manifest", "final"} /\ k.box /\ k.status = "completed" /\ r.cleanup
          => w = "absent"

\* What the loops' crashes, failed writes and throws have let sessions forget.
Allowance == faults + throws

\* Each of the n tools that ran was paid for by a turn the loop has recorded, one turn
\* in advance of the tool, and by one on disk as far as the record is up to date.
Runs(p, k, d, n, a) ==
    /\ p = "eager" => n = 0
    /\ n <= k.budget[Turns] + a
    /\ p # "rejected" => n <= k.used[Turns] + a
    /\ p \in {"lazy", "tool"} => n + 1 <= k.used[Turns] + a
    /\ d # NoRecord /\ d.status \notin Terminal =>
        /\ n <= d.used[Turns] + a + 1
        /\ p \notin {"ran", "save"} => n <= d.used[Turns] + a

Serves(l) ==
    LET s == sess[l]
    IN  /\ s \in allocated
        /\ Books(pc[l], rec[l], disk[s])
        /\ Boxes(pc[l], rec[l], disk[s], req[l], result[l], worktree[s], faults)
        /\ Runs(pc[l], rec[l], disk[s], ran[s], Allowance)

\* What a record says of its worktree and its tools while no loop serves the session.
Tidy(d, w) ==
    d # NoRecord /\ d.status = "completed" /\ d.box /\ CleansUp(d) => w = "absent"
Rests(d, w, n, f, a) ==
    d # NoRecord =>
        /\ n <= d.budget[Turns] + a
        /\ d.status \notin Terminal =>
            /\ d.box /\ f = 0 => w = "live"
            /\ n <= d.used[Turns] + a
Served(s) == \E l \in Loops : ~Idle(l) /\ sess[l] = s
Kept(s) ==
    /\ s \notin allocated => disk[s] = NoRecord /\ ran[s] = 0
    /\ Tidy(disk[s], worktree[s])
    /\ ~Served(s) => Rests(disk[s], worktree[s], ran[s], faults, Allowance)

ServingInv ==
    /\ Inv
    /\ \A l \in Loops : ~Idle(l) => Serves(l)
    /\ \A s \in Sessions : Kept(s)

----------------------------------------------------------------------------
(* What a step leaves alone *)

\* A loop writes the record, the worktree and the count of its own session only, and
\* nobody takes back a session id or a fault.
LEMMA SessionsUntouched ==
    ASSUME TypeOK, NEW l \in Loops, ~Idle(l), LoopStep(l) \/ Abort(l)
    PROVE  /\ \A s \in Sessions : s # sess[l] =>
                disk'[s] = disk[s] /\ worktree'[s] = worktree[s] /\ ran'[s] = ran[s]
           /\ allocated' = allocated /\ faults' \in {faults, faults + 1}
           /\ Allowance' \in {Allowance, Allowance + 1}
<1> DEFINE Functions == /\ disk \in [Sessions -> Kernels \cup {NoRecord}]
                        /\ worktree \in [Sessions -> {"absent", "live", "missing"}]
                        /\ ran \in [Sessions -> Nat]
                        /\ faults \in Nat /\ throws \in Nat
<1>1. Functions
  BY DEF TypeOK
<1> USE DEF boxVars, Persist, Allowance
<1>2. CASE EagerSandbox(l) \/ LazySandbox(l)
  BY <1>1, <1>2 DEF EagerSandbox, LazySandbox, CreateWorktree
<1>3. CASE Rejected(l) \/ Begin(l) \/ Save(l) \/ FinalPersist(l)
  <2>1. /\ UNCHANGED <<worktree, ran, allocated, throws>>
        /\ \/ disk' = [disk EXCEPT ![sess[l]] = rec[l]] /\ UNCHANGED faults
           \/ faults' = faults + 1 /\ UNCHANGED disk
    BY <1>3 DEF Rejected, Begin, Save, FinalPersist
  <2>2. Allowance' \in {Allowance, Allowance + 1}
    BY <1>1, <2>1
  <2> QED
    BY <1>1, <2>1, <2>2
<1>4. CASE Turn(l) \/ ChatFails(l) \/ Answer(l) \/ RefuseTool(l) \/ Abort(l)
  BY <1>1, <1>4 DEF Turn, ChatFails, Answer, InvalidAnswer, ToolAnswer, RefuseTool, Abort
<1>5. CASE Tool(l) \/ ToolThrows(l) \/ ToolReturns(l) \/ Finish(l)
  BY <1>1, <1>5 DEF Tool, RunTool, OneMoreRan, ToolThrows, ToolReturns, Finish
<1>6. CASE SandboxRemove(l) \/ SandboxManifest(l)
  BY <1>1, <1>6 DEF SandboxRemove, SandboxManifest
<1> QED
  BY <1>2, <1>3, <1>4, <1>5, <1>6 DEF LoopStep

\* A start writes nothing but the locals of its loop and the ids in use.
LEMMA StartWrites ==
    ASSUME NEW l \in Loops, Start(l)
    PROVE  /\ UNCHANGED <<disk, worktree, ran, faults, throws>>
           /\ Idle(l)
           /\ \A s \in allocated : s \in allocated'
BY DEF Start, Resume, StartFresh, boxVars

\* A larger allowance never breaks what a loop promises.
LEMMA FaultRuns ==
    ASSUME NEW a \in Nat, NEW b \in {a, a + 1}, NEW p, NEW k \in Kernels,
           NEW d \in Kernels \cup {NoRecord}, NEW n \in Nat,
           Runs(p, k, d, n, a)
    PROVE  Runs(p, k, d, n, b)
<1>1. \A m \in Kernels : m.used[Turns] \in Nat /\ m.budget[Turns] \in Nat
  BY DEF Kernels, Counters, Turns
<1>2. d # NoRecord => d.used[Turns] \in Nat
  BY <1>1
<1> QED
  BY <1>1, <1>2 DEF Runs
\* One more fault keeps the promise about the worktree.
LEMMA FaultBoxes ==
    ASSUME NEW f \in Nat, NEW g \in {f, f + 1}, NEW p, NEW k, NEW d, NEW r, NEW res, NEW w,
           Boxes(p, k, d, r, res, w, f)
    PROVE  Boxes(p, k, d, r, res, w, g)
BY DEF Boxes
\* More faults and a larger allowance keep what a record at rest says.
LEMMA FaultRests ==
    ASSUME NEW f \in Nat, NEW g \in {f, f + 1}, NEW a \in Nat, NEW b \in {a, a + 1},
           NEW d \in Kernels \cup {NoRecord},
           NEW n \in Nat, NEW w, Rests(d, w, n, f, a)
    PROVE  Rests(d, w, n, g, b)
<1>1. \A m \in Kernels : m.used[Turns] \in Nat /\ m.budget[Turns] \in Nat
  BY DEF Kernels, Counters, Turns
<1> QED
  BY <1>1 DEF Rests

\* What the other loops promise outlives a step of one of them, as they serve other sessions.
LEMMA OthersServe ==
    ASSUME ServingInv, OneServer, NEW l \in Loops, Start(l) \/ LoopStep(l) \/ Abort(l),
           NEW m \in Loops \ {l}, ~Idle(m)'
    PROVE  Serves(m)'
<1> DEFINE s == sess[m]
<1>1. /\ pc'[m] = pc[m] /\ sess'[m] = sess[m] /\ req'[m] = req[m] /\ rec'[m] = rec[m]
      /\ result'[m] = result[m] /\ index'[m] = index[m]
      /\ final'[m] = final[m] /\ aborted'[m] = aborted[m]
  BY LocalsUntouched DEF ServingInv, Inv
<1>2. ~Idle(m) /\ Serves(m) /\ s \in Sessions /\ rec[m] \in Kernels
  BY <1>1 DEF ServingInv, Inv, TypeOK, Idle
<1>3. /\ disk'[s] = disk[s] /\ worktree'[s] = worktree[s] /\ ran'[s] = ran[s]
      /\ s \in allocated' /\ faults' \in {faults, faults + 1}
      /\ Allowance' \in {Allowance, Allowance + 1}
  <2>1. CASE Start(l)
    BY <1>2, <2>1, StartWrites DEF ServingInv, Serves, Allowance
  <2>2. CASE LoopStep(l) \/ Abort(l)
    <3>1. ~Idle(l)
      BY <2>2, Moving DEF ServingInv, Inv
    <3>2. s # sess[l]
      BY <1>2, <3>1 DEF OneServer
    <3> QED
      BY <1>2, <2>2, <3>1, <3>2, SessionsUntouched DEF ServingInv, Inv, Serves
  <2> QED
    BY <2>1, <2>2
<1>4. /\ faults \in Nat /\ disk[s] \in Kernels \cup {NoRecord} /\ ran[s] \in Nat
      /\ Allowance \in Nat
  BY <1>2 DEF ServingInv, Inv, TypeOK, Allowance
<1>5. Runs(pc[m], rec[m], disk[s], ran[s], Allowance)
  BY <1>2 DEF Serves
<1>6. Runs(pc[m], rec[m], disk[s], ran[s], Allowance')
  <2> DEFINE b == Allowance'
  <2>1. b \in {Allowance, Allowance + 1}
    BY <1>3
  <2> HIDE DEF b
  <2>2. Runs(pc[m], rec[m], disk[s], ran[s], b)
    BY <1>2, <1>4, <1>5, <2>1, FaultRuns
  <2> QED BY <2>2 DEF b
<1>7. Boxes(pc[m], rec[m], disk[s], req[m], result[m], worktree[s], faults')
  BY <1>2, <1>3, <1>4, FaultBoxes DEF Serves
<1> QED
  BY <1>1, <1>2, <1>3, <1>6, <1>7 DEF Serves

\* The fields of a record, and of one that is changed in one field.
LEMMA FieldFacts ==
    ASSUME NEW k \in Kernels
    PROVE  /\ k.used \in [Counters -> Nat] /\ k.budget \in [Counters -> Nat]
           /\ k.used[Tools] \in Nat /\ k.budget[Tools] \in Nat
           /\ k.used[Turns] \in Nat /\ k.budget[Turns] \in Nat
           /\ k.box \in BOOLEAN /\ k # NoRecord
           /\ k.status \in {"running", "completed", "blocked", "interrupted"}
BY DEF Kernels, NoRecord, Counters, Tools, Turns
\* A record with another status keeps its other fields.
LEMMA StatusFacts ==
    ASSUME NEW k \in Kernels, NEW x \in {"running", "completed", "blocked", "interrupted"},
           NEW m, m = [k EXCEPT !.status = x]
    PROVE  /\ m \in Kernels /\ m.status = x /\ m.task = k.task /\ m.box = k.box
           /\ m.used = k.used /\ m.budget = k.budget /\ m.step = k.step
BY DEF Kernels
\* A record that names a worktree keeps its other fields.
LEMMA BoxFacts ==
    ASSUME NEW k \in Kernels, NEW m, m = [k EXCEPT !.box = TRUE]
    PROVE  /\ m \in Kernels /\ m.status = k.status /\ m.task = k.task /\ m.box = TRUE
           /\ m.used = k.used /\ m.budget = k.budget /\ m.step = k.step
BY DEF Kernels

\* A record is not ahead of itself.
LEMMA PaidByItself ==
    ASSUME NEW d \in Kernels, NEW k \in Kernels, d.used = k.used
    PROVE  PaidBy(d, k, 0)
<1>1. \A c \in Counters : d.used[c] \in Nat
  BY FieldFacts
<1> QED
  BY <1>1 DEF PaidBy, Counters, Tools

\* A record that counts more turns and tools than k stays paid for.
LEMMA PaidOn ==
    ASSUME NEW d \in Kernels, NEW k \in Kernels, NEW m \in Kernels,
           NEW open \in {0, 1}, NEW next \in {0, 1}, PaidBy(d, k, open),
           \A c \in Counters : k.used[c] <= m.used[c],
           \A c \in Buckets : m.used[c] - k.used[c] <= m.used[Tools] - k.used[Tools],
           m.used[Tools] - k.used[Tools] + next <= m.used["modelTurns"] - k.used["modelTurns"] + open
    PROVE  PaidBy(d, m, next)
<1>1. /\ Tools \in Counters /\ "modelTurns" \in Counters
      /\ \A c \in Buckets : c \in Counters
  BY DEF Counters, Tools
<1>2. \A c \in Counters : d.used[c] \in Nat /\ k.used[c] \in Nat /\ m.used[c] \in Nat
  BY FieldFacts
<1>3. \A c \in Counters : d.used[c] <= m.used[c]
  BY <1>2 DEF PaidBy
<1>4. m.used[Tools] - d.used[Tools] + next <= m.used["modelTurns"] - d.used["modelTurns"]
  <2>1. k.used[Tools] - d.used[Tools] + open <= k.used["modelTurns"] - d.used["modelTurns"]
    BY DEF PaidBy
  <2> QED
    BY <1>1, <1>2, <2>1
<1>5. ASSUME NEW c \in Buckets
      PROVE  m.used[c] - d.used[c] <= m.used[Tools] - d.used[Tools]
  <2>1. k.used[c] - d.used[c] <= k.used[Tools] - d.used[Tools]
    BY DEF PaidBy
  <2>2. m.used[c] - k.used[c] <= m.used[Tools] - k.used[Tools]
    OBVIOUS
  <2> QED
    BY <1>1, <1>2, <2>1, <2>2
<1> QED
  BY <1>3, <1>4, <1>5 DEF PaidBy

\* A loop that starts takes over what the record of its session says.
LEMMA StartServes ==
    ASSUME ServingInv, OneServer', NEW l \in Loops, Start(l)
    PROVE  Serves(l)'
<1>1. PICK r \in Requests, s \in Sessions : Resume(l, r, s) \/ StartFresh(l, r, s)
  BY DEF Start
<1>2. /\ TypeOK /\ Kept(s) /\ Idle(l)
      /\ UNCHANGED <<disk, worktree, ran, faults, throws, result>>
      /\ faults \in Nat /\ ran[s] \in Nat /\ disk[s] \in Kernels \cup {NoRecord}
      /\ Allowance \in Nat /\ Allowance' = Allowance
  BY <1>1 DEF ServingInv, Inv, TypeOK, Resume, StartFresh, Enter, boxVars, Allowance
<1>3. ASSUME NEW k \in Kernels, NEW label \in {"rejected", "eager", "begin"}, Enter(l, r, s, k, label)
      PROVE  pc'[l] = label /\ rec'[l] = k /\ sess'[l] = s /\ req'[l] = r
  BY <1>2, <1>3 DEF Enter, Goto, SetRec, TypeOK
<1>4. CASE Resume(l, r, s)
  <2> DEFINE d == disk[s]
  <2>1. d \in Kernels /\ d # NoRecord
    BY <1>2, <1>4, ResumesRecord, FieldFacts DEF Resume
  <2>2. /\ Resumed(d, r) \in Kernels /\ Resumed(d, r).used = d.used
        /\ Resumed(d, r).budget = d.budget /\ Resumed(d, r).task = d.task
        /\ Resumed(d, r).box = d.box
        /\ Resumed(d, r).status = IF ResumeAllowed(d, r) THEN "running" ELSE "blocked"
    <3> HIDE DEF d
    <3> QED BY ZenonT(30), <1>2, <2>1, ResumedFacts DEF Resumed, Kernels
  <2>3. PICK k \in Kernels, label \in {"rejected", "begin"} :
            /\ Enter(l, r, s, k, label)
            /\ k.used = d.used /\ k.budget = d.budget /\ k.task = d.task /\ k.box = d.box
            /\ label = "rejected" => k.status = "blocked"
            /\ label = "begin" => k.status = "running" /\ ResumeAllowed(d, r)
    <3> DEFINE k == Resumed(d, r)
    <3>1. /\ [k EXCEPT !.status = "blocked"] \in Kernels
          /\ [k EXCEPT !.status = "blocked"].status = "blocked"
          /\ [k EXCEPT !.status = "blocked"].task = k.task
          /\ [k EXCEPT !.status = "blocked"].box = k.box
          /\ [k EXCEPT !.status = "blocked"].used = k.used
          /\ [k EXCEPT !.status = "blocked"].budget = k.budget
      <4> HIDE DEF k, d
      <4> QED BY <2>2, StatusFacts DEF k
    <3>2. CASE ~ResumeAllowed(d, r)
      <4>1. Enter(l, r, s, k, "rejected")
        BY <1>4, <3>2 DEF Resume
      <4> HIDE DEF k, d
      <4> QED BY <2>2, <3>2, <4>1 DEF k
    <3>3. CASE ResumeAllowed(d, r) /\ k.box /\ manifest[s] = "cleaned"
      <4>1. Enter(l, r, s, [k EXCEPT !.status = "blocked"], "rejected")
        BY <1>4, <3>3 DEF Resume
      <4> HIDE DEF k, d
      <4> QED BY <2>2, <3>1, <4>1 DEF k
    <3>4. CASE ResumeAllowed(d, r) /\ ~(k.box /\ manifest[s] = "cleaned")
      <4>1. Enter(l, r, s, k, "begin")
        BY <1>4, <3>4 DEF Resume
      <4> HIDE DEF k, d
      <4> QED BY <2>2, <3>4, <4>1 DEF k
    <3> QED
      BY <3>2, <3>3, <3>4
  <2>4. /\ pc'[l] = label /\ rec'[l] = k /\ sess'[l] = s /\ req'[l] = r
    BY <1>3, <2>3
  <2>5. ~Served(s)
    <3>1. SUFFICES ASSUME NEW m \in Loops, ~Idle(m), sess[m] = s
                   PROVE  FALSE
      BY DEF Served
    <3>2. m # l
      BY <1>2, <3>1
    <3>3. pc'[m] = pc[m] /\ sess'[m] = sess[m]
      BY <1>2, <3>2, LocalsUntouched
    <3>4. ~Idle(m)' /\ ~Idle(l)' /\ sess'[m] = sess'[l]
      BY <2>4, <3>1, <3>3 DEF Idle
    <3> QED
      BY <3>2, <3>4 DEF OneServer
  <2>6. /\ ran[s] <= d.budget[Turns] + Allowance
        /\ d.status \notin Terminal =>
            /\ d.box /\ faults = 0 => worktree[s] = "live"
            /\ ran[s] <= d.used[Turns] + Allowance
    BY <1>2, <2>1, <2>5 DEF Kept, Rests
  <2>7. s \in allocated'
    BY <1>2, <1>4, <2>1 DEF Resume, Kept
  <2>8. label = "begin" => d.task = r.task /\ d.status \notin Terminal
    BY <2>3 DEF ResumeAllowed
  <2>9. PaidBy(d, k, 0) /\ k.used[Turns] \in Nat /\ k.budget[Turns] \in Nat
    BY <2>1, <2>3, PaidByItself, FieldFacts
  <2>10. Books(label, k, d)
    BY <2>3, <2>8, <2>9 DEF Books
  <2>11. Boxes(label, k, d, r, result[l], worktree[s], faults)
    BY <2>1, <2>3, <2>6, <2>8 DEF Boxes
  <2>12. Runs(label, k, d, ran[s], Allowance)
    BY <1>2, <2>3, <2>4, <2>6, <2>8, <2>9 DEF Runs
  <2> QED
    BY <1>2, <2>4, <2>7, <2>10, <2>11, <2>12 DEF Serves
<1>5. CASE StartFresh(l, r, s)
  <2> DEFINE k == NewKernel(r)
  <2>1. /\ k \in Kernels /\ k.task = r.task /\ k.box = FALSE /\ k.status = "running"
        /\ k.used[Turns] \in Nat /\ k.budget[Turns] \in Nat
    BY <1>2, NewKernelFacts, FieldFacts DEF NewKernel
  <2>2. PICK label \in {"eager", "begin"} : Enter(l, r, s, k, label)
    BY <1>5 DEF StartFresh
  <2>3. s \in allocated' /\ disk[s] = NoRecord /\ ran[s] = 0
    BY <1>2, <1>5 DEF StartFresh, Kept
  <2> HIDE DEF k
  <2>4. /\ pc'[l] = label /\ rec'[l] = k /\ sess'[l] = s /\ req'[l] = r
    BY <1>3, <2>1, <2>2
  <2>5. Books(label, k, NoRecord)
    BY <2>1 DEF Books
  <2>6. Boxes(label, k, NoRecord, r, result[l], worktree[s], faults)
    BY <2>1 DEF Boxes
  <2>7. Runs(label, k, NoRecord, 0, Allowance)
    BY <1>2, <2>1 DEF Runs
  <2> QED
    BY <1>2, <2>3, <2>4, <2>5, <2>6, <2>7 DEF Serves
<1> QED
  BY <1>1, <1>4, <1>5

\* What is known of a loop that serves a request.
LEMMA ServingFacts ==
    ASSUME ServingInv, NEW l \in Loops, ~Idle(l)
    PROVE  /\ TypeOK
           /\ sess[l] \in Sessions /\ req[l] \in Requests /\ rec[l] \in Kernels
           /\ disk[sess[l]] \in Kernels \cup {NoRecord}
           /\ ran[sess[l]] \in Nat /\ faults \in Nat /\ Allowance \in Nat
           /\ index[l] \in Nat /\ result[l] \in Results /\ aborted[l] \in BOOLEAN
           /\ rec[l].used[Tools] \in Nat /\ rec[l].budget[Tools] \in Nat /\ rec[l].box \in BOOLEAN
           /\ rec[l].used[Turns] \in Nat /\ rec[l].budget[Turns] \in Nat
           /\ disk[sess[l]] # NoRecord =>
                disk[sess[l]].used[Tools] \in Nat /\ disk[sess[l]].used[Turns] \in Nat
           /\ Accounts(pc[l], rec[l], result[l], index[l])
           /\ sess[l] \in allocated
           /\ Books(pc[l], rec[l], disk[sess[l]])
           /\ Boxes(pc[l], rec[l], disk[sess[l]], req[l], result[l], worktree[sess[l]], faults)
           /\ Runs(pc[l], rec[l], disk[sess[l]], ran[sess[l]], Allowance)
           /\ Tidy(disk[sess[l]], worktree[sess[l]])
<1>1. TypeOK /\ Serves(l) /\ Accounting(l)
  BY DEF ServingInv, Inv
<1>2. /\ sess[l] \in Sessions /\ req[l] \in Requests /\ rec[l] \in Kernels
      /\ disk[sess[l]] \in Kernels \cup {NoRecord}
      /\ ran[sess[l]] \in Nat /\ faults \in Nat /\ Allowance \in Nat
      /\ index[l] \in Nat /\ result[l] \in Results /\ aborted[l] \in BOOLEAN
  BY <1>1 DEF TypeOK, Allowance
<1>3. Tidy(disk[sess[l]], worktree[sess[l]])
  BY <1>2 DEF ServingInv, Kept
<1> QED
  BY <1>1, <1>2, <1>3, FieldFacts DEF Serves, Accounting

\* The steps that write no shared state: the loop's own promises are kept.
LEMMA QuietServes ==
    ASSUME ServingInv, NEW l \in Loops, ~Idle(l),
           Turn(l) \/ Abort(l) \/ RefuseTool(l) \/ Finish(l) \/ SandboxManifest(l)
    PROVE  /\ Serves(l)' /\ sess'[l] = sess[l]
           /\ UNCHANGED <<disk, worktree, ran, faults, throws, allocated>>
<1> DEFINE s == sess[l]
           d == disk[s]
<1>1. /\ TypeOK
      /\ sess[l] \in Sessions /\ req[l] \in Requests /\ rec[l] \in Kernels
      /\ d \in Kernels \cup {NoRecord} /\ ran[s] \in Nat /\ faults \in Nat
      /\ Allowance \in Nat
      /\ rec[l].used[Turns] \in Nat /\ (d # NoRecord => d.used[Turns] \in Nat)
      /\ Accounts(pc[l], rec[l], result[l], index[l])
      /\ s \in allocated
      /\ Books(pc[l], rec[l], d)
      /\ Boxes(pc[l], rec[l], d, req[l], result[l], worktree[s], faults)
      /\ Runs(pc[l], rec[l], d, ran[s], Allowance)
  BY ServingFacts
<1> HIDE DEF d, s
<1>2. /\ UNCHANGED <<disk, worktree, ran, faults, throws, allocated, sess, req>>
      /\ Allowance' = Allowance
  BY DEF Turn, Abort, RefuseTool, Finish, SandboxManifest, boxVars, Allowance
<1>3. ASSUME Books(pc'[l], rec'[l], d),
             Boxes(pc'[l], rec'[l], d, req[l], result'[l], worktree[s], faults),
             Runs(pc'[l], rec'[l], d, ran[s], Allowance)
      PROVE  Serves(l)'
  BY <1>1, <1>2, <1>3 DEF Serves, s, d
<1>a. SUFFICES Serves(l)'
  BY <1>2
<1>4. CASE Turn(l)
  <2>1. /\ pc[l] = "turn" /\ pc'[l] \in {"chat", "finish"} /\ rec'[l] = rec[l]
        /\ result' = result
    BY <1>1, <1>4 DEF Turn, TypeOK, Goto
  <2> QED
    BY <1>1, <1>3, <2>1 DEF Books, Boxes, Runs
<1>5. CASE Abort(l)
  <2>1. pc' = pc /\ rec' = rec /\ result' = result
    BY <1>1, <1>5 DEF Abort, TypeOK
  <2> QED
    BY <1>1, <1>3, <2>1
<1>6. CASE RefuseTool(l)
  <2>1. /\ pc[l] = "tool" /\ pc'[l] = "ran" /\ rec'[l] = rec[l]
    BY <1>1, <1>6 DEF RefuseTool, TypeOK, Goto
  <2> QED
    BY <1>1, <1>3, <2>1 DEF Books, Boxes, Runs
<1>7. CASE Finish(l)
  <2> DEFINE x == IF final[l] = "max_steps_reached" THEN "interrupted" ELSE final[l]
  <2>1. /\ pc[l] = "finish" /\ pc'[l] = IF SandboxDone(l) THEN "diff" ELSE "final"
        /\ rec'[l] = [rec[l] EXCEPT !.status = x]
        /\ UNCHANGED result
    BY <1>1, <1>7 DEF Finish, TypeOK, Goto, SetRec
  <2>2. x \in {"running", "completed", "blocked", "interrupted"}
    BY <1>1 DEF TypeOK
  <2>3. /\ rec'[l].status = x /\ rec'[l].task = rec[l].task /\ rec'[l].box = rec[l].box
        /\ rec'[l].used = rec[l].used /\ rec'[l].budget = rec[l].budget
    <3> HIDE DEF x
    <3> QED BY <1>1, <2>1, <2>2, StatusFacts
  <2>4. final[l] # "max_steps_reached" <=> x \in Terminal
    BY <1>1 DEF TypeOK, Terminal
  <2>6. Books(pc'[l], rec'[l], d)
    BY <1>1, <2>1, <2>3, <2>4 DEF Books, PaidBy, SandboxDone
  <2>7. Boxes(pc'[l], rec'[l], d, req[l], result'[l], worktree[s], faults)
    <3>1. SandboxDone(l) <=> rec[l].box /\ final[l] # "max_steps_reached"
      BY DEF SandboxDone
    <3> HIDE DEF x
    <3> QED BY <1>1, <2>1, <2>3, <2>4, <3>1 DEF Boxes, Terminal
  <2>8. Runs(pc'[l], rec'[l], d, ran[s], Allowance)
    BY <1>1, <2>1, <2>3 DEF Runs
  <2> QED
    BY <1>3, <2>6, <2>7, <2>8
<1>8. CASE SandboxManifest(l)
  <2>1. /\ pc[l] = "manifest" /\ pc'[l] = "final" /\ rec'[l] = rec[l]
        /\ UNCHANGED result
    BY <1>1, <1>8 DEF SandboxManifest, TypeOK, Goto
  <2> QED
    BY <1>1, <1>3, <2>1 DEF Books, Boxes, Runs
<1> QED
  BY <1>4, <1>5, <1>6, <1>7, <1>8

\* From the model's answer to the checkpoint after it, on shared state only a tool runs.
LEMMA TurnServes ==
    ASSUME ServingInv, NEW l \in Loops, ~Idle(l), Answer(l) \/ Tool(l) \/ ToolReturns(l)
    PROVE  /\ Serves(l)' /\ sess'[l] = sess[l]
           /\ UNCHANGED <<disk, worktree, faults, throws, allocated>>
<1> DEFINE s == sess[l]
           d == disk[s]
<1>1. /\ TypeOK
      /\ s \in Sessions /\ req[l] \in Requests /\ rec[l] \in Kernels
      /\ d \in Kernels \cup {NoRecord} /\ ran[s] \in Nat /\ faults \in Nat
      /\ Allowance \in Nat /\ result[l] \in Results
      /\ rec[l].used[Turns] \in Nat /\ rec[l].budget[Turns] \in Nat
      /\ d # NoRecord => d.used[Turns] \in Nat
      /\ Accounts(pc[l], rec[l], result[l], index[l])
      /\ s \in allocated
      /\ Books(pc[l], rec[l], d)
      /\ Boxes(pc[l], rec[l], d, req[l], result[l], worktree[s], faults)
      /\ Runs(pc[l], rec[l], d, ran[s], Allowance)
  BY ServingFacts
<1> HIDE DEF d, s
<1>2. /\ UNCHANGED <<disk, worktree, faults, throws, allocated, sess, req>>
      /\ Allowance' = Allowance
  BY DEF Answer, InvalidAnswer, ToolAnswer, Tool, RunTool, ToolReturns, boxVars, Allowance
<1>3. ASSUME Books(pc'[l], rec'[l], d),
             Boxes(pc'[l], rec'[l], d, req[l], result'[l], worktree[s], faults),
             Runs(pc'[l], rec'[l], d, ran'[s], Allowance)
      PROVE  Serves(l)'
  BY <1>1, <1>2, <1>3 DEF Serves, s, d
<1>a. SUFFICES Serves(l)'
  BY <1>2
<1>4. \A c \in Counters : rec[l].used[c] \in Nat /\ (d # NoRecord => d.used[c] \in Nat)
  BY <1>1, FieldFacts
<1>5. CASE Answer(l)
  <2> DEFINE k == TurnRecorded(rec[l])
  <2>1. /\ pc[l] = "chat" /\ rec'[l] = k /\ ran' = ran
        /\ pc'[l] \in {"ran", "tool", "lazy"}
        /\ pc'[l] = "lazy" => ~rec[l].box
        /\ pc'[l] = "tool" /\ result'[l].action = "editOps" /\ req[l].strict => rec[l].box
    <3>1. CASE InvalidAnswer(l)
      BY <1>1, <3>1 DEF InvalidAnswer, TypeOK, Goto, SetRec, Refused
    <3>2. ASSUME NEW action \in ModelActions, NEW safe \in BOOLEAN, ToolAnswer(l, action, safe)
          PROVE  /\ pc[l] = "chat" /\ rec'[l] = k /\ ran' = ran
                 /\ pc'[l] \in {"tool", "lazy"}
                 /\ pc'[l] = "lazy" => ~rec[l].box
                 /\ pc'[l] = "tool" /\ result'[l].action = "editOps" /\ req[l].strict => rec[l].box
      BY <1>1, <3>2 DEF ToolAnswer, TypeOK, Goto, SetRec, Refused, NeedsWorktree
    <3> QED
      BY <1>5, <3>1, <3>2 DEF Answer
  <2>2. /\ k.used["modelTurns"] = rec[l].used["modelTurns"] + 1
        /\ \A c \in Buckets \cup {Tools} : k.used[c] = rec[l].used[c]
        /\ k.budget = rec[l].budget
    BY <1>1, TurnRecordedFacts DEF Tools
  <2>3. k.box = rec[l].box /\ k.status = rec[l].status /\ k.task = rec[l].task
    BY <1>1 DEF TurnRecorded, Kernels
  <2> HIDE DEF k
  <2>4. d # NoRecord => PaidBy(d, rec[l], 0)
    BY <1>1, <2>1 DEF Books
  <2>5. d # NoRecord => PaidBy(d, k, 1)
    <3>1. \A c \in Buckets \cup {Tools} : k.used[c] - rec[l].used[c] = 0
      BY <1>4, <2>2 DEF Counters, Tools
    <3>2. \A c \in Counters : rec[l].used[c] <= k.used[c]
      BY <1>4, <2>2 DEF Counters, Tools
    <3>3. /\ rec[l].used["modelTurns"] \in Nat /\ rec[l].used[Tools] \in Nat
          /\ k.used[Tools] - rec[l].used[Tools] + 1 <= k.used["modelTurns"] - rec[l].used["modelTurns"] + 0
      BY <1>4, <2>2, <3>1 DEF Counters, Tools
    <3>4. k \in Kernels
      BY <1>1, TurnRecordedFacts DEF k
    <3> QED
      BY <1>1, <2>4, <3>1, <3>2, <3>3, <3>4, PaidOn
  <2>7. k.used[Turns] = rec[l].used[Turns] + 1
    BY <2>2 DEF Turns
  <2>8. Books(pc'[l], rec'[l], d)
    BY <1>1, <2>1, <2>2, <2>3, <2>5 DEF Books
  <2>9. Boxes(pc'[l], rec'[l], d, req[l], result'[l], worktree[s], faults)
    BY <1>1, <2>1, <2>3 DEF Boxes
  <2>10. Runs(pc'[l], rec'[l], d, ran'[s], Allowance)
    BY <1>1, <2>1, <2>2, <2>7 DEF Runs
  <2> QED
    BY <1>3, <2>8, <2>9, <2>10
<1>6. CASE Tool(l)
  <2>1. PICK outcome \in ToolOutcomes(result[l].action) : RunTool(l, outcome)
    BY <1>6 DEF Tool
  <2>2. /\ pc[l] = "tool" /\ pc'[l] = "ran" /\ rec'[l] = rec[l] /\ result'[l] = outcome
    BY <1>1, <2>1 DEF RunTool, TypeOK, Goto
  <2>3. ran'[s] \in {ran[s], ran[s] + 1} /\ ran'[s] \in Nat
    BY <1>1, <2>1 DEF RunTool, OneMoreRan, TypeOK, s
  <2>4. rec[l].used[Turns] <= rec[l].budget[Turns]
    BY <1>1, <2>1, <2>2 DEF RunTool, Refusal, BudgetAllows, Turns
  <2>6. Books(pc'[l], rec'[l], d)
    BY <1>1, <2>2 DEF Books
  <2>7. Boxes(pc'[l], rec'[l], d, req[l], result'[l], worktree[s], faults)
    BY <1>1, <2>2 DEF Boxes
  <2>8. Runs(pc'[l], rec'[l], d, ran'[s], Allowance)
    BY <1>1, <2>2, <2>3, <2>4 DEF Runs
  <2> QED
    BY <1>3, <2>6, <2>7, <2>8
<1>7. CASE ToolReturns(l)
  <2> DEFINE res == Reported(l)
             k1 == ToolRecorded(rec[l], res)
             k == Checkpointed(k1, index[l] + 1, repairs[l])
  <2>1. /\ pc[l] = "ran" /\ pc'[l] = "save" /\ rec'[l] = k /\ ran' = ran
    BY <1>1, <1>7 DEF ToolReturns, TypeOK, Goto, SetRec
  <2>2. /\ res \in Results /\ res.action = result[l].action
        /\ res.executed \in BOOLEAN /\ result[l].executed \in BOOLEAN
    BY <1>1, ReportedType DEF Reported, Results
  <2>3. /\ k1 \in Kernels /\ k1.budget = rec[l].budget
        /\ \A c \in Counters : k1.used[c] =
              IF res.executed /\ res.action \notin FinalReports /\ c \in {Tools, res.action}
              THEN rec[l].used[c] + 1 ELSE rec[l].used[c]
    <3> HIDE DEF res
    <3> QED BY <1>1, <2>2, ToolRecordedFacts DEF Tools
  <2>4. k1.box = rec[l].box /\ k1.status = rec[l].status /\ k1.task = rec[l].task
    BY <1>1 DEF ToolRecorded, Kernels
  <2>5. /\ k.used = k1.used /\ k.budget = rec[l].budget
        /\ k.box = rec[l].box /\ k.status = rec[l].status /\ k.task = rec[l].task
    <3> HIDE DEF k1
    <3> QED BY <2>3, <2>4 DEF Checkpointed, Kernels
  <2>12. k \in Kernels
    <3>1. index[l] + 1 \in Nat /\ repairs[l] \in Nat
      BY <1>1 DEF TypeOK
    <3> HIDE DEF k1
    <3> QED BY <2>3, <3>1, CheckpointedFacts
  <2> HIDE DEF k, k1, res
  <2>7. d # NoRecord => PaidBy(d, k, 0)
    <3>1. SUFFICES ASSUME d # NoRecord PROVE PaidBy(d, k, 0)
      OBVIOUS
    <3>2. PaidBy(d, rec[l], 1)
      BY <1>1, <2>1, <3>1 DEF Books
    <3>3. res.action # "modelTurns" /\ res.action # Tools
      BY <2>2 DEF Results, Actions, Buckets, FinalReports, Tools
    <3>4. k.used["modelTurns"] = rec[l].used["modelTurns"]
      BY <2>3, <2>5, <3>3 DEF Counters, Tools
    <3>5. CASE res.executed /\ res.action \notin FinalReports
      <4>1. k.used[Tools] = rec[l].used[Tools] + 1
        BY <2>3, <2>5, <3>5 DEF Counters, Tools
      <4>2. \A c \in Buckets : k.used[c] \in {rec[l].used[c], rec[l].used[c] + 1}
        BY <2>3, <2>5 DEF Counters
      <4> QED
        <5>1. \A c \in Counters : rec[l].used[c] <= k.used[c]
          BY <1>4, <3>4, <4>1, <4>2 DEF Counters, Tools
        <5>2. \A c \in Buckets : k.used[c] - rec[l].used[c] <= k.used[Tools] - rec[l].used[Tools]
          BY <1>1, <1>4, <4>1, <4>2 DEF Counters, Tools
        <5>3. k.used[Tools] - rec[l].used[Tools] + 0 <= k.used["modelTurns"] - rec[l].used["modelTurns"] + 1
          BY <1>4, <3>4, <4>1 DEF Counters, Tools
        <5> QED
          BY <1>1, <2>12, <3>1, <3>2, <5>1, <5>2, <5>3, PaidOn
    <3>6. CASE ~(res.executed /\ res.action \notin FinalReports)
      <4>1. \A c \in Counters : k.used[c] = rec[l].used[c]
        BY <2>2, <2>3, <2>5, <3>6
      <4> QED
        <5>1. \A c \in Counters : k.used[c] - rec[l].used[c] = 0 /\ rec[l].used[c] <= k.used[c]
          BY <1>4, <4>1
        <5>2. Tools \in Counters /\ "modelTurns" \in Counters /\ \A c \in Buckets : c \in Counters
          BY DEF Counters, Tools
        <5>3. k.used[Tools] - rec[l].used[Tools] + 0 <= k.used["modelTurns"] - rec[l].used["modelTurns"] + 1
          BY <5>1, <5>2
        <5> QED
          BY <1>1, <2>12, <3>1, <3>2, <5>1, <5>2, <5>3, PaidOn
    <3> QED
      BY <3>5, <3>6
  <2>8. k.used[Turns] = rec[l].used[Turns]
    <3>1. Turns \in Counters /\ Turns \notin {Tools, res.action}
      BY <2>2 DEF Turns, Tools, Counters, Results, Actions, Buckets, FinalReports
    <3> QED
      BY <2>3, <2>5, <3>1
  <2>9. Books(pc'[l], rec'[l], d)
    BY <1>1, <2>1, <2>5, <2>7 DEF Books
  <2>10. Boxes(pc'[l], rec'[l], d, req[l], result'[l], worktree[s], faults)
    BY <1>1, <2>1, <2>5 DEF Boxes
  <2>11. Runs(pc'[l], rec'[l], d, ran'[s], Allowance)
    BY <1>1, <2>1, <2>5, <2>8 DEF Runs
  <2> QED
    BY <1>3, <2>9, <2>10, <2>11
<1> QED
  BY <1>5, <1>6, <1>7

\* A worktree is made for a record that names none, and taken away by the last loop.
LEMMA SandboxServes ==
    ASSUME ServingInv, NEW l \in Loops, ~Idle(l),
           EagerSandbox(l) \/ LazySandbox(l) \/ SandboxRemove(l)
    PROVE  /\ Serves(l)' /\ sess'[l] = sess[l]
           /\ UNCHANGED <<disk, ran, faults, throws, allocated>>
           /\ Tidy(disk[sess[l]], worktree'[sess[l]])
<1> DEFINE s == sess[l]
           d == disk[s]
<1>1. /\ TypeOK
      /\ s \in Sessions /\ req[l] \in Requests /\ rec[l] \in Kernels
      /\ d \in Kernels \cup {NoRecord} /\ ran[s] \in Nat /\ faults \in Nat
      /\ Allowance \in Nat
      /\ rec[l].used[Turns] \in Nat /\ rec[l].budget[Turns] \in Nat
      /\ d # NoRecord => d.used[Turns] \in Nat
      /\ s \in allocated
      /\ Books(pc[l], rec[l], d)
      /\ Boxes(pc[l], rec[l], d, req[l], result[l], worktree[s], faults)
      /\ Runs(pc[l], rec[l], d, ran[s], Allowance)
  BY ServingFacts
<1> HIDE DEF d, s
<1>2. UNCHANGED <<disk, ran, faults, throws, allocated, sess, req>> /\ Allowance' = Allowance
  BY DEF EagerSandbox, LazySandbox, SandboxRemove, Allowance
<1>3. ASSUME Books(pc'[l], rec'[l], d),
             Boxes(pc'[l], rec'[l], d, req[l], result'[l], worktree'[s], faults),
             Runs(pc'[l], rec'[l], d, ran[s], Allowance)
      PROVE  Serves(l)'
  BY <1>1, <1>2, <1>3 DEF Serves, s, d
<1>4. Tidy(d, worktree'[s])
  <2>1. pc[l] \in {"eager", "lazy", "diff"}
    BY DEF EagerSandbox, LazySandbox, SandboxRemove
  <2> QED
    BY <1>1, <2>1 DEF Books, Tidy, Terminal
<1>a. SUFFICES Serves(l)'
  BY <1>2, <1>4 DEF s, d
<1>5. WorktreeCreated(s) /\ CreateWorktree(s) => worktree'[s] = "live"
  BY <1>1 DEF WorktreeCreated, CreateWorktree, TypeOK
<1>6. /\ rec' = [rec EXCEPT ![l] = [rec[l] EXCEPT !.box = TRUE]] =>
            /\ rec'[l].status = rec[l].status /\ rec'[l].task = rec[l].task
            /\ rec'[l].box = TRUE
            /\ rec'[l].used = rec[l].used /\ rec'[l].budget = rec[l].budget
      /\ rec' = [rec EXCEPT ![l] = [rec[l] EXCEPT !.status = "blocked"]] =>
            /\ rec'[l].status = "blocked" /\ rec'[l].task = rec[l].task
            /\ rec'[l].box = rec[l].box
            /\ rec'[l].used = rec[l].used /\ rec'[l].budget = rec[l].budget
  BY <1>1 DEF TypeOK, Kernels
<1>7. CASE EagerSandbox(l)
  <2>1. pc[l] = "eager" /\ CreateWorktree(s)
    BY <1>7 DEF EagerSandbox, s
  <2>2. CASE WorktreeCreated(s)
    <3>1. /\ rec' = [rec EXCEPT ![l] = [rec[l] EXCEPT !.box = TRUE]]
          /\ pc'[l] = "begin" /\ worktree'[s] = "live"
      BY <1>1, <1>5, <1>7, <2>1, <2>2 DEF EagerSandbox, s, SetRec, Goto, TypeOK
    <3>3. Books(pc'[l], rec'[l], d)
      BY <1>1, <1>6, <2>1, <3>1 DEF Books, PaidBy
    <3>4. Boxes(pc'[l], rec'[l], d, req[l], result'[l], worktree'[s], faults)
      BY <1>1, <1>6, <2>1, <3>1 DEF Boxes
    <3>5. Runs(pc'[l], rec'[l], d, ran[s], Allowance)
      BY <1>1, <1>6, <2>1, <3>1 DEF Runs
    <3> QED
      BY <1>3, <3>3, <3>4, <3>5
  <2>3. CASE ~WorktreeCreated(s)
    <3>1. /\ rec' = [rec EXCEPT ![l] = [rec[l] EXCEPT !.status = "blocked"]]
          /\ pc'[l] = "rejected"
      BY <1>1, <1>7, <2>1, <2>3 DEF EagerSandbox, s, SetRec, Goto, TypeOK
    <3>3. d = NoRecord
      BY <1>1, <2>1 DEF Books
    <3>4. Books(pc'[l], rec'[l], d)
      BY <1>1, <1>6, <2>1, <3>1, <3>3 DEF Books
    <3>5. Boxes(pc'[l], rec'[l], d, req[l], result'[l], worktree'[s], faults)
      BY <1>1, <1>6, <2>1, <3>1, <3>3 DEF Boxes
    <3>6. Runs(pc'[l], rec'[l], d, ran[s], Allowance)
      BY <1>1, <1>6, <2>1, <3>1, <3>3 DEF Runs
    <3> QED
      BY <1>3, <3>4, <3>5, <3>6
  <2> QED
    BY <2>2, <2>3
<1>8. CASE LazySandbox(l)
  <2>1. pc[l] = "lazy" /\ CreateWorktree(s)
    BY <1>8 DEF LazySandbox, s
  <2>2. CASE WorktreeCreated(s)
    <3>1. /\ rec' = [rec EXCEPT ![l] = [rec[l] EXCEPT !.box = TRUE]]
          /\ pc'[l] = "tool" /\ worktree'[s] = "live"
      BY <1>1, <1>5, <1>8, <2>1, <2>2 DEF LazySandbox, s, SetRec, Goto, TypeOK
    <3>3. Books(pc'[l], rec'[l], d)
      BY <1>1, <1>6, <2>1, <3>1 DEF Books, PaidBy
    <3>4. Boxes(pc'[l], rec'[l], d, req[l], result'[l], worktree'[s], faults)
      BY <1>1, <1>6, <2>1, <3>1 DEF Boxes
    <3>5. Runs(pc'[l], rec'[l], d, ran[s], Allowance)
      BY <1>1, <1>6, <2>1, <3>1 DEF Runs
    <3> QED
      BY <1>3, <3>3, <3>4, <3>5
  <2>3. CASE ~WorktreeCreated(s)
    <3>1. /\ rec' = rec /\ pc'[l] = "ran" /\ result'[l] = Refused(result[l].action, "sandbox")
      BY <1>1, <1>8, <2>1, <2>3 DEF LazySandbox, s, SetRec, Goto, TypeOK
    <3>3. Books(pc'[l], rec'[l], d)
      BY <1>1, <2>1, <3>1 DEF Books
    <3>4. Boxes(pc'[l], rec'[l], d, req[l], result'[l], worktree'[s], faults)
      BY <1>1, <2>1, <3>1 DEF Boxes
    <3>5. Runs(pc'[l], rec'[l], d, ran[s], Allowance)
      BY <1>1, <2>1, <3>1 DEF Runs
    <3> QED
      BY <1>3, <3>3, <3>4, <3>5
  <2> QED
    BY <2>2, <2>3
<1>9. CASE SandboxRemove(l)
  <2>1. pc[l] = "diff" /\ UNCHANGED result
    BY <1>9 DEF SandboxRemove
  <2>2. CASE worktree[s] = "live"
    <3>1. /\ worktree'[s] = IF req[l].cleanup THEN "absent" ELSE "live"
          /\ pc'[l] = "manifest" /\ rec' = rec /\ final' = final
      BY <1>1, <1>9, <2>2 DEF SandboxRemove, s, Goto, TypeOK
    <3>3. Books(pc'[l], rec'[l], d)
      BY <1>1, <2>1, <3>1 DEF Books
    <3>4. Boxes(pc'[l], rec'[l], d, req[l], result'[l], worktree'[s], faults)
      BY <1>1, <2>1, <3>1 DEF Boxes
    <3>5. Runs(pc'[l], rec'[l], d, ran[s], Allowance)
      BY <1>1, <2>1, <3>1 DEF Runs
    <3> QED
      BY <1>3, <3>3, <3>4, <3>5
  <2>3. CASE worktree[s] # "live"
    <3>1. /\ rec' = [rec EXCEPT ![l] = [rec[l] EXCEPT !.status = "blocked"]]
          /\ pc'[l] = "final" /\ worktree' = worktree
      BY <1>1, <1>9, <2>3 DEF SandboxRemove, s, SetRec, Goto, TypeOK
    <3>3. Books(pc'[l], rec'[l], d)
      BY <1>1, <1>6, <2>1, <3>1 DEF Books, PaidBy
    <3>4. Boxes(pc'[l], rec'[l], d, req[l], result'[l], worktree'[s], faults)
      BY <1>1, <1>6, <2>1, <3>1 DEF Boxes, Terminal
    <3>5. Runs(pc'[l], rec'[l], d, ran[s], Allowance)
      BY <1>1, <1>6, <2>1, <3>1 DEF Runs
    <3> QED
      BY <1>3, <3>3, <3>4, <3>5
  <2> QED
    BY <2>2, <2>3
<1> QED
  BY <1>7, <1>8, <1>9

\* A write of the record replaces it or counts as a fault.
LEMMA PersistFacts ==
    ASSUME TypeOK, NEW l \in Loops, sess[l] \in Sessions, Persist(l)
    PROVE  \/ disk'[sess[l]] = rec[l] /\ faults' = faults
           \/ disk'[sess[l]] = disk[sess[l]] /\ faults' = faults + 1
BY DEF Persist, TypeOK

\* A record written while the loop goes on.
LEMMA WriteServes ==
    ASSUME ServingInv, NEW l \in Loops, ~Idle(l), Begin(l) \/ Save(l)
    PROVE  /\ Serves(l)' /\ sess'[l] = sess[l]
           /\ UNCHANGED <<worktree, ran, allocated>>
           /\ Tidy(disk'[sess[l]], worktree[sess[l]])
<1> DEFINE s == sess[l]
           d == disk[s]
           d2 == disk'[s]
           a2 == Allowance'
<1>1. /\ TypeOK
      /\ s \in Sessions /\ req[l] \in Requests /\ rec[l] \in Kernels
      /\ d \in Kernels \cup {NoRecord} /\ ran[s] \in Nat /\ faults \in Nat
      /\ Allowance \in Nat
      /\ rec[l].used[Turns] \in Nat /\ rec[l].budget[Turns] \in Nat /\ rec[l].box \in BOOLEAN
      /\ d # NoRecord => d.used[Turns] \in Nat
      /\ Accounts(pc[l], rec[l], result[l], index[l])
      /\ s \in allocated
      /\ Books(pc[l], rec[l], d)
      /\ Boxes(pc[l], rec[l], d, req[l], result[l], worktree[s], faults)
      /\ Runs(pc[l], rec[l], d, ran[s], Allowance)
      /\ Tidy(d, worktree[s])
  BY ServingFacts
<1>2. UNCHANGED <<worktree, ran, allocated, sess, req, rec>>
  BY DEF Begin, Save, boxVars
<1>3. \/ d2 = rec[l] /\ faults' = faults /\ a2 = Allowance
      \/ d2 = d /\ faults' = faults + 1 /\ a2 = Allowance + 1
  <2>1. throws' = throws /\ Persist(l)
    BY DEF Begin, Save
  <2> QED BY <1>1, <2>1, PersistFacts DEF Allowance, TypeOK
<1> HIDE DEF d, s, d2, a2
<1>4. ASSUME Books(pc'[l], rec[l], d2),
             Boxes(pc'[l], rec[l], d2, req[l], result'[l], worktree[s], faults'),
             Runs(pc'[l], rec[l], d2, ran[s], a2)
      PROVE  Serves(l)'
  BY <1>1, <1>2, <1>4 DEF Serves, s, d2, a2
<1>5. pc[l] \in {"begin", "save"} /\ pc'[l] \in {"turn", "finish"}
  BY <1>1 DEF Begin, Save, Goto, TypeOK
<1>6. rec[l].status = "running" /\ rec[l].status \notin Terminal /\ PaidBy(rec[l], rec[l], 0)
  BY <1>1, <1>5, PaidByItself DEF Books, Terminal
<1>7. Tidy(d2, worktree[s])
  BY <1>1, <1>3, <1>6 DEF Tidy
<1>8. Books(pc'[l], rec[l], d2)
  BY <1>1, <1>3, <1>5, <1>6 DEF Books
<1>9. Boxes(pc'[l], rec[l], d2, req[l], result'[l], worktree[s], faults')
  BY <1>1, <1>3, <1>5 DEF Boxes
<1>10. Runs(pc'[l], rec[l], d2, ran[s], a2)
  BY <1>1, <1>3, <1>5, FieldFacts DEF Runs
<1> QED
  BY <1>2, <1>4, <1>7, <1>8, <1>9, <1>10 DEF s, d2

\* A loop that is over leaves a record at rest.
LEMMA EndRests ==
    ASSUME ServingInv, NEW l \in Loops, ~Idle(l),
           ChatFails(l) \/ ToolThrows(l) \/ Rejected(l) \/ FinalPersist(l)
    PROVE  /\ Idle(l)' /\ UNCHANGED <<worktree, allocated>>
           /\ Tidy(disk'[sess[l]], worktree[sess[l]])
           /\ Rests(disk'[sess[l]], worktree[sess[l]], ran'[sess[l]], faults', Allowance')
<1> DEFINE s == sess[l]
           d == disk[s]
           d2 == disk'[s]
           k == rec[l]
           n == ran[s]
           n2 == ran'[s]
           a == Allowance
           a2 == Allowance'
<1>1. /\ TypeOK
      /\ s \in Sessions /\ req[l] \in Requests /\ k \in Kernels
      /\ d \in Kernels \cup {NoRecord} /\ n \in Nat /\ faults \in Nat /\ a \in Nat
      /\ k.used[Turns] \in Nat /\ k.budget[Turns] \in Nat
      /\ Books(pc[l], k, d)
      /\ Boxes(pc[l], k, d, req[l], result[l], worktree[s], faults)
      /\ Runs(pc[l], k, d, n, a)
      /\ Tidy(d, worktree[s])
  BY ServingFacts
<1>2. Idle(l)' /\ UNCHANGED <<worktree, allocated>>
  BY DEF ChatFails, ToolThrows, Rejected, FinalPersist, Forget, Idle, boxVars
<1>3. \/ d2 = k /\ faults' = faults /\ n2 = n /\ a2 = a /\ pc[l] \in {"rejected", "final"}
      \/ d2 = d /\ faults' = faults + 1 /\ n2 = n /\ a2 = a + 1 /\ pc[l] \in {"rejected", "final"}
      \/ d2 = d /\ faults' = faults /\ n2 = n /\ a2 = a /\ pc[l] \in {"chat", "tool"}
      \/ d2 = d /\ faults' = faults /\ n2 \in {n, n + 1} /\ a2 = a + 1 /\ pc[l] = "tool"
  <2>1. faults \in Nat /\ throws \in Nat /\ ran \in [Sessions -> Nat] /\ s \in Sessions
    BY <1>1 DEF TypeOK
  <2>2. CASE ChatFails(l)
    BY <2>2 DEF ChatFails, Allowance
  <2>3. CASE ToolThrows(l)
    <3>1. /\ disk' = disk /\ faults' = faults /\ pc[l] = "tool"
          /\ \/ ran' = ran /\ throws' = throws
             \/ throws' = throws + 1 /\ OneMoreRan(l)
      BY <2>3 DEF ToolThrows
    <3>2. OneMoreRan(l) => n2 \in {n, n + 1}
      BY <2>1 DEF OneMoreRan
    <3> QED BY <2>1, <3>1, <3>2 DEF Allowance
  <2>4. CASE Rejected(l) \/ FinalPersist(l)
    <3>1. Persist(l) /\ ran' = ran /\ throws' = throws /\ pc[l] \in {"rejected", "final"}
      BY <2>4 DEF Rejected, FinalPersist
    <3> QED BY <1>1, <2>1, <3>1, PersistFacts DEF Allowance
  <2> QED BY <2>2, <2>3, <2>4
<1>4. d # NoRecord => /\ d.used[Turns] \in Nat /\ d.used[Turns] <= k.used[Turns]
                      /\ d.budget = k.budget
  BY <1>1, FieldFacts DEF Books, PaidBy, Counters, Turns
<1> HIDE DEF d, s, d2, k, n, n2, a, a2
<1>5. CASE d2 = k /\ faults' = faults /\ n2 = n /\ a2 = a /\ pc[l] \in {"rejected", "final"}
  <2>1. k.status = "completed" => pc[l] = "final" /\ k.task = req[l].task
    BY <1>1, <1>5 DEF Books, Boxes
  <2>2. Tidy(d2, worktree[s])
    BY <1>1, <1>5, <2>1 DEF Tidy, Boxes, CleansUp
  <2>3. Rests(d2, worktree[s], n2, faults', a2)
    BY <1>1, <1>5 DEF Rests, Runs, Boxes, Books, Terminal
  <2> QED
    BY <1>2, <2>2, <2>3 DEF s, d2, n2, a2
<1>6. CASE d2 = d /\ \/ faults' = faults + 1 /\ n2 = n /\ a2 = a + 1
                     \/ faults' = faults /\ n2 = n /\ a2 = a /\ pc[l] \in {"chat", "tool"}
                     \/ faults' = faults /\ n2 \in {n, n + 1} /\ a2 = a + 1 /\ pc[l] = "tool"
  <2>1. d # NoRecord /\ d.status \notin Terminal /\ d.box /\ faults' = 0 => worktree[s] = "live"
    BY <1>1, <1>6, <1>3 DEF Boxes, Books
  <2>2. d # NoRecord => n2 <= d.budget[Turns] + a2
    BY <1>1, <1>4, <1>6 DEF Runs
  <2>3. d # NoRecord /\ d.status \notin Terminal => n2 <= d.used[Turns] + a2
    BY <1>1, <1>4, <1>6 DEF Runs
  <2>4. Rests(d2, worktree[s], n2, faults', a2)
    BY <1>6, <2>1, <2>2, <2>3 DEF Rests
  <2> QED
    BY <1>1, <1>2, <1>6, <2>4 DEF s, d2, n2, a2
<1> QED
  BY <1>3, <1>5, <1>6

\* The loop goes on with the request.
LEMMA GoesOn ==
    ASSUME TypeOK, NEW l \in Loops, LoopStep(l) \/ Abort(l),
           ~(ChatFails(l) \/ ToolThrows(l) \/ Rejected(l) \/ FinalPersist(l))
    PROVE  ~Idle(l)'
<1> USE DEF Idle, TypeOK, Goto
<1>1. CASE EagerSandbox(l) \/ Begin(l) \/ Turn(l) \/ Answer(l) \/ LazySandbox(l) \/ Abort(l)
  BY <1>1 DEF EagerSandbox, Begin, Turn, Answer, InvalidAnswer, ToolAnswer, LazySandbox, Abort
<1>2. CASE RefuseTool(l) \/ Tool(l) \/ ToolReturns(l) \/ Save(l)
  BY <1>2 DEF RefuseTool, Tool, RunTool, ToolReturns, Save
<1>3. CASE Finish(l) \/ SandboxRemove(l) \/ SandboxManifest(l)
  BY <1>3 DEF Finish, SandboxRemove, SandboxManifest
<1> QED
  BY <1>1, <1>2, <1>3 DEF LoopStep

\* A loop that is killed leaves a record at rest: the fault pays for the tool it forgot.
LEMMA CrashRests ==
    ASSUME ServingInv, NEW l \in Loops, ~Idle(l)
    PROVE  Rests(disk[sess[l]], worktree[sess[l]], ran[sess[l]], faults + 1, Allowance + 1)
<1> DEFINE s == sess[l]
           d == disk[s]
           k == rec[l]
<1>1. /\ k \in Kernels /\ d \in Kernels \cup {NoRecord} /\ ran[s] \in Nat /\ faults \in Nat
      /\ Allowance \in Nat /\ k.used[Turns] \in Nat /\ k.budget[Turns] \in Nat
      /\ Books(pc[l], k, d)
      /\ Runs(pc[l], k, d, ran[s], Allowance)
  BY ServingFacts
<1>2. d # NoRecord => d.used[Turns] \in Nat /\ d.budget = k.budget
  BY <1>1, FieldFacts DEF Books
<1> HIDE DEF d, s, k
<1> QED
  BY <1>1, <1>2 DEF Rests, Runs, s, d

\* Every step keeps what the loops and the records promise, as long as no session is
\* served twice.
LEMMA StepServing ==
    ASSUME ServingInv, OneServer, OneServer', [Next]_vars
    PROVE  ServingInv'
<1>1. Inv /\ TypeOK /\ Inv' /\ TypeOK'
  BY StepInv DEF ServingInv, Inv
<1>2. ASSUME NEW l \in Loops, Start(l)
      PROVE  ServingInv'
  <2>1. Serves(l)'
    BY <1>2, StartServes
  <2>2. ASSUME NEW s \in Sessions
        PROVE  Kept(s)'
    <3>1. /\ Kept(s) /\ UNCHANGED <<disk, worktree, ran, faults>> /\ Allowance' = Allowance
          /\ s \in allocated => s \in allocated'
      BY <1>2, StartWrites DEF ServingInv, Allowance
    <3>2. Served(s) => Served(s)'
      <4>1. SUFFICES ASSUME NEW m \in Loops, ~Idle(m), sess[m] = s
                     PROVE  ~Idle(m)' /\ sess'[m] = s
        BY DEF Served
      <4>2. m # l
        BY <1>2, <4>1, StartWrites
      <4> QED
        BY <1>1, <1>2, <4>1, <4>2, LocalsUntouched DEF Idle
    <3> QED
      BY <3>1, <3>2 DEF Kept
  <2> QED
    BY <1>1, <1>2, <2>1, <2>2, OthersServe DEF ServingInv
<1>3. ASSUME NEW l \in Loops, LoopStep(l) \/ Abort(l)
      PROVE  ServingInv'
  <2> DEFINE Ends == ChatFails(l) \/ ToolThrows(l) \/ Rejected(l) \/ FinalPersist(l)
  <2>1. ~Idle(l) /\ sess[l] \in Sessions /\ sess[l] \in allocated /\ faults \in Nat
    BY <1>1, <1>3, Moving, ServingFacts
  <2>2. /\ \A s \in Sessions : s # sess[l] =>
               disk'[s] = disk[s] /\ worktree'[s] = worktree[s] /\ ran'[s] = ran[s]
        /\ allocated' = allocated /\ faults' \in {faults, faults + 1}
        /\ Allowance' \in {Allowance, Allowance + 1}
    BY <1>1, <1>3, <2>1, SessionsUntouched
  <2>3. ASSUME Ends, NEW s \in Sessions, s = sess[l]
        PROVE  Idle(l)' /\ Kept(s)'
    <3>1. /\ Idle(l)' /\ UNCHANGED <<worktree, allocated>>
          /\ Tidy(disk'[s], worktree[s])
          /\ Rests(disk'[s], worktree[s], ran'[s], faults', Allowance')
      BY <2>1, <2>3, EndRests
    <3> QED
      BY <2>1, <2>3, <3>1 DEF Kept
  <2>4. ASSUME ~Ends, NEW s \in Sessions, s = sess[l]
        PROVE  Serves(l)' /\ Kept(s)'
    <3>1. ~Idle(l)'
      BY <1>1, <1>3, <2>4, GoesOn
    <3>2. Serves(l)' /\ sess'[l] = s /\ Tidy(disk'[s], worktree'[s])
      <4>1. CASE Turn(l) \/ Abort(l) \/ RefuseTool(l) \/ Finish(l) \/ SandboxManifest(l)
        BY <2>1, <2>4, <4>1, QuietServes, ServingFacts
      <4>2. CASE Answer(l) \/ Tool(l) \/ ToolReturns(l)
        BY <2>1, <2>4, <4>2, TurnServes, ServingFacts
      <4>3. CASE EagerSandbox(l) \/ LazySandbox(l) \/ SandboxRemove(l)
        BY <2>1, <2>4, <4>3, SandboxServes
      <4>4. CASE Begin(l) \/ Save(l)
        BY <2>1, <2>4, <4>4, WriteServes
      <4> QED
        BY <1>3, <2>4, <4>1, <4>2, <4>3, <4>4 DEF LoopStep
    <3>3. Served(s)'
      BY <3>1, <3>2 DEF Served
    <3> QED
      BY <2>1, <2>2, <2>4, <3>2, <3>3 DEF Kept
  <2>5. ~Idle(l)' => Serves(l)'
    BY <2>1, <2>3, <2>4
  <2>6. ASSUME NEW s \in Sessions, s # sess[l]
        PROVE  Kept(s)'
    <3>1. /\ Kept(s) /\ disk'[s] = disk[s] /\ worktree'[s] = worktree[s] /\ ran'[s] = ran[s]
          /\ disk[s] \in Kernels \cup {NoRecord} /\ ran[s] \in Nat
      BY <1>1, <2>2, <2>6 DEF ServingInv, TypeOK
    <3>2. Served(s) => Served(s)'
      <4>1. SUFFICES ASSUME NEW m \in Loops, ~Idle(m), sess[m] = s
                     PROVE  ~Idle(m)' /\ sess'[m] = s
        BY DEF Served
      <4>2. m # l
        BY <2>6, <4>1
      <4> QED
        BY <1>1, <1>3, <4>1, <4>2, LocalsUntouched DEF Idle
    <3>3. Rests(disk[s], worktree[s], ran[s], faults, Allowance)
             => Rests(disk[s], worktree[s], ran[s], faults', Allowance')
      <4> DEFINE b == Allowance'
      <4>1. b \in {Allowance, Allowance + 1} /\ Allowance \in Nat
        <5>1. Allowance \in Nat
          BY <1>1 DEF Allowance, TypeOK
        <5> QED BY <2>2, <5>1
      <4> HIDE DEF b
      <4>2. Rests(disk[s], worktree[s], ran[s], faults, Allowance)
               => Rests(disk[s], worktree[s], ran[s], faults', b)
        BY <2>1, <2>2, <3>1, <4>1, FaultRests
      <4> QED BY <4>2 DEF b
    <3> QED
      BY <2>2, <3>1, <3>2, <3>3 DEF Kept
  <2>7. ASSUME NEW s \in Sessions, s = sess[l]
        PROVE  Kept(s)'
    BY <2>3, <2>4, <2>7
  <2>8. \A s \in Sessions : Kept(s)'
    BY <2>6, <2>7
  <2>9. \A m \in Loops : ~Idle(m)' => Serves(m)'
    BY <1>3, <2>5, OthersServe
  <2> QED
    BY <1>1, <2>8, <2>9 DEF ServingInv
<1>4. CASE Crash
  <2>1. /\ UNCHANGED <<disk, worktree, ran, allocated>> /\ faults' = faults + 1
        /\ \A m \in Loops : Idle(m)'
        /\ Allowance' = Allowance + 1 /\ Allowance \in Nat
    BY <1>1, <1>4 DEF Crash, Forget, Idle, boxVars, Allowance, TypeOK
  <2>2. ASSUME NEW s \in Sessions
        PROVE  Kept(s)'
    <3>1. Kept(s) /\ disk[s] \in Kernels \cup {NoRecord} /\ ran[s] \in Nat /\ faults \in Nat
      BY <1>1 DEF ServingInv, TypeOK
    <3>2. Rests(disk[s], worktree[s], ran[s], faults + 1, Allowance + 1)
      <4>1. CASE Served(s)
        BY <4>1, CrashRests DEF Served
      <4>2. CASE ~Served(s)
        BY <2>1, <3>1, <4>2, FaultRests DEF Kept
      <4> QED
        BY <4>1, <4>2
    <3> QED
      BY <2>1, <3>1, <3>2 DEF Kept
  <2> QED
    BY <1>1, <2>1, <2>2 DEF ServingInv
<1>5. CASE EditSource \/ CommitSource \/ UNCHANGED vars
  <2>1. UNCHANGED <<disk, worktree, ran, allocated, faults, throws, pc, sess, req, rec, result>>
    BY <1>5 DEF EditSource, CommitSource, vars, loopVars, boxVars
  <2> QED
    BY <1>1, <2>1 DEF ServingInv, Idle, Serves, Allowance, Kept, Served
<1> QED
  BY <1>2, <1>3, <1>4, <1>5 DEF Next

\* The invariant of sessions that are served by one loop at a time.
LEMMA ServingInvariance == Spec /\ []OneServer => []ServingInv
<1>1. Init => ServingInv
  <2> SUFFICES ASSUME Init PROVE ServingInv
    OBVIOUS
  <2>1. Inv
    BY InitType DEF Init, Inv, Idle, NoRecord
  <2> QED
    BY <2>1 DEF Init, ServingInv, Idle, Kept, Tidy, Rests
<1>2. ServingInv /\ OneServer /\ OneServer' /\ [Next]_vars => ServingInv'
  BY StepServing
<1> QED
  BY <1>1, <1>2, PTL DEF Spec

\* A strict request edits in its session's worktree, which is there unless a fault took
\* it: no other loop, abort, failed clean-up or earlier life of the session takes it away.
THEOREM EditsAreIsolated == Spec /\ []OneServer => []EditsIsolated
<1>1. ServingInv => EditsIsolated
  <2> SUFFICES ASSUME ServingInv, NEW l \in Loops, pc[l] = "tool", result[l].action = "editOps",
                      req[l].strict
               PROVE  rec[l].box /\ (worktree[sess[l]] = "live" \/ faults > 0)
    BY DEF EditsIsolated
  <2>1. ~Idle(l)
    BY DEF Idle
  <2>2. Boxes("tool", rec[l], disk[sess[l]], req[l], result[l], worktree[sess[l]], faults) /\ faults \in Nat
    BY <2>1, ServingFacts
  <2> QED
    BY <2>2 DEF Boxes
<1> QED
  BY <1>1, ServingInvariance, PTL

\* A record that says completed has had its worktree removed, whatever crashed or failed
\* between the removal, the manifest and the record.
THEOREM CompletedHasNoWorktree == Spec /\ []OneServer => []CompletedRemovedWorktree
<1>1. ServingInv => CompletedRemovedWorktree
  BY DEF ServingInv, CompletedRemovedWorktree, Kept, Tidy, NoRecord
<1> QED
  BY <1>1, ServingInvariance, PTL

\* The budget bounds the tools that really run or write to a file: a session exceeds its
\* limit on turns by one tool for each crash, failed write and edit that throws at most.
THEOREM ToolsAreBounded == Spec /\ []OneServer => []RunsBounded
<1>1. ServingInv => RunsBounded
  <2> SUFFICES ASSUME ServingInv, NEW l \in Loops, ~Idle(l)
               PROVE  ran[sess[l]] <= rec[l].budget["modelTurns"] + faults + throws
    BY DEF RunsBounded
  <2>1. /\ faults \in Nat /\ throws \in Nat /\ rec[l].budget[Turns] \in Nat
        /\ Runs(pc[l], rec[l], disk[sess[l]], ran[sess[l]], Allowance)
    BY ServingFacts DEF TypeOK
  <2>2. ran[sess[l]] <= rec[l].budget[Turns] + (faults + throws)
    BY <2>1 DEF Runs, Allowance
  <2> QED
    BY <2>1, <2>2, ServingFacts DEF Turns
<1> QED
  BY <1>1, ServingInvariance, PTL

----------------------------------------------------------------------------
(* The records implement the ledger *)

Entries == [s \in Sessions |-> LedgerEntry(disk[s])]

\* The state of a session's entry, and what it takes over from the record.
LEMMA EntryFacts ==
    ASSUME NEW k \in Kernels
    PROVE  /\ LedgerEntry(k).state = IF k.status \in Terminal THEN "ended" ELSE "open"
           /\ LedgerEntry(k).task = k.task /\ LedgerEntry(k).limit = k.budget
           /\ LedgerEntry(k).spent = k.used /\ LedgerEntry(k) # Ledger!Unopened
           /\ LedgerEntry(NoRecord) = Ledger!Unopened
BY DEF LedgerEntry, Kernels, NoRecord, Ledger!Unopened, Terminal

\* Nobody but a loop that writes its record changes what is on disk.
LEMMA LedgerWrites ==
    ASSUME ServingInv, [Next]_vars, disk' # disk
    PROVE  \E l \in Loops :
              /\ ~Idle(l) /\ pc[l] \in {"rejected", "begin", "save", "final"}
              /\ disk'[sess[l]] = rec[l]
              /\ \A s \in Sessions \ {sess[l]} : disk'[s] = disk[s]
<1>1. TypeOK /\ TypeOK'
  BY StepInv DEF ServingInv, Inv
<1>2. PICK s \in Sessions : disk'[s] # disk[s]
  BY <1>1 DEF TypeOK
<1>3. PICK l \in Loops : LoopStep(l) \/ Abort(l)
  <2>1. CASE Crash \/ EditSource \/ CommitSource \/ UNCHANGED vars
    BY <2>1 DEF Crash, EditSource, CommitSource, vars
  <2>2. ASSUME NEW l \in Loops, Start(l)
        PROVE  FALSE
    BY <2>2, StartWrites
  <2> QED
    BY <2>1, <2>2 DEF Next
<1>4. ~Idle(l)
  BY <1>1, <1>3, Moving
<1>5. s = sess[l] /\ \A other \in Sessions \ {s} : disk'[other] = disk[other]
  BY <1>1, <1>2, <1>3, <1>4, SessionsUntouched
<1>6. pc[l] \in {"rejected", "begin", "save", "final"} /\ disk'[s] = rec[l]
  BY <1>1, <1>2, <1>3, DiskWrites
<1> QED
  BY <1>4, <1>5, <1>6

\* A record that is written continues the entry on disk, opens it, or leaves it as it is.
LEMMA WrittenEntry ==
    ASSUME ServingInv, NEW l \in Loops, ~Idle(l),
           pc[l] \in {"rejected", "begin", "save", "final"},
           LedgerEntry(rec[l]) # LedgerEntry(disk[sess[l]])
    PROVE  LET before == LedgerEntry(disk[sess[l]])
               after == LedgerEntry(rec[l])
           IN  /\ Ledger!IsEntry(after) /\ Ledger!WithinLimit(after)
               /\ \/ before = Ledger!Unopened /\ Ledger!Opened(after)
                  \/ Ledger!Continued(before, after)
<1> DEFINE d == disk[sess[l]]
           k == rec[l]
           before == LedgerEntry(d)
           after == LedgerEntry(k)
<1>1. /\ k \in Kernels /\ d \in Kernels \cup {NoRecord}
      /\ WithinBudget(k) /\ Consistent(k) /\ Books(pc[l], k, d)
  BY ServingFacts DEF Accounts
<1>2. /\ after.state = IF k.status \in Terminal THEN "ended" ELSE "open"
      /\ after.task = k.task /\ after.limit = k.budget /\ after.spent = k.used
  BY <1>1, EntryFacts
<1>3. \A c \in Counters : k.used[c] \in Nat /\ k.budget[c] \in Nat
  BY <1>1, FieldFacts
<1> HIDE DEF d, k, before, after
<1>4. Ledger!IsEntry(after)
  BY <1>2, <1>3 DEF Ledger!IsEntry, Ledger!Counts, Counters
<1>5. Ledger!WithinLimit(after)
  BY <1>1, <1>2 DEF Ledger!WithinLimit, WithinBudget
<1>6. CASE d = NoRecord
  <2>1. before = Ledger!Unopened
    BY <1>1, <1>6, EntryFacts DEF before
  <2>2. Ledger!Opened(after)
    <3> DEFINE zero == [c \in Ledger!Counts |-> 0]
    <3>1. \A c \in Counters : zero[c] = 0
      BY DEF Ledger!Counts, Counters
    <3>2. /\ k.used["toolExecutions"] <= k.used["modelTurns"]
          /\ \A c \in Buckets : k.used[c] <= k.used["toolExecutions"]
      BY <1>1 DEF Consistent
    <3> HIDE DEF zero
    <3>3. Ledger!Paid(zero, k.used)
      BY <1>3, <3>1, <3>2 DEF Ledger!Paid, Ledger!Counts, Counters
    <3> QED
      BY <1>2, <3>3 DEF Ledger!Opened, zero
  <2> QED
    BY <1>4, <1>5, <2>1, <2>2 DEF before, after, d, k
<1>7. CASE d # NoRecord
  <2>1. d \in Kernels
    BY <1>1, <1>7
  <2>2. /\ before.state = IF d.status \in Terminal THEN "ended" ELSE "open"
        /\ before.task = d.task /\ before.limit = d.budget /\ before.spent = d.used
    BY <2>1, EntryFacts DEF before
  <2>3. d.task = k.task /\ d.budget = k.budget /\ PaidBy(d, k, 0)
    BY <1>1, <1>7 DEF Books
  <2>4. before.state = "open"
    <3>1. SUFFICES ASSUME d.status \in Terminal PROVE FALSE
      BY <2>2
    <3>2. k.status \in Terminal /\ d.used = k.used
      BY <1>1, <1>7, <3>1 DEF Books, Terminal
    <3>3. LedgerEntry(d) = LedgerEntry(k)
      BY <1>1, <2>1, <2>3, <3>1, <3>2 DEF LedgerEntry, Terminal
    <3> QED
      BY <3>3 DEF d, k
  <2>5. Ledger!Paid(before.spent, after.spent)
    <3>1. \A c \in Counters : d.used[c] \in Nat
      BY <2>1, FieldFacts
    <3>2. /\ \A c \in Counters : k.used[c] - d.used[c] >= 0
          /\ k.used[Tools] - d.used[Tools] <= k.used["modelTurns"] - d.used["modelTurns"]
          /\ \A c \in Buckets : k.used[c] - d.used[c] <= k.used[Tools] - d.used[Tools]
      <4>1. k.used[Tools] - d.used[Tools] + 0 <= k.used["modelTurns"] - d.used["modelTurns"]
        BY <2>3 DEF PaidBy
      <4>2. Tools \in Counters /\ "modelTurns" \in Counters
        BY DEF Tools, Counters
      <4>3. \A c \in Counters : d.used[c] <= k.used[c]
        BY <2>3 DEF PaidBy
      <4> QED
        BY <1>3, <2>3, <3>1, <4>1, <4>2, <4>3 DEF PaidBy
    <3> QED
      BY <1>2, <2>2, <3>2 DEF Ledger!Paid, Ledger!Counts, Counters, Tools
  <2>6. Ledger!Continued(before, after)
    BY <1>2, <2>2, <2>3, <2>4, <2>5 DEF Ledger!Continued
  <2> QED
    BY <1>4, <1>5, <2>6 DEF before, after, d, k
<1> QED
  BY <1>6, <1>7

\* What is on disk of a session is a ledger: whatever loops, crashes and failed writes lie
\* between two readings of a record, an ended session never reopens, no count goes back,
\* every tool is paid for by a turn, and neither the limit nor the task moves.
THEOREM RecordsAreLedger == Spec /\ []OneServer => RecordIsLedger
<1>1. Init => Ledger!Init
  BY DEF Init, Ledger!Init, LedgerEntry, NoRecord, Ledger!Unopened
<1>2. ServingInv /\ [Next]_vars => [Ledger!Next]_Entries
  <2> SUFFICES ASSUME ServingInv, [Next]_vars, Entries' # Entries
               PROVE  Ledger!Next
    OBVIOUS
  <2>1. disk' # disk
    BY DEF Entries
  <2>2. PICK l \in Loops :
              /\ ~Idle(l) /\ pc[l] \in {"rejected", "begin", "save", "final"}
              /\ disk'[sess[l]] = rec[l]
              /\ \A s \in Sessions \ {sess[l]} : disk'[s] = disk[s]
    BY <2>1, LedgerWrites
  <2> DEFINE s == sess[l]
  <2>3. s \in Sessions
    BY <2>2, ServingFacts
  <2>4. LedgerEntry(rec[l]) # LedgerEntry(disk[s])
    BY <2>2, <2>3 DEF Entries
  <2>5. Ledger!Record(s)
    BY <2>2, <2>3, <2>4, WrittenEntry DEF Ledger!Record
  <2>6. \A other \in Sessions \ {s} : Entries'[other] = Entries[other]
    BY <2>2 DEF Entries
  <2> QED
    BY <2>3, <2>5, <2>6 DEF Ledger!Next, Entries
<1> QED
  BY <1>1, <1>2, ServingInvariance, PTL DEF Spec, RecordIsLedger, Ledger!Spec, Entries

----------------------------------------------------------------------------
(* A loop only takes so many steps *)

\* The turns that a loop at index i has left of the most a request can ask for, and the
\* steps ahead of it, eight to a turn.
TurnsLeft(i) == IF i > 24 THEN 0 ELSE 25 - i
StepsLeft(p, i) ==
    CASE p = "idle" -> 0
      [] p \in {"rejected", "final"} -> 1
      [] p = "manifest" -> 2
      [] p = "diff" -> 3
      [] p = "finish" -> 4
      [] p = "save" -> 5 + 8 * TurnsLeft(i)
      [] p = "ran" -> 6 + 8 * TurnsLeft(i)
      [] p = "tool" -> 7 + 8 * TurnsLeft(i)
      [] p = "lazy" -> 8 + 8 * TurnsLeft(i)
      [] p = "chat" -> 9 + 8 * TurnsLeft(i)
      [] p = "turn" -> 10 + 8 * TurnsLeft(i)
      [] p = "begin" -> 11 + 8 * TurnsLeft(i)
      [] OTHER -> 12 + 8 * TurnsLeft(i)

\* Every step of a loop leaves it fewer, whatever the model answers, tools, git and the
\* disk do and however often the session was resumed; and nothing that another loop, the
\* user or a crash does leaves a loop that is served more.
LoopsAdvance ==
    [][\A l \in Loops : ~Idle(l) =>
        /\ StepsLeft(pc'[l], index'[l]) \in Nat
        /\ StepsLeft(pc'[l], index'[l]) <= StepsLeft(pc[l], index[l])
        /\ LoopStep(l) => StepsLeft(pc'[l], index'[l]) < StepsLeft(pc[l], index[l])]_vars

LEMMA TurnsLeftFacts ==
    ASSUME NEW i \in Nat
    PROVE  TurnsLeft(i) \in Nat /\ (i < 24 => TurnsLeft(i + 1) = TurnsLeft(i) - 1)
  BY DEF TurnsLeft

LEMMA StepsLeftType ==
    ASSUME NEW p \in LoopLabels, NEW i \in Nat
    PROVE  StepsLeft(p, i) \in Nat /\ (p # "idle" => StepsLeft(p, i) > 0)
  BY TurnsLeftFacts DEF StepsLeft, LoopLabels

\* The steps of a loop, as one that comes from p with index i to q with index j.
Edge(p, i, q, j) ==
    \/ p # "idle" /\ q = "idle"
    \/ /\ i = j
       /\ \/ p = "eager" /\ q \in {"begin", "rejected"}
          \/ p = "begin" /\ q = "turn"
          \/ p = "turn" /\ q \in {"chat", "finish"}
          \/ p = "chat" /\ q \in {"lazy", "tool", "ran"}
          \/ p = "lazy" /\ q \in {"tool", "ran"}
          \/ p = "tool" /\ q = "ran"
          \/ p = "ran" /\ q = "save"
          \/ p = "save" /\ q = "finish"
          \/ p = "finish" /\ q \in {"diff", "final"}
          \/ p = "diff" /\ q \in {"manifest", "final"}
          \/ p = "manifest" /\ q = "final"
    \/ p = "save" /\ q = "turn" /\ i < 24 /\ j = i + 1

LEMMA EdgeAdvances ==
    ASSUME NEW p \in LoopLabels, NEW i \in Nat, NEW q, NEW j, Edge(p, i, q, j)
    PROVE  StepsLeft(q, j) \in Nat /\ StepsLeft(q, j) < StepsLeft(p, i)
<1>1. TurnsLeft(i) \in Nat
  BY TurnsLeftFacts
<1>2. CASE p # "idle" /\ q = "idle"
  <2>1. StepsLeft(q, j) = 0
    BY <1>2 DEF StepsLeft
  <2> QED BY <1>2, <2>1, StepsLeftType
<1>3. CASE p = "save" /\ q = "turn" /\ i < 24 /\ j = i + 1
  BY <1>1, <1>3, TurnsLeftFacts DEF StepsLeft
<1>4. CASE i = j
  BY <1>1, <1>2, <1>3, <1>4 DEF Edge, StepsLeft
<1> QED BY <1>2, <1>3, <1>4 DEF Edge

LEMMA StepsAreClamped ==
    ASSUME NEW n \in Int
    PROVE  Clamp(n, 1, 24) \in 1..24
  BY DEF Clamp

LEMMA BelowSteps ==
    ASSUME NEW i \in Nat, NEW n \in 1..24, ~(i >= n)
    PROVE  i < 24
  OBVIOUS

\* No loop makes a turn of its own after the twenty-fourth.
LEMMA GoesOnBelow ==
    ASSUME TypeOK, NEW l \in Loops, ~Idle(l), ExitStatus(l) = ""
    PROVE  index[l] < 24
<1>1. req[l] \in Requests /\ index[l] \in Nat
  BY DEF TypeOK
<1>2. MaxStepsOf(req[l]) \in 1..24
  <2>1. req[l].maxSteps \in Int
    BY <1>1, RequestsAssumption DEF RequestType
  <2> QED BY <2>1, StepsAreClamped DEF MaxStepsOf
<1>3. ~(index[l] >= MaxStepsOf(req[l]))
  BY DEF ExitStatus
<1> QED BY <1>1, <1>2, <1>3, BelowSteps

LEMMA LoopEdge ==
    ASSUME TypeOK, NEW l \in Loops, LoopStep(l)
    PROVE  Edge(pc[l], index[l], pc'[l], index'[l])
<1>1. ~Idle(l) /\ pc[l] # "idle" /\ pc \in [Loops -> LoopLabels] /\ index \in [Loops -> Nat]
  BY Moving DEF TypeOK, Idle
<1> USE DEF Goto, Edge
<1>2. CASE Rejected(l) \/ ChatFails(l) \/ ToolThrows(l) \/ FinalPersist(l)
  BY <1>1, <1>2 DEF Rejected, ChatFails, ToolThrows, FinalPersist, Forget
<1>3. CASE EagerSandbox(l)
  BY <1>1, <1>3 DEF EagerSandbox
<1>4. CASE Begin(l) \/ Turn(l)
  BY <1>1, <1>4 DEF Begin, Turn
<1>5. CASE Answer(l)
  BY <1>1, <1>5 DEF Answer, InvalidAnswer, ToolAnswer
<1>6. CASE LazySandbox(l)
  BY <1>1, <1>6 DEF LazySandbox
<1>7. CASE RefuseTool(l) \/ Tool(l)
  BY <1>1, <1>7 DEF RefuseTool, Tool, RunTool
<1>8. CASE ToolReturns(l)
  BY <1>1, <1>8 DEF ToolReturns
<1>9. CASE Save(l) /\ ExitStatus(l) = ""
  <2>1. index[l] < 24
    BY <1>1, <1>9, GoesOnBelow
  <2>2. pc[l] = "save" /\ pc'[l] = "turn" /\ index'[l] = index[l] + 1
    BY ZenonT(30), <1>1, <1>9 DEF Save
  <2> QED BY <2>1, <2>2
<1>10. CASE Save(l) /\ ExitStatus(l) # ""
  BY <1>1, <1>10 DEF Save
<1>11. CASE Finish(l) \/ SandboxRemove(l) \/ SandboxManifest(l)
  BY <1>1, <1>11 DEF Finish, SandboxRemove, SandboxManifest
<1> QED BY <1>2, <1>3, <1>4, <1>5, <1>6, <1>7, <1>8, <1>9, <1>10, <1>11 DEF LoopStep

\* No request is served for ever by its own doing: a loop takes at most 204 steps, and
\* each leaves fewer.
THEOREM LoopsFinite == Spec => LoopsAdvance
<1> DEFINE Advances(l) ==
        /\ StepsLeft(pc'[l], index'[l]) \in Nat
        /\ StepsLeft(pc'[l], index'[l]) <= StepsLeft(pc[l], index[l])
        /\ LoopStep(l) => StepsLeft(pc'[l], index'[l]) < StepsLeft(pc[l], index[l])
<1>1. ASSUME TypeOK, Next, NEW l \in Loops, ~Idle(l)
      PROVE  Advances(l)
  <2>1. /\ pc[l] \in LoopLabels /\ pc[l] # "idle" /\ index[l] \in Nat
        /\ StepsLeft(pc[l], index[l]) \in Nat
    BY <1>1, StepsLeftType DEF TypeOK, Idle
  <2>2. CASE LoopStep(l)
    <3>1. StepsLeft(pc'[l], index'[l]) \in Nat
          /\ StepsLeft(pc'[l], index'[l]) < StepsLeft(pc[l], index[l])
      BY <1>1, <2>1, <2>2, LoopEdge, EdgeAdvances
    <3> QED BY <2>1, <3>1
  <2>3. CASE pc'[l] = pc[l] /\ index'[l] = index[l] /\ ~LoopStep(l)
    BY <2>1, <2>3
  <2>4. CASE Crash
    <3>1. Edge(pc[l], index[l], pc'[l], index'[l])
      BY <2>1, <2>4 DEF Crash, Forget, Edge
    <3>2. StepsLeft(pc'[l], index'[l]) \in Nat
          /\ StepsLeft(pc'[l], index'[l]) < StepsLeft(pc[l], index[l])
      BY <2>1, <3>1, EdgeAdvances
    <3> QED BY <2>1, <3>2
  <2>5. ~Start(l)
    BY <1>1 DEF Start, Resume, StartFresh
  <2>6. CASE Abort(l) \/ \E m \in Loops \ {l} : Start(m) \/ LoopStep(m) \/ Abort(m)
    <3>1. pc'[l] = pc[l] /\ index'[l] = index[l]
      <4>1. CASE Abort(l)
        BY <4>1 DEF Abort
      <4>2. CASE \E m \in Loops \ {l} : Start(m) \/ LoopStep(m) \/ Abort(m)
        BY <1>1, <4>2, LocalsUntouched
      <4> QED BY <2>6, <4>1, <4>2
    <3> QED BY <2>2, <2>3, <3>1
  <2>7. CASE EditSource \/ CommitSource
    <3>1. pc' = pc /\ index' = index
      BY <2>7 DEF EditSource, CommitSource, loopVars
    <3> QED BY <2>2, <2>3, <3>1
  <2> HIDE DEF Advances
  <2> QED BY <1>1, <2>2, <2>4, <2>5, <2>6, <2>7 DEF Next
<1>2. TypeOK /\ [Next]_vars => [\A l \in Loops : ~Idle(l) =>
        /\ StepsLeft(pc'[l], index'[l]) \in Nat
        /\ StepsLeft(pc'[l], index'[l]) <= StepsLeft(pc[l], index[l])
        /\ LoopStep(l) => StepsLeft(pc'[l], index'[l]) < StepsLeft(pc[l], index[l])]_vars
  BY <1>1
<1> QED BY <1>2, TypeCorrect, PTL DEF Spec, LoopsAdvance
=============================================================================
