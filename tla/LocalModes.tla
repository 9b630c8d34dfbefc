------------------------------ MODULE LocalModes ------------------------------
(***************************************************************************)
(* The modes of the V15 agent (src/agent.ts) that carry out a fixed         *)
(* procedure instead of a model's plan:                                     *)
(*   engineer - patches the agent's own source, tests it and commits it;    *)
(*   workflow - has a component and its tests generated into scratch files, *)
(*              compiles and runs them, and has them repaired twice;        *)
(*   exam     - the same without tests and with one repair;                 *)
(*   chatExam - asks the model once and shows the answer.                   *)
(*                                                                         *)
(* Requests of one workspace share its target file, its git repository and  *)
(* the scratch files with each other and with the user.  A step runs from   *)
(* one await to the next.                                                   *)
(***************************************************************************)
EXTENDS Integers, Sequences, FiniteSets

CONSTANTS
    Requests,
    Starts,     \* what the target holds, whether another file is staged, the setting
    Answers,    \* the code a model may answer with, for each scratch file
    Edited,     \* the snippets the user may remove
    MaxFaults   \* bound: commands killed late, files neither read nor written

\* The snippets the fronts replace, and "note" for all the rest of the target.
PlannerChanges == {"guard", "status"}
Candidates == <<"types", "backlog", "tail">>
Parts == PlannerChanges \cup {Candidates[i] : i \in DOMAIN Candidates} \cup {"note"}
File == [Parts -> {"old", "new", "gone"}]
NoFile == [p \in Parts |-> "none"]

Kinds == {"engineer", "workflow", "exam", "chatExam"}
PromptType ==
    {prompt \in [kind : Kinds, workspace : {"none", "ayla", "ordinary"},
                 complete : BOOLEAN,   \* Front, Scope and Tests are there
                 front : {"planner", "self", "unknown"},
                 scoped : BOOLEAN,     \* the target is in the scope
                 tests : Nat] : prompt.complete => prompt.tests > 0}

\* Code that violates a static or a semantic check, or does not compile.
Codes == {"clean", "violates", "untyped"}
Scratch == {"exam", "workflow", "tests"}
ScratchFiles == [Scratch -> Codes \cup {"absent"}]

ASSUME LocalAssumption ==
    /\ Edited \subseteq Parts /\ Answers \in [Scratch -> SUBSET Codes] /\ MaxFaults \in Nat
    /\ \A start \in Starts :
          /\ DOMAIN start = {"file", "staged", "setting"}
          /\ start.file \in File \cup {NoFile} /\ start.staged \in BOOLEAN
          /\ start.setting.same \in BOOLEAN /\ start.setting.found \in ScratchFiles
          /\ start.setting.prompts \subseteq PromptType /\ start.setting.user \in Nat

VARIABLES
    file, index,   \* the engineer's target, in the worktree and as staged
    staged,        \* another file is staged
    head,          \* the last commit, and who made it
    scratch,       \* the scratch files as they are written
    setting,       \* same: the commands run on them; otherwise they run on what is found
                   \* at the same path under the root.  The prompts of the requests, and a
                   \* bound on the steps of the user
    req,
    disturbed,     \* requests that ran while another actor changed what they use
    user, faults   \* steps of the user, faults so far

repo == <<file, index, staged, head>>
vars == <<repo, scratch, setting, req, disturbed, user, faults>>

NoPrompt == [kind |-> "chatExam", workspace |-> "none", complete |-> FALSE,
             front |-> "unknown", scoped |-> FALSE, tests |-> 0]
NoCommit == [text |-> NoFile, other |-> FALSE]
Idle ==
    [pc |-> "idle", prompt |-> NoPrompt,
     seen |-> NoFile, pick |-> "none", wrote |-> FALSE,   \* executeLocalEngineerFront
     passed |-> 0, tested |-> NoFile,                     \* the tests, and what they ran on
     commit |-> NoCommit, late |-> FALSE,                 \* what it committed
     code |-> "absent", test |-> "absent", compiles |-> FALSE, attempts |-> 0,
     verdict |-> "none", sha |-> "none"]
Running(r) == req[r].pc \notin {"idle", "done", "rejected"}
Kind(r) == req[r].prompt.kind
At(r, pc) == req[r].pc = pc
Goto(r, pc) == req' = [req EXCEPT ![r].pc = pc]
\* The request ends; what only its steps use is forgotten.
Ended(q, pc, verdict) ==
    [q EXCEPT !.pc = pc, !.verdict = verdict, !.seen = NoFile, !.pick = "none",
              !.passed = 0, !.tested = NoFile, !.compiles = FALSE, !.attempts = 0,
              !.code = IF verdict \in {"passed", "failed"} THEN @ ELSE "absent",
              !.test = IF verdict = "failed" THEN @ ELSE "absent"]
End(r, pc, verdict) == req' = [req EXCEPT ![r] = Ended(@, pc, verdict)]
Report(r, verdict) == End(r, "done", verdict)
\* The promise of the request is rejected: no report at all.
Reject(r) == End(r, "rejected", "none")

Disturb(others) == disturbed' = disturbed \cup {r \in others : Running(r)}
Fault == faults < MaxFaults /\ faults' = faults + 1

Init ==
    /\ \E start \in Starts : file = start.file /\ staged = start.staged /\ setting = start.setting
    /\ index = file /\ head = [text |-> file, by |-> "others"]
    /\ scratch = [s \in Scratch |-> "absent"]
    /\ req = [r \in Requests |-> Idle]
    /\ disturbed = {} /\ user = 0 /\ faults = 0
----------------------------------------------------------------------------
(* Starting *)

Refused(prompt) ==
    \/ /\ prompt.kind = "engineer"
       /\ prompt.workspace = "none" \/ ~prompt.complete \/ prompt.front = "unknown"
    \/ prompt.kind \in {"workflow", "exam"} /\ prompt.workspace # "ordinary"

Begin(r, prompt) ==
    /\ At(r, "idle")
    /\ prompt.kind = "chatExam" => prompt.workspace = "ayla"
    /\ LET started == [Idle EXCEPT !.prompt = prompt]
       IN  req' = [req EXCEPT ![r] =
              IF Refused(prompt)
              THEN [started EXCEPT !.pc = "done", !.verdict = "refused"]
              ELSE [started EXCEPT !.pc =
                      IF prompt.kind = "engineer" THEN prompt.front
                      ELSE IF prompt.kind = "chatExam" THEN "generate" ELSE "prepare"]]
    /\ UNCHANGED <<repo, scratch, setting, disturbed, user, faults>>
----------------------------------------------------------------------------
(* The engineer's fronts *)

\* applyPlannerSchemaReliabilityKnownIntentPatch: every old snippet is replaced.
Patched(text) ==
    [p \in Parts |-> IF p \in PlannerChanges /\ text[p] = "old" THEN "new" ELSE text[p]]

\* The planner's front reads the target, out of scope it does not, and a missing one
\* rejects the request.
\* Mutant: the scope is not looked at.
PlannerReadsAnywhere(r) ==
    /\ At(r, "planner")
    /\ IF file = NoFile THEN Reject(r)
       ELSE req' = [req EXCEPT ![r].seen = file,
                               ![r].pc = IF Patched(file) = file THEN "test" ELSE "write"]
    /\ UNCHANGED <<repo, scratch, setting, disturbed, user, faults>>
PlannerReads(r) ==
    /\ At(r, "planner")
    /\ IF ~req[r].prompt.scoped THEN Report(r, "blocked")
       ELSE IF file = NoFile THEN Reject(r)
       ELSE req' = [req EXCEPT ![r].seen = file,
                               ![r].pc = IF Patched(file) = file THEN "test" ELSE "write"]
    /\ UNCHANGED <<repo, scratch, setting, disturbed, user, faults>>

\* The candidates still to be applied to a text.  The old snippet of "tail" has its lines
\* joined by a backslash and an n: no text holds it.
Pending(text) == {i \in DOMAIN Candidates : Candidates[i] # "tail" /\ text[Candidates[i]] = "old"}
FirstPending(text) ==
    Candidates[CHOOSE i \in Pending(text) : \A j \in Pending(text) : i <= j]
\* The self-improvement front inspects the files of its scope and picks a candidate.
\* Without one there is nothing to change; the tests still run.
\* A file of the scope that cannot be read rejects the request.
Inspects(r) ==
    /\ At(r, "self")
    /\ \/ /\ IF ~req[r].prompt.scoped \/ file = NoFile \/ Pending(file) = {} THEN Goto(r, "test")
             ELSE req' = [req EXCEPT ![r].pick = FirstPending(file), ![r].pc = "read"]
          /\ UNCHANGED faults
       \/ Fault /\ Reject(r)
    /\ UNCHANGED <<repo, scratch, setting, disturbed, user>>
\* It reads the target again before it changes it.
ReadsAgain(r) ==
    /\ At(r, "read")
    /\ IF file = NoFile THEN Reject(r)
       ELSE IF file[req[r].pick] # "old" THEN Goto(r, "test")
       ELSE req' = [req EXCEPT ![r].seen = file, ![r].pc = "write"]
    /\ UNCHANGED <<repo, scratch, setting, disturbed, user, faults>>

Writes(r) ==
    /\ At(r, "write")
    /\ file' = IF req[r].prompt.front = "planner" THEN Patched(req[r].seen)
               ELSE [req[r].seen EXCEPT ![req[r].pick] = "new"]
    /\ req' = [req EXCEPT ![r].wrote = TRUE, ![r].pc = "test"]
    /\ Disturb(Requests \ {r})
    /\ UNCHANGED <<index, staged, head, scratch, setting, user, faults>>

\* The target cannot be read, or its write fails and may leave it empty.
Emptied == [p \in Parts |-> "gone"]
TargetFails(r) ==
    /\ (At(r, "planner") /\ req[r].prompt.scoped) \/ req[r].pc \in {"read", "write"}
    /\ Fault /\ Reject(r)
    /\ \/ UNCHANGED <<file, disturbed>>
       \/ At(r, "write") /\ file' = Emptied /\ Disturb(Requests \ {r})
    /\ UNCHANGED <<index, staged, head, scratch, setting, user>>
----------------------------------------------------------------------------
(* The engineer's commands *)

NextCommand(r) == IF req[r].wrote THEN "add" ELSE "report"
\* Mutant: the run goes on to the commit after a failing test.
TestsOnce(r) ==
    /\ At(r, "test")
    /\ req' = [req EXCEPT ![r].tested = file, ![r].pc = NextCommand(r)]
    /\ UNCHANGED <<repo, scratch, setting, disturbed, user, faults>>
\* A test passes, fails, is refused for what its text names, or is killed.  What it changes
\* in the target, the index or HEAD is a UserStep.
Tests(r) ==
    /\ At(r, "test")
    /\ \/ LET passed == req[r].passed + 1
          IN  req' = [req EXCEPT ![r].passed = passed, ![r].tested = file,
                        ![r].pc = IF passed = req[r].prompt.tests THEN NextCommand(r)
                                  ELSE "test"]
       \/ Report(r, "blocked")
    /\ UNCHANGED <<repo, scratch, setting, disturbed, user, faults>>

\* git add -- <target>; it may fail, and may be killed once it is done.
Adds(r) ==
    /\ At(r, "add")
    /\ \/ /\ index' = file /\ Goto(r, "commit") /\ Disturb(Requests \ {r})
          /\ UNCHANGED faults
       \/ /\ Fault /\ index' \in {index, file} /\ Report(r, "blocked")
          /\ Disturb(Requests \ {r})
    /\ UNCHANGED <<file, staged, head, scratch, setting, user>>

\* git commit takes all that is staged, and fails when nothing is.
Nothing == index = head.text /\ ~staged
Committed(who) == /\ head' = [text |-> index, by |-> who] /\ staged' = FALSE
Commits(r) ==
    /\ At(r, "commit")
    /\ \/ /\ Nothing /\ Report(r, "blocked")
          /\ UNCHANGED <<head, staged, disturbed, faults>>
       \/ /\ Fault /\ Report(r, "blocked")
          /\ UNCHANGED <<head, staged, disturbed>>
       \/ /\ ~Nothing /\ Committed(r) /\ Disturb(Requests \ {r})
          /\ req' = [req EXCEPT ![r].commit = [text |-> index, other |-> staged],
                                ![r].pc = "revParse"]
          /\ UNCHANGED faults
       \/ /\ ~Nothing /\ Fault /\ Committed(r) /\ Disturb(Requests \ {r})
          /\ req' = [req EXCEPT ![r].commit = [text |-> index, other |-> staged],
                                ![r].late = TRUE, ![r].seen = NoFile,
                                ![r].pc = "done", ![r].verdict = "blocked"]
    /\ UNCHANGED <<file, index, scratch, setting, user>>

\* git rev-parse HEAD, which may fail: the commit is reported all the same.
RevParses(r) ==
    /\ At(r, "revParse")
    /\ \E sha \in {head.by, "unknown"} :
          req' = [req EXCEPT ![r].pc = "done", ![r].verdict = "committed",
                             ![r].sha = sha, ![r].seen = NoFile]
    /\ UNCHANGED <<repo, scratch, setting, disturbed, user, faults>>
\* Nothing was changed.
Reports(r) ==
    /\ At(r, "report") /\ Report(r, "noChanges")
    /\ UNCHANGED <<repo, scratch, setting, disturbed, user, faults>>
----------------------------------------------------------------------------
(* The scratch files *)

Attempts(r) == IF Kind(r) = "workflow" THEN 3 ELSE 2
Failure(r) == IF Kind(r) = "workflow" THEN Report(r, "blocked") ELSE Reject(r)

\* The directory, the tsconfig and the test runner, whose text never changes.
Prepares(r) ==
    /\ At(r, "prepare")
    /\ \/ Goto(r, "generate") /\ UNCHANGED faults
       \/ Fault /\ Failure(r)
    /\ UNCHANGED <<repo, scratch, setting, disturbed, user>>

\* The model answers with code, or its call is rejected.
Generates(r) ==
    /\ At(r, "generate")
    /\ IF Kind(r) = "chatExam" THEN Report(r, "ready") \/ Reject(r)
       ELSE \/ \E code \in Answers[Kind(r)] :
                 req' = [req EXCEPT ![r].code = code,
                           ![r].pc = IF Kind(r) = "workflow" THEN "generateTests" ELSE "save"]
            \/ Failure(r)
    /\ UNCHANGED <<repo, scratch, setting, disturbed, user, faults>>
GeneratesTests(r) ==
    /\ At(r, "generateTests")
    /\ \/ \E test \in Answers["tests"] :
             req' = [req EXCEPT ![r].test = test, ![r].pc = "save"]
       \/ Failure(r)
    /\ UNCHANGED <<repo, scratch, setting, disturbed, user, faults>>

Sharing(kinds) == {r \in Requests : Kind(r) \in kinds}
Saves(r) ==
    /\ At(r, "save")
    /\ \/ /\ scratch' = [scratch EXCEPT ![Kind(r)] = req[r].code]
          /\ Goto(r, IF Kind(r) = "workflow" THEN "saveTests" ELSE "compile")
          /\ Disturb(Sharing({Kind(r)}) \ {r}) /\ UNCHANGED faults
       \/ Fault /\ Failure(r) /\ UNCHANGED <<scratch, disturbed>>
    /\ UNCHANGED <<repo, setting, user>>
SavesTests(r) ==
    /\ At(r, "saveTests")
    /\ \/ /\ scratch' = [scratch EXCEPT !["tests"] = req[r].test]
          /\ Goto(r, "compile") /\ Disturb(Sharing({"workflow"}) \ {r}) /\ UNCHANGED faults
       \/ Fault /\ Failure(r) /\ UNCHANGED <<scratch, disturbed>>
    /\ UNCHANGED <<repo, setting, user>>

\* The commands name .local/..., relative to the root; the files are written below the
\* root's path with ".local" appended to it, which is the same only when that path ends
\* with a separator.
Compiled == IF setting.same THEN scratch ELSE setting.found
\* tsc compiles the files the tsconfig names; without the tsconfig it fails.
Compiles(kind) ==
    \A s \in (IF kind = "workflow" THEN {"workflow", "tests"} ELSE {"exam"}) :
        Compiled[s] \notin {"absent", "untyped"}
\* The lines of the runner are joined by a backslash and an n: it does not parse.
RunnerParses == FALSE
TestsPass == RunnerParses /\ Compiled["workflow"] # "absent" /\ Compiled["tests"] # "absent"

\* Mutant: the code is compiled as it was before the last repair.
CleanIfFirst(r, compiles, passes) ==
    (compiles \/ req[r].attempts > 0) /\ passes /\ req[r].code # "violates"
    /\ req[r].test # "violates"
\* No diagnostics: nothing failed and nothing was violated.
Clean(r, compiles, passes) ==
    compiles /\ passes /\ req[r].code # "violates" /\ req[r].test # "violates"
\* Mutant: an attempt that does not compile is not counted.
JudgeUncounted(r, compiles, passes) ==
    IF Clean(r, compiles, passes) THEN Report(r, "passed")
    ELSE IF compiles /\ req[r].attempts + 1 = Attempts(r) THEN Report(r, "failed")
    ELSE req' = [req EXCEPT ![r].attempts = IF compiles THEN @ + 1 ELSE @,
                            ![r].pc = "generate", ![r].compiles = FALSE,
                            ![r].code = "absent", ![r].test = "absent"]
\* The attempt passes, is the last one, or is repaired.
Judge(r, compiles, passes) ==
    IF Clean(r, compiles, passes) THEN Report(r, "passed")
    ELSE IF req[r].attempts + 1 = Attempts(r) THEN Report(r, "failed")
    ELSE req' = [req EXCEPT ![r].attempts = @ + 1, ![r].pc = "generate", ![r].compiles = FALSE,
                            ![r].code = "absent", ![r].test = "absent"]

\* Both ways to start tsc may be killed, or there is none.
CompileRuns(r) ==
    /\ At(r, "compile")
    /\ \E killed \in BOOLEAN :
          /\ IF killed THEN Fault ELSE UNCHANGED faults
          /\ LET compiles == ~killed /\ Compiles(Kind(r))
             IN  IF Kind(r) = "workflow"
                 THEN req' = [req EXCEPT ![r].compiles = compiles, ![r].pc = "runTests"]
                 ELSE Judge(r, compiles, TRUE)
    /\ UNCHANGED <<repo, scratch, setting, disturbed, user>>
TestsRun(r) ==
    /\ At(r, "runTests") /\ Judge(r, req[r].compiles, TestsPass)
    /\ UNCHANGED <<repo, scratch, setting, disturbed, user, faults>>
----------------------------------------------------------------------------
(* The user, or a test, edits the target, stages it or another file, commits *)

UserStep ==
    /\ user < setting.user /\ user' = user + 1
    /\ \/ /\ file # NoFile
          /\ \/ file' = [file EXCEPT !["note"] = "new"]
             \/ \E p \in Edited : file[p] = "old" /\ file' = [file EXCEPT ![p] = "gone"]
          /\ UNCHANGED <<index, staged, head>>
       \/ index' = file /\ UNCHANGED <<file, staged, head>>
       \/ staged' = TRUE /\ UNCHANGED <<file, index, head>>
       \/ ~Nothing /\ Committed("others") /\ UNCHANGED <<file, index>>
    /\ Disturb(Sharing({"engineer"}))
    /\ UNCHANGED <<scratch, setting, req, faults>>
----------------------------------------------------------------------------
Engineers(r) ==
    \/ PlannerReads(r) \/ Inspects(r) \/ ReadsAgain(r) \/ Writes(r) \/ TargetFails(r)
    \/ Tests(r) \/ Adds(r) \/ Commits(r) \/ RevParses(r) \/ Reports(r)
Scratches(r) ==
    \/ Prepares(r) \/ Generates(r) \/ GeneratesTests(r) \/ Saves(r) \/ SavesTests(r)
    \/ CompileRuns(r) \/ TestsRun(r)
Step(r) == Engineers(r) \/ Scratches(r)
Next ==
    \/ \E r \in Requests : Step(r) \/ \E prompt \in setting.prompts : Begin(r, prompt)
    \/ UserStep
Spec == Init /\ [][Next]_vars
\* Every await of a request is of a command, a file or a model call that a timer ends.
FairSpec == Spec /\ \A r \in Requests : WF_vars(Step(r))
----------------------------------------------------------------------------
Verdicts == {"none", "refused", "blocked", "committed", "noChanges", "passed", "failed", "ready"}
\* The state is well formed: a report is there exactly when the request resolved, the
\* tests that passed and the attempts stay within their limits.
TypeOK ==
    /\ file \in File \cup {NoFile} /\ index \in File \cup {NoFile} /\ staged \in BOOLEAN
    /\ scratch \in ScratchFiles /\ setting \in {start.setting : start \in Starts}
    /\ disturbed \subseteq Requests /\ user \in 0..setting.user /\ faults \in 0..MaxFaults
    /\ \A r \in Requests :
          /\ req[r].verdict \in Verdicts /\ (req[r].verdict # "none" <=> At(r, "done"))
          /\ req[r].passed <= req[r].prompt.tests
          /\ req[r].attempts < Attempts(r)

\* A run that reports a commit committed what its tests passed on, all of them, with its
\* change in it, and the commit it names is its own - unless another request or the user
\* changed the target, the index or HEAD meanwhile (runLocalEngineerExecutionMode).
CommittedIsTested ==
    \A r \in Requests : req[r].verdict = "committed" /\ r \notin disturbed =>
        /\ req[r].passed = req[r].prompt.tests /\ req[r].commit.text = req[r].tested
        /\ req[r].prompt.front = "self" => req[r].commit.text[req[r].pick] = "new"
        /\ req[r].sha \in {r, "unknown"}

\* A run that reports no commit made none, unless the command was killed when it had
\* committed; one that reports no changes has written nothing, and one whose target is
\* out of scope neither.
ReportIsOfRun ==
    \A r \in Requests : Kind(r) = "engineer" =>
        /\ At(r, "done") /\ req[r].verdict # "committed" /\ ~req[r].late
              => req[r].commit = NoCommit
        /\ req[r].verdict = "noChanges" => ~req[r].wrote
        /\ req[r].wrote => req[r].prompt.scoped

\* Scratch code is reported as passed only when it is the last code generated, without
\* violations, and compiles, if no other request wrote over it meanwhile.  Where the
\* commands do not run on the files that were written, it is what they found that compiles.
PassedIsClean ==
    \A r \in Requests : req[r].verdict = "passed" /\ r \notin disturbed =>
        /\ req[r].code # "violates"
        /\ IF setting.same THEN req[r].code = "clean" ELSE Compiles(Kind(r))

\* What the test src/test/agent.test.ts expects of a clean component and a clean test:
\* the workflow is validated.
GoodWorkflowValidates ==
    \A r \in Requests : Kind(r) = "workflow" /\ req[r].verdict = "failed"
        /\ r \notin disturbed /\ faults = 0
        => req[r].code # "clean" \/ req[r].test # "clean"

\* Every request ends.
RequestsEnd == \A r \in Requests : Running(r) ~> ~Running(r)
=============================================================================
