# A TLA+ model of AYLA, the local agent for VS Code

AYLA runs coding tasks with a local model. The repository holds two generations of it.

* **V16**, the current one, is the tree `src/ayla-local-agent-vscode/`. VS Code starts
  one CLI process and talks to it over newline-delimited JSON; the CLI starts a gateway
  on a loopback port; the gateway asks the model (Ollama) what to do next, runs the tool
  the model names in a temporary Git worktree, and keeps a record of the session on
  disk so that an interrupted task can be resumed. The edits end up in a patch that the
  user applies to the source.
* **V15**, the release before, is the root of the repository (`src/src`,
  `src/gateway`, `src/bin`). Its extension holds an agent of its own, which acts on the
  workspace directly under a policy, approvals and validations; its gateway is nearly
  the same code as V16's.

Both are modelled: V16 as the chain bridge, CLI, gateway loop, session, tools and
training; V15 as the agent of its extension and the providers it calls models with.
Below, `V15:` stands for `src/`, and other paths are below
`src/ayla-local-agent-vscode/`.

## 1. Inventory

| Component | State it keeps | Operations | Talks to |
| --- | --- | --- | --- |
| Agent loop, `gateway/src/agent/toolLoop.ts` | locals of one chat request: step, repair attempts, final status, edit journal, abort signal | start or resume, ask the model, run one tool, checkpoint, finish | kernel, resume, worktrees, tools, model |
| Session kernel, `workSession/kernel.ts` | `.local/agent-work-sessions/<id>.json`: status, budget, counters, checkpoint, evidence | create, count, checkpoint, finalise, persist | loop, resume |
| Resume, `workSession/resume.ts` | none | find a session, compare its workspace with the present one | git, records |
| Worktree sandbox, `workSession/worktreeSandbox.ts` | worktree, manifest and patch of a session | create, finalise, apply | git |
| Workspace tools, `tools/*.ts` | edit journal (in the loop's memory) | read, search, edit, rename, patch, validate, roll back | file system, subprocesses |
| CLI, `bin/ayla.js --stdio` | `active`, `activeTaskRequestId`, `ownedGatewayPid` | run, resume, apply, status, cancel, shutdown | VS Code (stdio), gateway (HTTP) |
| Bridge, `src/vscode/cliProcessManager.ts`, `src/extension.ts` | child, ready promise, pending requests, `disposed` | start, send, cancel, restart, dispose | CLI |
| Gateway server, `gateway/src/server.ts`, `routes/*` | none of its own beyond sockets | one handler per route | everything in the gateway |
| Training, `gateway/src/training/*.ts` | adapter registry, `active.json`, Ollama's candidate models | harden data, train, evaluate, gate, register, promote, run a campaign | disk, Ollama, Python |
| Production loop, `V15:src/agent.ts`, `actionPolicy.ts`, `contextNotes.ts` | some twenty flags and counters, notes, mutation ledger | ask the model for one action, judge it, carry it out, validate, report | VS Code's file system, git, tsc, node |
| Requests, `V15:src/router.ts`, `state.ts`, `patch.ts`, `agent.ts` | session object: pending patch, status; the files | dispatch, plan, propose, approve, apply, revert, reset | user, model, files |
| Sidecar proofs, `V15:src/agent.ts`, `modelProvider/containerSidecar*.ts` | proof files under `.local/` | ask the sidecar, check its answer, write, read back, validate, repair | sidecar (HTTP), files, node |
| Fixed modes, `V15:src/agent.ts` | target file, git index, scratch files | patch, test, commit; generate, compile, run, repair | git, tsc, node, model |
| Model providers, `V15:src/modelProvider/*`, `ollama.ts` | diagnostics of the last call | list models, stream, retry, fall back, cancel | Ollama, gateway, sidecar |
| Evaluation, datasets, research | result files | batch jobs | model, web |

What is hard about them:

* **Crashes.** Whatever the gateway's loop does is saved in pieces: the worktree, its
  manifest, the patch and the record are separate writes, some of them best-effort.
* **Resume.** A record is taken up by a later request, on a workspace that may have
  changed, while an earlier request may still be serving it.
* **Concurrency.** The bridge awaits a port, a promise, an exit and two timers; the
  CLI serves lines concurrently; a cancelled task goes on in the gateway for a while.
  All chats of V15 share one session, its proofs and modes share their files, and every
  one of them awaits dialogs, commands and models in between. Training processes
  share a registry without a lock.
* **Partial failure.** Patches and rollbacks go file by file; a promotion is a
  registry, a pointer and a report; a proof fails after some of its files are written.
* **Limits.** Steps, model turns, tools, four buckets of tools and repair attempts
  are bounded separately, across resumes; the production loop has limits of its own.
* **Verdicts.** The agent says "validated", "repaired", "passed", "committed": from
  flags that were set at different times, about files that others may change.
* **Streams.** A model's answer may break off anywhere, with a timer, a cancellation
  and a retry racing it.

What makes each component correct: a session never exceeds its budget, is never reopened
once it ended, and its record is always one that a resume can continue from (kernel,
loop, resume); a mutation happens in a worktree and a completed session has put it away
(sandbox); a failed validation undoes what the tools wrote, as far as text goes (tools);
a request gets exactly one answer, one task runs at a time, Stop stops it (bridge, CLI);
the active adapter was accepted and keeps what the base model can do (training); a
success rests on evidence about the files as they are (production loop, proofs, modes);
nothing is written without the user's approval (requests); an answer is shown once and
called complete only when it is (providers); and everything ends. `PROJECT.json` lists
the components with what is left out of each, and the hazards at their lines.

## 2. Modules

| Module | Models | Uses |
| --- | --- | --- |
| `AbstractSession` | what the record of a session promises, as a ledger | - |
| `WorkSession` | agent loop, kernel, resume, creation and finalisation of worktrees | refines `AbstractSession` |
| `EditJournal` | editing tools, journal, validation, rollback | - |
| `CliStdio` | the CLI process and the gateway as it sees it | - |
| `CliBridge` | `AylaCliProcessManager`, the extension's commands | extends `CliStdio` |
| `AdapterLifecycle` | training pipeline, registry, `active.json`, campaigns | - |
| `ActionPolicy` | the policy on the actions of the production loop (no state) | - |
| `ProductionRun` | the production loop, its validation, completion gate and report | extends `ActionPolicy` |
| `PlannerPolicy` | dispatch of a prompt, judgement of a planner's decision, fallback plans (no state) | - |
| `AgentRequests` | requests over V15's session: patches, approvals, planner loop | extends `PlannerPolicy` |
| `SidecarProof` | the proofs and the diagnostic V15 runs with a sidecar | - |
| `LocalModes` | V15's engineer, workflow and exam modes | - |
| `ModelCall` | calls through V15's providers | - |
| `WorkSessionProofs`, `EditJournalProofs`, `AdapterLifecycleProofs`, `CliBridgeProofs`, `ProductionRunProofs`, `AgentRequestsProofs`, `LocalModesProofs` | theorems and their inductive invariants | the module named |
| `ProviderProofs` | the same | `SidecarProof`, `ModelCall` |
| `MC*` | instances for TLC | the module named |

Operators marked *Mutant* are plausible mistakes in the definition that follows them.
No specification uses them; they exist to show that a property notices. Each module
states its `TypeOK` (`ModelCall`, whose names are its own so that it can stand beside
`SidecarProof` in one proof module, its `CallTypeOK`). Only `WorkSession`'s is among the
runs; for the others a theorem states it.

### WorkSession and AbstractSession

A *loop* is one invocation of `runGatewayAgentToolLoop`, and an action is the code
from one `await` at which something can intervene to the next. `pc[l]` names the
place: `begin` is the persist at toolLoop.ts:381, `turn` the head of the `for`,
`chat` the model call, `lazy` the lazily created worktree, `tool` the budget check
and the tool, `ran` the rollback and accounting, `save` the checkpoint's persist and
the exits of the loop body, `finish`, `diff`, `manifest` and `final` the end.
`rec[l]` is the loop's copy of the kernel, `disk` the records, `worktree` what git
knows (`missing` is a registered worktree whose directory was removed), `manifest`
the sandbox's own file. A client abort sets `aborted[l]` at any moment, a crash
forgets all loops and keeps the disk, a failed write of a record keeps the old one
(the write is to a temporary file that is renamed). The user edits and commits.
`ran` counts the tools that ran or wrote, whatever was reported of them: one whose
result an abort turned into "not executed", and a patch that throws at a later file
(`ToolThrows`; `throws` counts these).

Abstracted: the model's answer is a class of tool intent and the policy's verdict; a
tool's result is its class (executed, allowed, verdict of a validation); the
workspace state is HEAD, whether the user and an agent have changed files, and,
where `.local/` is not ignored by git, the agent's own records. The latest of
several sessions that match is any of them (the code compares wall-clock times). Git
is present and its commands fail only as described. A budget of the request is
taken as the integer the code makes of it.

`AbstractSession` is what a reader of the records may rely on: a ledger that is opened
once, for one task with one limit; in which every tool is paid for by a model turn;
from which nothing is struck out; which is closed for good. It knows nothing of loops,
worktrees or crashes. The mapping takes the record on disk, since that is what
survives: `LedgerEntry` reads status, task, budget and counters off it. One write
of a loop may move the ledger by several turns, when writes before it failed, and
every other step, crashes included, stutters. The refinement holds as long as one loop
at a time serves a session. With two, a loop that finishes later writes its older
copy over the record, and the ledger goes back: automatic resume does pick up a
session another request is still serving (toolLoop.ts:291).

### EditJournal

One loop's tools on one worktree. `ApplyUnifiedPatch`, `PatchFile` and `PatchStops`
are the patch loop of workspaceTools.ts:328-354 file by file; `RollBackFile` one
write of `rollbackWorkspaceEditJournal`. Contents are model values: what a patch or
a replacement computes is any text. The journal reads and writes files as UTF-8
(workspaceTools.ts:54, 385): `Utf8` is what that makes of a content, itself for a text
and another for the rest, so a snapshot of a file that is not text cannot restore it. A
rename, which moves bytes, can still be applied to one. A validation command leaves the
worktree as it likes (`Validate`), and no snapshot is taken of what it writes.

Two histories are kept: `edited`, the files tools have written since the last rollback,
and `base`, the worktree as it would be without the tools: as the loop found it, with
what commands have since put into files that are not `edited`. What a command puts into
a file that is, a rollback undoes together with the tools' edits.

### CliStdio and CliBridge

The manager in VS Code is single-threaded, so one action is what runs between two
events, together with the continuations of the promises it settles: when `ready` is
read, every waiter of `start()` sends its request in that action. `pc` says where a
caller is: `port` awaits the free port, `wait` the ready promise, `sent` its answer
(an entry of `pending`), `stopping` the exit of a child or the 1.5 s timer. A
`stranded` caller waits for a promise that nobody can settle any more, since the
manager has replaced its resolve functions; a `hung` one is a stranded caller whose
timer has fired. The CLI serves each request in stages: the first health check, the
wait for a gateway it started, the request itself. Every CLI has its own port, hence
a gateway of its own (`gatewayPort` defaults to 0, a dynamic port).

Left out: a fixed gateway port, under which CLIs would share a gateway; the end of
stdin (the CLI's interface closes); a CLI that hangs without exiting; the duplicate
and empty request ids the manager never sends; spawn errors.

### AdapterLifecycle

A process runs the pipeline once or a campaign over several names. Its actions are the
stages of pipeline.ts between two awaits on shared files: `Prepare`, `Preflight`,
`Train`, `Register`, `Evaluate`, `Promote`, `Activate`, `Report`, and `Load` and `Store`
around every change of the registry, because `loadAdapterRegistry`, the change and
`saveAdapterRegistry` are separate awaits. `Throw` is the pipeline's catch, which
`Fails` reaches from each place that may reject; `Select` and `Close` are the campaign's
choice of the best accepted candidate. An adapter's id is taken to be its name. What
training yields is the set of tasks an adapter passes. The quality gate compares their
number, and the tasks if asked, with the base model's; whether both evaluations had the
same tasks and their scores, which also count what a failed task got right, are within
the thresholds of the input is open (`scored`). `model` is what `ollama create` left
under a name, so that an evaluation measures whatever is there. `overlapped` collects
the runs that ran, or were promoted, while another process was at work.

### ActionPolicy and ProductionRun

`Turn` is one iteration of the loop in V15:src/agent.ts: the reply, its parsing, the
policy, the handler and the bookkeeping after it. The handlers keep their own actions:
reads, searches, plans, notes, edits of each kind, terminal commands, validation, the
final report. The flags keep the code's names, or say in the declaration which they
are. `disk` has the target and the validation helper, told apart by whether the
validation's checks pass and who wrote it; `drift` is what others did to the
repository meanwhile, noticed only when the report compares the git state. `evidence` is a
history: what the last validation executed says of the disk as it is now. Paths are
classes (target, helper, notes, outside, secret...), notes the groups of fields the
gates look for, and a reply is a record of exactly what the guards read.

Left out: prompts and reports, the text of the notes, `update_plan` as a name of its
own (it shares `propose_plan`'s handler), and the resolution of relative paths.

### PlannerPolicy and AgentRequests

`handleCommand` runs from one await to the next, so two requests interleave with each
other and with the user's edits. A prompt is the set of routes it matches and a few
traits; `PlannerPolicy` takes the first route in the dispatcher's order. A session is an
object of the store: a reset makes a new one while requests hold the old. `req[r].pc`
says what a request awaits: the model, the dialog, one of the reads, edits and
verifications of an application. A chat is returned before its answer is there
(`runChat` is not awaited), so the session says Ready while it is `answering`. A
`WorkspaceEdit` changes documents and not files: `ApplyEdit` puts on disk those of its
files that are saved with it, and a later save is one of the user's edits. `approved` is
the dialog's answer, or the phrase in the prompt. The other modes of the dispatcher
(`delegated`) return without touching what is modelled here; they have modules of their
own.

### SidecarProof

Each kind of proof is a path through the same stages: health, clean-up of earlier
files, the question (asked again once when the answer cannot be parsed, in another mode
of the sidecar), the write of each file, the read-back, the validation. An answer is
what the parsers tell apart: its form, the keys, the command, its files in order; a
text is a class of what the static checks accept. Files remember which request
wrote them last, to state what a report may be held to when requests overlap.

### LocalModes

The engineer reads its target, patches it, runs the tests one by one, adds and commits,
with the user and another request free to edit, stage and commit between any two of
these. The workflow and exam modes generate scratch files, compile and run them, and
have them repaired. `setting.same` tells whether the scratch files written are those the
commands look at: the path is made by concatenating the root and `.local` without a
separator (V15:src/agent.ts:929), so they are only for a root that ends with one.
Otherwise the commands compile and run what they find at `.local/` under the root
(`setting.found`), or nothing. An engineer's prompt is complete only with a test to run,
since an empty list is refused (V15:src/agent.ts:248). The tests are commands of the
prompt; what one of them does to the target, the index or HEAD is a `UserStep` at that
moment, like the user's own. A target that cannot be read, or whose write fails and may
leave it empty, rejects the request (`TargetFails`).

### ModelCall

A call goes from `connect` over the lines of a stream to its end; the server may send
any line, close, fail or fall silent; the timer and the caller abort the attempt's
signal, which is noticed at the next await. `throws` of `onToken` end it too. An
Ollama call may be retried once, and in diagnostic mode be asked for in one piece.
A model is named by its name and its tag: `Matches` prefers the exact model, then the
`latest` of its name, then the first of its name, as `resolveConfiguredModel` does.
What a server says after its last line is not part of its answer (`AnswerOf`): `sent`
counts the pieces up to that line.
`last` is the provider's `lastInvocationDiagnostics` with the call and attempt they are
of.

## 3. Runs

| Run | Module, what it shows |
| --- | --- |
| `session` | `WorkSession`: budget, checkpoints, isolation, clean-up, bounded work, and the refinement of `AbstractSession`, with every kind of caller and disturbance |
| `session_live` | `WorkSession`: requests return; interrupted sessions with steps left end |
| `edit_journal` | the journal suffices to undo the tools, rollbacks restore text and make progress |
| `cli_bridge` | requests accounted for, one connected task, no stuck engine, Stop arrives |
| `cli_live` | every request sent is answered or rejected |
| `training` | the active adapter was accepted, keeps the base model's tasks, is promoted in the registry; reports agree with the registry |
| `production_run` | successful verdicts are about the files as they are and rest on the evidence asked for; runs end |
| `agent_requests` | writes are approved, an idle session is Ready, a planner's report rests on observations |
| `sidecar` | only allowed content is written, reports name what is there, a passed gate means a repair, proofs end |
| `local_modes` | a commit holds what was tested, reports are of the run, passed code is clean, requests end |
| `model_call` | text is shown once, complete means whole, diagnostics are of the last attempt, calls end |
| `code_workflow` | violation: a clean component with clean tests fails |

**The disagreement.** `code_workflow` shows that the workflow mode cannot succeed: its
test runner is one line with a literal `\n` in it, which does not parse, while
V15:src/test/agent.test.ts:5986 expects `CODE_WORKFLOW_VALIDATED`, with the writes and
runners stubbed.

**Where the code promises less than one may think.** These are in the models, and the
properties are stated around them; the hazards in `PROJECT.json` give the lines.

* A crash or a failed write at the last permitted step leaves a session that every
  matching request resumes, without a turn, and leaves interrupted (V15:README.md:291).
  `SessionEnds` exempts it.
* Where `.local/` is not ignored by git, the session's own record makes its evidence
  stale, and the first resume is refused; so do the agent's own edits where a session
  works in the source (V15:README.md:291, 301). The comparison is in the model, and
  no property says that a refusal is due to others.
* A tool that throws after it wrote, a patch whose second file is a directory for
  instance, is neither counted nor recorded, and each resume may repeat it: `RunsBounded`
  allows for as many tools as there were crashes, failed writes and such throws.
* An orphaned worktree blocks the resumed session on a clean source (V15:README.md:311).
* Two CLIs, from the race in `start()`, serve two tasks at once (CHANGELOG.md:5), and a
  gateway may survive the shutdown of its CLI.
* "Successful edits are snapshotted internally and restored automatically after failed
  validation" (CHANGELOG.md:49, V15:README.md:38) has three exceptions, which the
  properties of `EditJournal` state: a file that is not UTF-8 comes back as what
  decoding and encoding makes of it (`Back`); what a validation command writes to files
  the tools did not write stays; and edits made before a crash, or before an edit that
  throws, are out of the reach of a validation after it (`base` starts anew).
* A second run under the name of a promoted adapter replaces the model `active.json`
  points to, also when it is rejected: `PromotedKeepsTasks` is about the run promoted.
* The dialog of `/apply` shows one pending patch and applies the one that is there
  afterwards (V15:src/router.ts:290); an approval that names one file applies all of a
  patch's replacements (V15:src/agent.ts:8371). `WritesAreApproved` asks for an approval.
* The first validation of the safe execution gate takes a kill by its timer as the
  failure it expects: `GateOkMeansRepaired` exempts it.
* An exam passes for code that was never compiled, when its commands run on other files
  than those it wrote and these happen to compile: `PassedIsClean` distinguishes the two
  settings.
* An adapter is promoted in the registry while another process holds an older copy of it:
  the copy, stored later, takes the promotion back. `ActiveIsPromoted` exempts runs that
  were promoted while another process worked.
* A failing validation of a structured proof reports no file written, although two
  are there (V15:src/agent.ts:4286): `ReportedIsThere` goes from the report to the files.

**Bounds.** `session` has one loop, one session, two tasks and requests of two steps
with one edit and one repair, one of them with one tool: two steps are what it takes for
a checkpoint to be followed by another turn, and limits of one are met within them.
`MaxFaults = 1` allows a crash or a failed write at every point, with the resume after
it, and `MaxRuns = 4` lets the executed tools exceed the budget by more than a fault
explains; as many edits may throw after a write as there may be faults. `LocalIgnored =
TRUE` is the case in which resumes go furthest: otherwise most are refused. `cli_bridge`
has two tasks, one restart and two faults; these can bring about three children (a
first, a second one from the race in `start`, a third from the restart). `cli_live`
replaces a task by an apply, which does not hold the engine. `edit_journal` has three
files so that a rename and an unrelated file are possible, two texts and a content that
is not text and is read as one of them, patches of two files, and two faults so that a
rollback can fail and the loop crash after it. `training` has two processes, two names
and two runs: one overwriting the other's entry, and one replacing the other's model,
take two; a campaign of two seeds has a choice to make. `production_run` has six turns,
which is what a flawed edit, its failed validation, a repair and the second validation
take with a turn to spare, one repair, two invalid actions and two free texts, so that
each limit is reached. `agent_requests` has two requests at a time and three in all: a
proposal, an application and one that disturbs it, a reset for instance, and one edit of
the user. `sidecar` and `local_modes` have two requests and one fault: the overlap of
two is where files are shared, and every failure is met once in every place.
`model_call` has two calls, the second to meet the diagnostics of the first, and two
deliveries of up to three lines, which puts each line before, after, together with and
between words. Files, contents, the tasks of `cli_bridge` and the processes of
`training` are interchangeable and declared symmetric (no liveness property is checked
under symmetry).

Deadlock is checked for `session`, `session_live`, `edit_journal` and
`production_run` (which stutters explicitly once it ended). Elsewhere nothing has to
happen once every request has returned and the bound on requests is reached.

**Fairness.** `WorkSession`: weak fairness of a loop's steps (the event loop of Node
runs every continuation) and of a new request (the user, or the CLI, asks again);
strong fairness of the model's answer and of a tool that returns, since a resume
after a failure gives them another chance. `CliBridge`: weak fairness of each CLI's
handling of its lines and of the calls it serves (every one ends by an answer or
its timeout), of a starting gateway, of the manager reading lines and exits, and of
the port reservation. `ProductionRun`: weak fairness of the run, whose every await
settles (a reply comes or its stream fails, a command ends or is killed). `SidecarProof`:
weak fairness of what the extension host can do by itself, its timers included;
nothing is assumed of the sidecar. `LocalModes`: weak fairness of a request's steps,
since each awaits a file, a command or a model call under a timer. `ModelCall`:
weak fairness of the timer, of the code around an attempt, and of an attempt
noticing its aborted signal; nothing is assumed of the server. Nothing is assumed of
users or crashes anywhere. `AdapterLifecycle` and `AgentRequests` state no liveness:
training has no timeout of its own, and a dialog may stay open.

## 4. Theorems

All are proved by TLAPS for every value of the constants, from the assumptions named
in the modules. They give the constants their types (requests, prompts, replies, answers,
inputs, bounds), keep the "none" values apart from the real ones, and say what the code
ensures of its inputs: a patch of the model replaces one piece or more, of different
files; the calls of a window are finitely many; tasks are a finite set; a listing of
models is only used when it names one. Nothing limits the number of processes, loops,
requests, calls, faults or restarts, the lines of a stream, or the sizes of budgets.

Every safety property of the runs is a theorem. Some are about a condition, which is
then a hypothesis, and one the code does not always meet:

* `OneServer` (one loop at a time serves a session) for `EditsIsolated`,
  `CompletedRemovedWorktree`, `RunsBounded` and `RecordIsLedger`. TLC refutes each of the
  four for two loops on one session without any fault: the loop that finishes first
  removes the worktree of the other, and the later copy of the record wins (section 2);
* `KeepsTasks` (no input waives the task check, `requireNoPassedTaskRegression`, which is
  on by default, pipeline.ts:213) for `PromotedKeepsTasks`.

**`WorkSessionProofs`.** `TypeCorrect`, one lemma per group of actions.

* `WithinBudgetAlways` and `CheckpointsConsistent`: the records respect their budget
  and their checkpoint agrees with their counters. Neither is inductive: between the
  model's answer and the checkpoint a loop's copy is ahead of its step by one turn,
  and may be ahead by a tool. The invariant `Inv` therefore states what a loop's copy
  must satisfy at each place (`Accounting`), that a record about to be written is
  consistent (`Writable`), and the two properties of the disk. The only facts about
  the counters used are those of the five kernel operations, stated as lemmas. A
  second loop on the same session needs no further fact: each loop writes only
  copies that are consistent in themselves.
* `EditsAreIsolated`, `CompletedHasNoWorktree`, `ToolsAreBounded` and `RecordsAreLedger`
  rest on `ServingInv`, which relates the loop that serves a session to what is on disk:
  what its copy counts more than the record was paid for by turns (`Books`), a record
  that names a worktree has one until it is removed (`Boxes`), and the tools that ran
  are counted but for one at a time and one for each fault or throw (`Runs`). `Rests`
  says what remains of this when a loop is gone, which is what a resume starts from. A
  tool that ran or wrote was asked for in a turn; a fault or a throw may let the record
  forget that turn, once each, and `Allowance` is the sum of the two. The refinement
  needs `Books` for the order of the ledger's entries: a loop's write may only add, and
  adds no tool without its turn.

**`EditJournalProofs`.** `JournalAlwaysSuffices`, `FailedValidationRollsBack`,
`RollbackOnlyRestores`, `JournalTypeCorrect`, from `IInv`. To `JournalSuffices` it adds
that the snapshots a rollback has passed are restored (`Restored`) and that a patch has
forgotten the last verdict. `SnapshotSufficient` is the lemma about
`recordEditSnapshot` all tools rest on: recording a path that is not recorded keeps
a sufficient journal sufficient, because an unrecorded file is as it would be without
the tools, or already what UTF-8 makes of that, and `Utf8` applied twice is `Utf8`
(`JournalAssumption`). A validation command may write anything because it changes `base`
along with every file that is not in the journal.

**`CliBridgeProofs`.** `RequestsAccounted`, `EngineIsFreed`, `OneTaskConnected`,
`StopReaches`, `BridgeTyped`, from `BridgeInv`. None of the four is inductive alone: a
request may only be said to be underway if it is in one stdin, not yet served and
before its cancellation (`AskedInv`). Given that, the active task of a CLI is the one it
serves (`ServeInv`), the CLI a pending request went to is read for as long as it runs
(`SentInv`), and a cancellation follows its request or finds it served (`StopInv`).

**`ProductionRunProofs`.** `SuccessIsCurrent`, `SuccessEvidenced`, `RunTyped`, from
`RunInv`: what the last validation still says of the disk (`EvidenceInv`), that the files
the run says it wrote are there (`TraceInv`) and when the loop is over (`PhaseInv`). Two
action properties are stated there, which relate policy, handlers and notes:
`PlanBeforeEdit` (where the policy asks for a plan, the target is never edited before a
sufficient one) and `RepairInformed` (after a failed validation the target is changed
only by a model that has read it and whose own notes name defect, cause and repair).
`DecisionOk` is what they use of the policy: if it agrees, none of its rules objected.

**`AgentRequestsProofs`.** `WritesApproved`, `IdleReady`, `ReportsObserved`,
`RequestsTyped`, from `SessionInv`: what each request knows at its await (`ApplyInv`, that
it is approved and how far its application has come; `PlanInv`, that its steps so far
found something), what the objects of the store hold, and the link between the two
(`BusyInv`): an object that says Running has a request that runs, and that is not a chat
whose answer is all it waits for.

**`ProviderProofs`.** `OnlyAllowed`, `ReportedThere`, `GateRepaired`, `ProofsTyped`,
from `SafeInv`. What a request may write next is in its proposal (`WriteInv`), which the
parsers admit only within the proof's files: that is what the lemmas about
`StructuredAnalysis` and the others show of every possible answer. What the gate's two
validations say of the files is kept about what the request itself wrote last (`GateInv`),
so that the writes of others need no argument of their own.

`CallsTyped`, `ShownReturned`, `CompletedWhole`, `DiagnosticsFollow`, from `CallInv`.
`PlaceInv` says which provider can be at which place and in which attempt. `AnswerInv`
says what has been read of an answer there: at `read` and `top` all that was sent, and
all of it shown, and nothing at all if the diagnostics say that nothing arrived. This is
what a retry rests on: `canRetry` looks at the diagnostics alone, and they are enough
for nothing to be shown twice. How an attempt may end is four lemmas (`ReturnsKeeps`,
`ThrowsKeeps`, `AttemptKeeps`, `FailsKeeps`), and each handler is shown to end it in one
of these ways. `CompletedWhole` needs that what is read of a chunk up to its last line
is all that was sent before it, and so that the line at which reading stops is the first
of its kind; the community modules define that position as the least of a set, and
`LeastNatural` shows that it exists.

**`LocalModesProofs`.** `CommitTested`, `ReportOfRun`, `PassClean`, `ModesTyped`, from
`LocalInv`, a rely-guarantee argument: `TargetInv` and `ScratchInv` say what the target,
index, HEAD and scratch files hold for a request that is not disturbed, and `Kept` that a
step of anyone else leaves this alone or disturbs the request.

**`AdapterLifecycleProofs`.** `TypeCorrect`, from lemmas about the records a process
becomes and one step per action.

* `ActiveAccepted`: what `active.json` points to was accepted by a quality gate, for
  any number of processes that load, change and store the registry under each
  other. Not inductive: a promotion rests on an entry of the process's own memory, or on
  one a campaign took from the registry. `AcceptedInv` adds that every entry that says
  accepted or promoted has an accepting gate, in the registry, in each loaded copy of it
  and in each process, and that a process on its way to a promotion holds such an entry.
  Lost updates do not disturb it: whichever copy is stored last, its entries are sound.
* `PromotedKeeps`, `ReportedRecorded` and `ActivePromoted`, from `RunInv`: no run is from
  the future (`Known`), a run that no other process overlapped is the only one worked on
  (`Alone`), it finds its model and its entry as it left them (`Undisturbed`), and all
  copies of the registry say of it what its report says (`Document`, `Holds`).

**What the proofs found.** Three properties held in the runs and were false for larger
instances; the invariant did not close, and TLC then confirmed the counterexample.

* `ActiveIsPromoted`: a campaign may promote a run that ended long ago while another
  process holds an older copy of the registry, and lose the promotion. It takes one run
  more than the run `training` has; `overlapped` now counts such promotions.
* `PassedIsClean`: where commands run on other files than those written, an exam passes
  for code that does not compile. `local_modes` now has such files, and the property
  says which code it is about.
* `LocalModes`' types: the model took a complete prompt with no test to run and then
  counted one as run. The code refuses an empty list (V15:src/agent.ts:248), and so
  does the model now.

Looking for an invariant of `ModelCall` showed one more: `CompletedIsWhole` was false for
a chunk with text after the last line, which the code ignores and `sent` counted.

**Termination.** Liveness is out of the prover's reach; how many steps there can be, the
other half of why everything ends, is not. Each of these theorems gives a number of
steps ahead, read off the state, and shows that every step leaves fewer. TLC then checks
on small instances that, under the fairness assumed, the steps are taken.

* `TurnsAreCounted` (behind `RunEnds`): a production run has `MaxToolSteps` turns and
  its two ends. No refusal, correction, free text, postponed report or repair gives a
  turn back.
* `LoopsFinite` (behind `LoopReturns`): a gateway loop has at most 24 turns of eight
  steps and twelve around them, also when it resumed, after failed writes, with lost
  worktrees and with other loops on its session. Nothing other loops, the user or a
  crash do adds one.
* `RequestsFinite` of `ProviderProofs` (behind `ProofsEnd`): a sidecar proof has at most
  thirty steps. A question goes to another mode of the sidecar at most twice, a repair is
  asked for once, and the writes of others to the same files send nobody back.
* `CallsFinite` (behind `CallsEnd`): a call has at most 28 steps that are not the
  arrival of a chunk, since a retry costs one of three attempts, and no chunk adds one.
  So what keeps a call going is a stream that never ends, and that the timer ends.
* `RequestsFinite` of `LocalModesProofs` (behind `RequestsEnd`): reads, edits, tests and
  repairs of the engineer, workflow and exam modes are bounded by the prompt's tests and
  the attempts left, whatever the others do to the files.

There is none for the bridge (`CallsSettle`): what a request of it waits for is the work
of others, a CLI that serves the requests before it and answers of a gateway, and no
number of its own decreases.

**Only model-checked.** Liveness itself (`LoopReturns`, `SessionEnds`, `CallsSettle`,
`RunEnds`, `ProofsEnd`, `RequestsEnd`, `CallsEnd`): the prover has no rules for fairness
and `ENABLED`. `SessionEnds` also needs that budgets are spent across resumes. The run
`session` satisfies `OneServer` by having a single loop.

## 5. Plan

1. `WorktreeApply`: `applyWorktreePatch` against commits, edits, a second apply and the
   finalisation of the session, with the CLI's exclusion of tasks. Abstract
   specification: a patch is applied at most once, to the HEAD it was made from.
2. `Subprocess`: `runCommand` with abort, timeout, signals, exit and close.
3. The split of a dataset (`dataHardening.ts`) against a reference definition.

## 6. Not modelled

* A patch of V15's model with two replacements of one file (excluded by the assumption of
  `AgentRequests`), and ids of models with several colons.
* Prompts, formatting, rendering, reports, status pages, health checks: no state, and
  properties about wording only.
* Evaluation, dataset export, benchmarks: batch jobs over files nobody else writes.
* Research, task classification, repair hints, license detection: patterns over text.
* Workspace inspection (read-only search) and model adaptation (text around a model).
* The gateway's in-memory HTTP work sessions: one synchronous handler, nothing
  interleaves and nothing survives.
* V15's copy of the gateway: kernel, resume, worktrees and training are the same code as
  V16's, which is modelled; loop and tools differ by the abort signal and by how the
  tools are split into files.
* V15's diagnostics, self-tests and read-only modes of agent.ts, its skills, MCP registry
  and self-improvement: they build text, or read files once.
