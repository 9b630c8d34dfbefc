---------------------------- MODULE ProductionRun ----------------------------
(***************************************************************************)
(* The V15 production run: runAylaModelProductionExecutionWithGitGuard      *)
(* (src/agent.ts), a loop in which the model asks for one action at a time, *)
(* the policy (ActionPolicy) decides, a handler executes, and a completion  *)
(* gate and the state of the loop give the verdict of the final report.     *)
(*                                                                         *)
(* One turn of the loop (a reply, its decision, its handler) is a step: the *)
(* loop awaits, but nothing else changes its variables.  What others do to  *)
(* the repository meanwhile is the action Disturb.                          *)
(***************************************************************************)
EXTENDS ActionPolicy, FiniteSets

CONSTANTS
    Profiles,      \* the requests and workspaces a run starts from
    Replies,       \* the actions the model asks for
    MaxToolSteps,  \* turns of the loop (20)
    MaxRepairs,    \* repairs it counts (2)
    MaxInvalid,    \* invalid actions it forgives, plus one (3)
    MaxFreeform    \* free texts in a row that count as an invalid action (8)

\* A run's request and surroundings: which evidence its prompt demands (artifact,
\* validation), its class, its mode, whether TypeScript is missing, an earlier target
\* on disk, the files that are already dirty, and whether it runs in Ayla at all.
ProfileType ==
    [artifact : BOOLEAN, validation : BOOLEAN, createValidate : BOOLEAN,
     diagnostic : BOOLEAN, noTypeScript : BOOLEAN, oldTarget : BOOLEAN, dirty : SUBSET ScopedPaths,
     aylaWorkspace : BOOLEAN]

Edits == {"write_file", "edit_file", "write_file_new"} \cup SurgicalEdits
Looks == {"search_text", "list_directory"}
ActionNames == Edits \cup Looks \cup
    {"inspect_workspace", "propose_plan", "write_context_notes", "request_clarification",
     "read_file", "run_terminal", "show_diff", "run_validation", "final_report"}
\* What the checks of a validation tell apart: passing, failing, not one code block.
Contents == {"sound", "flawed", "malformed", "none"}
\* What the diagnostic mode makes of a reply that is no action.
TextKinds == {"free", "unsafe", "vague"}
Drifts == {"none", "tracked", "dirty", "unreadable"}

ReplyType ==
    [action : ActionNames, path : PolicyPaths, command : {"none", "safe", "unsafe"},
     content : Contents, fields : SUBSET FieldGroups, change : Changes,
     modifies : BOOLEAN, rewrite : BOOLEAN]

ASSUME ProductionAssumption ==
    /\ Profiles \subseteq ProfileType /\ Replies \subseteq ReplyType
    /\ MaxToolSteps \in Nat \ {0} /\ MaxRepairs \in Nat
    /\ MaxInvalid \in Nat \ {0} /\ MaxFreeform \in Nat \ {0}

VARIABLES
    profile,     \* the run's request, fixed
    phase,       \* "setup", "loop", "report", "done"; "thrown": it rejected
    step,        \* stepNumber
    invalid,     \* invalidActionAttemptsUsed
    corrected,   \* correctedActionRequested
    freeform,    \* diagnosticConsecutiveFreeformMessages
    repairs,     \* repairAttempts
    repairRequired,
    pending,     \* repairEditPendingValidation
    failed,      \* lastAttemptHadRepairableFailure
    ran,         \* lastValidationRan
    unavailable, \* toolchainUnavailable
    blocker,     \* policyBlockerActive
    notesOnly,   \* notesOnlyLoopDetected
    noteLoops,   \* sufficientNotesLoopCount
    notes,       \* field groups of contextNotesContent
    modelNotes,  \* modelContextNotesWritten
    read,        \* filesReadByModel
    written,     \* filesWrittenByRun
    ledger,      \* paths of the mutation ledger
    disk,        \* the target and its validation helper, as they are on disk
    drift,       \* what others did to the repository during the run
    verdict,     \* of the final report
    evidence     \* what the last executed validation says of the disk (history)

recovery == <<invalid, corrected, freeform>>
repairing == <<repairs, repairRequired, pending>>
validation == <<failed, ran, unavailable, evidence>>
guards == <<blocker, notesOnly, noteLoops>>
knowledge == <<notes, modelNotes, read>>
mutations == <<written, ledger, disk>>
around == <<profile, drift>>
vars == <<phase, step, verdict, recovery, repairing, validation, guards, knowledge,
          mutations, around>>
loopVars == <<recovery, repairing, validation, guards, knowledge, mutations>>
----------------------------------------------------------------------------
PlanRequired == profile.artifact \/ profile.validation
PolicyNotes == IF modelNotes THEN notes ELSE {}
PlanSufficient == PlanGate(PolicyNotes)
NotesSufficient == EditGate(PolicyNotes)
Executed == evidence # "none"
\* DynamicAgentRuntime: a validation target needs a mutation of this run, and a file
\* the run wrote needs an entry in the ledger.
TargetTraced == "target" \in ledger
Untraced == written \ ledger

\* evaluateProductionCompletionGate, its blockers in the order it tries them.  (The
\* first, project instructions required and not loaded, cannot hold: where they cannot
\* be read, loadAylaProjectInstructions says they are not required.)
CompletionGate(limitation) ==
    IF PlanRequired /\ ~PlanSufficient THEN "PLAN_REQUIRED"
    ELSE IF notesOnly THEN "PROGRESS_EXHAUSTED"
    ELSE IF profile.artifact /\ ~TargetTraced THEN "TARGET_MISSING"
    ELSE IF profile.validation /\ ~Executed
         THEN IF limitation THEN "ALLOW_LIMITATION" ELSE "VALIDATION_NOT_RUN"
    ELSE "ALLOW_VALIDATED"

\* Mutant: a missing artifact does not block.
GateAllowsNoArtifact(gate) ==
    gate \notin {"PLAN_REQUIRED", "PROGRESS_EXHAUSTED", "VALIDATION_NOT_RUN"}
GateAllows(gate) == gate \in {"ALLOW_LIMITATION", "ALLOW_VALIDATED"}

\* The dynamic action of a reply: the two old names become new ones.
PolicyType(r) ==
    IF r.action = "write_file" THEN "write_file_new"
    ELSE IF r.action = "edit_file" THEN "edit_file_span"
    ELSE r.action

PolicyAction(r) ==
    [type |-> PolicyType(r), path |-> r.path, command |-> r.command,
     modifies |-> r.modifies, rewrite |-> r.rewrite \/ r.action = "write_file"]

\* What the loop tells the policy.
PolicyInput(r) ==
    [repairRequired |-> repairRequired,
     notes |-> IF profile.diagnostic /\ ~modelNotes THEN SystemNotes ELSE PolicyNotes,
     planRequired |-> PlanRequired /\ (profile.createValidate \/ ~profile.diagnostic),
     planSufficient |-> PlanSufficient, createValidate |-> profile.createValidate,
     repeated |-> /\ ~profile.diagnostic /\ modelNotes
                  /\ ~NotesProgress(r.fields, r.change),
     dirty |-> profile.dirty, corrected |-> corrected,
     attemptsLeft |-> invalid < MaxInvalid, pending |-> pending,
     passed |-> ran /\ ~repairRequired /\ ~failed,
     unavailable |-> unavailable /\ ~repairRequired,
     validationFailed |-> ran /\ (repairRequired \/ failed),
     repairsLeft |-> repairs < MaxRepairs, limitReached |-> repairs >= MaxRepairs /\ ran,
     blocker |-> blocker, read |-> read, exists |-> written]

PolicyDecision(r) ==
    LET reason == Decision(PolicyAction(r), PolicyInput(r))
    IN  IF profile.diagnostic /\ ~profile.createValidate /\ reason \in Relaxable
        THEN "ok" ELSE reason
----------------------------------------------------------------------------
\* Mutant: a turn that continues is not counted.
ContinueUncounted == phase' = "loop" /\ UNCHANGED step

\* The loop goes on to its next turn, or ends after the last; or it breaks.
Continue == IF step = MaxToolSteps THEN phase' = "report" /\ UNCHANGED step
                                   ELSE phase' = "loop" /\ step' = step + 1
Break == phase' = "report" /\ UNCHANGED step
Throw == phase' = "thrown" /\ UNCHANGED <<step, loopVars>>

\* recordInvalidActionRecovery: ask for a corrected action, or stop for good.
Forgiven == invalid + 1 < MaxInvalid
CountInvalid ==
    /\ invalid' = invalid + 1
    /\ corrected' = Forgiven
    /\ IF Forgiven THEN Continue /\ UNCHANGED <<failed, blocker>>
                   ELSE Break /\ failed' = TRUE /\ blocker' = TRUE

InLoop == phase = "loop" /\ UNCHANGED <<around, verdict>>
RecoverInvalid ==
    /\ CountInvalid
    /\ UNCHANGED <<freeform, repairing, ran, unavailable, evidence, notesOnly, noteLoops,
                   knowledge, mutations>>

\* The run's prelude: the evidence files, the project instructions, the focus.
SetUp ==
    /\ phase = "setup"
    /\ IF profile.aylaWorkspace
       THEN /\ phase' = "loop"
            /\ written' = {"setup"} /\ ledger' = {"setup"}
            /\ UNCHANGED <<verdict, disk, knowledge>>
       ELSE /\ phase' = "done" /\ verdict' = "REFUSED"
            /\ UNCHANGED <<knowledge, mutations>>
    /\ UNCHANGED <<step, recovery, repairing, validation, guards, around>>

\* Reading the repository's state fails before the loop: the run rejects.
SetUpFails == phase = "setup" /\ Throw /\ UNCHANGED <<verdict, around>>

\* The stream of the model is interrupted or cancelled.
StreamInterrupted ==
    /\ InLoop /\ Break
    /\ failed' = TRUE /\ blocker' = TRUE
    /\ UNCHANGED <<recovery, repairing, ran, unavailable, evidence, notesOnly, noteLoops,
                   knowledge, mutations>>

\* The reply is not one action with a known name, or a write without a path or content.
InvalidReply == InLoop /\ RecoverInvalid

\* detectDiagnosticNaturalLanguageIntent: an unsafe wish raises the blocker, a vague
\* one is sent back, anything else is a note; the loop goes on.  (A wish it converts
\* is one of Replies, and ends the row of free texts.)
DiagnosticText(kind) ==
    /\ InLoop /\ profile.diagnostic
    /\ kind = "free" => freeform + 1 < MaxFreeform
    /\ freeform' = IF kind = "free" THEN freeform + 1 ELSE freeform
    /\ blocker' = (blocker \/ kind = "unsafe")
    /\ Continue
    /\ UNCHANGED <<invalid, corrected, repairing, validation, notesOnly, noteLoops,
                   knowledge, mutations>>

DiagnosticStalled ==
    /\ InLoop /\ profile.diagnostic /\ freeform + 1 = MaxFreeform
    /\ CountInvalid
    /\ freeform' = IF Forgiven THEN 0 ELSE MaxFreeform
    /\ UNCHANGED <<repairing, ran, unavailable, evidence, notesOnly, noteLoops, knowledge,
                   mutations>>
----------------------------------------------------------------------------
\* A whole-file write without a path or content is sent back before the policy sees it.
Incomplete(r) ==
    /\ r.action \in {"write_file", "write_file_new"}
    /\ r.path = "none" \/ r.content = "none"

\* The policy objects, for a reason.
FinalReportTooEarly(reason) ==
    /\ reason = "FINAL_REPAIR_REQUIRED"
    /\ failed' = TRUE
    /\ Continue
    /\ UNCHANGED <<recovery, repairing, ran, unavailable, evidence, guards, knowledge,
                   mutations>>

SentBack(reason) ==
    /\ (reason \in Recoverable /\ Forgiven) \/ reason = "FINAL_CORRECTED_ACTION_REQUIRED"
    /\ RecoverInvalid

Stopped(reason) ==
    /\ reason \notin {"FINAL_REPAIR_REQUIRED", "FINAL_CORRECTED_ACTION_REQUIRED"}
    /\ reason \in Recoverable => ~Forgiven
    /\ Break
    /\ failed' = TRUE /\ blocker' = TRUE
    /\ notesOnly' = (notesOnly \/ reason \in
            {"NOTES_NO_PROGRESS_EXECUTION_REQUIRED", "PLAN_COMPLETE_EXECUTION_REQUIRED"})
    /\ invalid' = IF reason \in Recoverable THEN invalid + 1 ELSE invalid
    /\ corrected' = (corrected /\ reason \notin Recoverable)
    /\ UNCHANGED <<freeform, repairing, ran, unavailable, evidence, noteLoops, knowledge,
                   mutations>>

Refused(reason) ==
    /\ InLoop
    /\ FinalReportTooEarly(reason) \/ SentBack(reason) \/ Stopped(reason)

\* The policy agrees: the request for a corrected action is settled.
Allowed(r, name) ==
    /\ r.action = name /\ InLoop
    /\ corrected' = FALSE
    /\ UNCHANGED invalid
    \* a reply read out of free text ends the row of free texts
    /\ freeform' \in IF profile.diagnostic THEN {0, freeform} ELSE {freeform}

\* The second count of sufficient notes matters, so the model stops counting there.
CountNoteLoop == noteLoops' = IF NotesSufficient /\ noteLoops < 2 THEN noteLoops + 1 ELSE noteLoops

Look(r) ==
    /\ \E name \in Looks : Allowed(r, name)
    /\ Continue
    /\ UNCHANGED <<repairing, validation, guards, knowledge, mutations>>
\* A path to list that is missing rejects, and so does a search that finds nothing.
LookFails(r) ==
    /\ InLoop /\ r.action \in Looks
    /\ Throw

Observe(r) ==
    /\ Allowed(r, "inspect_workspace") \/ Allowed(r, "show_diff")
    /\ CountNoteLoop
    /\ Continue
    /\ UNCHANGED <<repairing, validation, blocker, notesOnly, knowledge, mutations>>

RequestClarification(r) ==
    /\ Allowed(r, "request_clarification")
    /\ blocker' = TRUE
    /\ Break
    /\ UNCHANGED <<repairing, validation, notesOnly, noteLoops, knowledge, mutations>>

\* readFile rejects when there is nothing to read, and the run with it.
MayRead(p) == IF p \in DOMAIN disk THEN disk[p] # "absent" ELSE p # "none"
MayMiss(p) == IF p \in DOMAIN disk THEN disk[p] = "absent" ELSE p \notin written
ReadFile(r) ==
    /\ Allowed(r, "read_file") /\ MayRead(r.path)
    /\ read' = read \cup {r.path}
    /\ Continue
    /\ UNCHANGED <<repairing, validation, guards, notes, modelNotes, mutations>>
ReadMissing(r) ==
    /\ InLoop /\ r.action = "read_file" /\ MayMiss(r.path)
    /\ Throw

RunTerminal(r) ==
    /\ Allowed(r, "run_terminal")
    /\ noteLoops' = 0
    /\ \/ Continue /\ UNCHANGED <<failed, blocker>>
       \/ Break /\ failed' = TRUE /\ blocker' = TRUE  \* not in the command allowlist
    /\ UNCHANGED <<repairing, ran, unavailable, evidence, notesOnly, knowledge, mutations>>
----------------------------------------------------------------------------
WriteNotes(content) ==
    /\ notes' = content /\ modelNotes' = TRUE
    /\ written' = written \cup {"notes"} /\ ledger' = ledger \cup {"notes"}
    /\ UNCHANGED <<read, disk>>

\* propose_plan and update_plan: the loop writes the plan, from its own state.
ProposePlan(r) ==
    /\ Allowed(r, "propose_plan")
    /\ WriteNotes(PlanNotes(notes))
    /\ Continue
    /\ UNCHANGED <<repairing, validation, guards>>

\* Without new evidence a rewrite says of the last failure what the notes said.
Coherent(r) ==
    /\ r.change = "same" => r.fields = PolicyNotes
    /\ r.change = "reworded" => ("repair" \in r.fields) = ("repair" \in PolicyNotes)

WriteContextNotes(r) ==
    /\ Allowed(r, "write_context_notes") /\ Coherent(r)
    /\ CountNoteLoop
    /\ IF ~profile.diagnostic /\ PlanSufficient /\ noteLoops' > 1
       THEN /\ notesOnly' = TRUE /\ failed' = TRUE
            /\ UNCHANGED <<knowledge, mutations>>
       ELSE /\ WriteNotes(r.fields)
            /\ UNCHANGED <<notesOnly, failed>>
    /\ Continue
    /\ UNCHANGED <<repairing, ran, unavailable, evidence, blocker>>
----------------------------------------------------------------------------
EditAllowed(r) == \E name \in Edits : Allowed(r, name)
Gated == ~profile.diagnostic /\ ~NotesGate([repairRequired |-> repairRequired, notes |-> PolicyNotes])
MayEdit(r) == r.path \in DOMAIN disk /\ ~Gated

\* A surgical edit's old text may be missing, ambiguous, or too much of the file.
MayMisfit(r) == r.action \in SurgicalEdits /\ disk[r.path] # "absent"

\* The path is not one of the files the run may edit.
EditOutOfScope(r) ==
    /\ EditAllowed(r) /\ r.path \notin DOMAIN disk
    /\ failed' = TRUE
    /\ Break
    /\ UNCHANGED <<repairing, ran, unavailable, evidence, guards, knowledge, mutations>>

\* The notes miss fields, or the surgical edit does not fit.
EditBlocked(r) ==
    /\ EditAllowed(r) /\ r.path \in DOMAIN disk
    /\ Gated \/ MayMisfit(r)
    /\ blocker' = TRUE
    /\ Break
    /\ read' = IF Gated THEN read ELSE read \cup ({r.path} \cap {"target"})
    /\ UNCHANGED <<repairing, validation, notesOnly, noteLoops, notes, modelNotes, mutations>>

EditMissing(r) ==
    /\ InLoop /\ r.action \in SurgicalEdits
    /\ MayEdit(r) /\ disk[r.path] = "absent"
    /\ Throw

\* The target would not be one component's code.
EditMalformed(r) ==
    /\ EditAllowed(r) /\ MayEdit(r) /\ r.path = "target"
    /\ r.content \in {"malformed", "none"}
    /\ failed' = TRUE /\ repairRequired' = TRUE
    /\ Break
    /\ UNCHANGED <<repairs, pending, ran, unavailable, evidence, guards, knowledge, mutations>>

\* The edit is made and traced.  Only a repair of the target itself is counted, while
\* any edit settles repairRequired until the next validation.
EditFile(r) ==
    /\ EditAllowed(r) /\ MayEdit(r)
    /\ r.path = "target" => r.content \in {"sound", "flawed"}
    /\ r.action \in SurgicalEdits => disk[r.path] # "absent"
    /\ disk' = [disk EXCEPT ![r.path] = IF r.path = "target" THEN r.content ELSE "model"]
    /\ repairs' = IF /\ repairRequired /\ r.path = "target" /\ repairs < MaxRepairs
                     /\ PolicyType(r) \in SurgicalEdits
                  THEN repairs + 1 ELSE repairs
    /\ repairRequired' = FALSE /\ pending' = TRUE /\ noteLoops' = 0
    /\ written' = written \cup {r.path} /\ ledger' = ledger \cup {r.path}
    /\ read' = IF r.action \in SurgicalEdits /\ r.path = "target" THEN read \cup {r.path} ELSE read
    /\ evidence' = IF evidence = "passed" THEN "stale" ELSE evidence
    /\ Continue
    /\ UNCHANGED <<failed, ran, unavailable, blocker, notesOnly, notes, modelNotes>>
----------------------------------------------------------------------------
\* Validation needs a target the run itself wrote.
ValidationUntraced(r) ==
    /\ Allowed(r, "run_validation") /\ ~TargetTraced
    /\ failed' = TRUE /\ blocker' = TRUE /\ noteLoops' = 0
    /\ Break
    /\ UNCHANGED <<repairing, ran, unavailable, evidence, notesOnly, knowledge, mutations>>

\* Mutant: the loop goes on after a pass, too.
AfterValidationAlways(fails) == IF repairs < MaxRepairs THEN Continue ELSE Break

\* discoverValidationCommands may know of no compiler; another may turn out missing.
NoCompiler == IF profile.noTypeScript THEN {TRUE} ELSE BOOLEAN

\* Only a failure that may still be repaired keeps the loop going.
AfterValidation(fails) == IF fails /\ repairs < MaxRepairs THEN Continue ELSE Break

\* The helpers the run has not written are written, the target is checked, compiled
\* and tested, and the notes get the outcome.  A helper of the model's own is kept.
RunValidation(r, fails, noCompiler) ==
    LET helper == IF "helper" \in written THEN disk.helper ELSE "system"
        base == IF "notes" \in written THEN notes ELSE SystemNotes
    IN  /\ Allowed(r, "run_validation") /\ TargetTraced
        /\ disk.target = "flawed" /\ helper = "system" => fails
        /\ noCompiler \in NoCompiler
        /\ disk' = [disk EXCEPT !.helper = helper]
        /\ written' = written \cup {"helper", "notes"}
        /\ ledger' = ledger \cup {"notes"} \cup ({"helper"} \ written)
        /\ read' = read \cup {"target"}
        /\ notes' = IF fails THEN FailureNotes(base) ELSE base
        /\ ran' = TRUE /\ pending' = FALSE /\ noteLoops' = 0
        /\ repairRequired' = fails /\ failed' = fails /\ unavailable' = noCompiler
        /\ evidence' = IF fails THEN "failed" ELSE "passed"
        /\ AfterValidation(fails)
        /\ UNCHANGED <<repairs, blocker, notesOnly, modelNotes>>

\* final_report: the completion gate, then what is still open, then the loop ends.
FinalReport(r) ==
    LET gate == CompletionGate(unavailable)
        open == (repairRequired /\ repairs < MaxRepairs) \/ pending
    IN  /\ Allowed(r, "final_report")
        /\ failed' = (failed \/ ~GateAllows(gate) \/ open)
        /\ blocker' = (blocker \/ gate = "PROGRESS_EXHAUSTED")
        /\ IF gate = "PROGRESS_EXHAUSTED" \/ (GateAllows(gate) /\ ~open) THEN Break ELSE Continue
        /\ UNCHANGED <<repairing, ran, unavailable, evidence, notesOnly, noteLoops,
                       knowledge, mutations>>
----------------------------------------------------------------------------
\* After the loop: what changed outside the run, the gate again, and the verdict.
\* Without a compiler the gate does not ask whether validation was tried at all.
Report ==
    LET gate == CompletionGate(unavailable \/ profile.noTypeScript)
        nowFailed == \/ failed \/ ~GateAllows(gate)
                     \/ drift \in {"tracked", "dirty"} \/ Untraced # {}
    IN  /\ phase = "report" /\ phase' = "done"
        /\ failed' = nowFailed
        /\ verdict' = IF invalid >= MaxInvalid THEN "BLOCKED"
                    ELSE IF nowFailed THEN "FAILED"
                    ELSE IF gate = "ALLOW_LIMITATION" \/ unavailable THEN "LIMITED"
                    ELSE "VALIDATED"
        /\ UNCHANGED <<step, recovery, repairing, ran, unavailable, evidence, guards,
                       knowledge, mutations, around>>

\* Somebody else edits a tracked file, a file that was dirty before the run, or a dirty
\* file the run could not read (its fingerprint is "unavailable", so nobody notices).
Disturb ==
    /\ phase \in {"loop", "report"} /\ drift = "none"
    /\ drift' \in Drifts \ {"none"}
    /\ drift' = "dirty" => profile.dirty # {}
    /\ UNCHANGED <<phase, step, verdict, loopVars, profile>>
----------------------------------------------------------------------------
Init ==
    /\ profile \in Profiles
    /\ phase = "setup" /\ step = 1 /\ verdict = "none"
    /\ invalid = 0 /\ corrected = FALSE /\ freeform = 0
    /\ repairs = 0 /\ repairRequired = FALSE /\ pending = FALSE
    /\ failed = FALSE /\ ran = FALSE /\ unavailable = FALSE /\ evidence = "none"
    /\ blocker = FALSE /\ notesOnly = FALSE /\ noteLoops = 0
    /\ notes = {} /\ modelNotes = FALSE /\ read = {}
    /\ written = {} /\ ledger = {}
    /\ disk = [target |-> IF profile.oldTarget THEN "flawed" ELSE "absent", helper |-> "absent"]
    /\ drift = "none"

Execute(r) ==
    \/ Look(r) \/ LookFails(r) \/ Observe(r) \/ RequestClarification(r)
    \/ ReadFile(r) \/ ReadMissing(r) \/ RunTerminal(r)
    \/ ProposePlan(r) \/ WriteContextNotes(r)
    \/ EditOutOfScope(r) \/ EditBlocked(r) \/ EditMissing(r) \/ EditMalformed(r) \/ EditFile(r)
    \/ ValidationUntraced(r) \/ FinalReport(r)
    \/ \E fails, noCompiler \in BOOLEAN : RunValidation(r, fails, noCompiler)

Answer(r) ==
    LET reason == PolicyDecision(r)
    IN  /\ ~Incomplete(r)
        /\ IF reason = "ok" THEN Execute(r) ELSE Refused(reason)

Turn ==
    /\ phase = "loop"
    /\ \/ StreamInterrupted \/ DiagnosticStalled
       \/ InvalidReply  \* a reply that is Incomplete, too
       \/ \E kind \in TextKinds : DiagnosticText(kind)
       \/ \E r \in Replies : Answer(r)

Run == SetUp \/ SetUpFails \/ Turn \/ Report
Ended == phase \in {"done", "thrown"}
Next == Run \/ Disturb \/ (Ended /\ UNCHANGED vars)

\* The run is one asynchronous function whose awaits settle: a reply of the model
\* comes, or its stream fails.
Spec == Init /\ [][Next]_vars /\ WF_vars(Run)
----------------------------------------------------------------------------
TypeOK ==
    /\ profile \in Profiles
    /\ phase \in {"setup", "loop", "report", "done", "thrown"}
    /\ step \in 1..MaxToolSteps /\ invalid \in 0..MaxInvalid /\ freeform \in 0..MaxFreeform
    /\ repairs \in 0..MaxRepairs /\ noteLoops \in 0..2
    /\ {corrected, repairRequired, pending, failed, ran, unavailable, blocker, notesOnly,
        modelNotes} \subseteq BOOLEAN
    /\ notes \subseteq FieldGroups /\ read \subseteq PolicyPaths
    /\ written \subseteq {"setup", "target", "helper", "notes"} /\ ledger \subseteq written
    /\ disk \in [target : {"absent", "sound", "flawed"}, helper : {"absent", "system", "model"}]
    /\ drift \in Drifts
    /\ evidence \in {"none", "failed", "passed", "stale"}
    /\ verdict \in {"none", "REFUSED", "BLOCKED", "FAILED", "LIMITED", "VALIDATED"}

Success == phase = "done" /\ verdict \in {"LIMITED", "VALIDATED"}

\* A successful verdict on a run that validated is about the files as they are: the
\* last validation passed on this very target, nothing waits for a repair or for
\* another validation, and a flawed target got through only with a validation helper
\* the model wrote itself.
ValidatedIsCurrent ==
    Success /\ Executed =>
        /\ evidence = "passed" /\ ~pending /\ ~repairRequired
        /\ disk.target = "sound" \/ disk.helper = "model"

\* A successful verdict rests on what the prompt asked for: a sufficient plan is in
\* the notes, the artifact was written by this run, a validation that was asked for
\* either ran or is reported as a limitation, and no file changed that the run cannot
\* account for.
SuccessIsEvidenced ==
    Success =>
        /\ PlanRequired => PlanSufficient
        /\ profile.artifact => "target" \in ledger
        /\ profile.validation /\ ~Executed => verdict = "LIMITED"
        /\ drift \in {"none", "unreadable"}

\* Every run ends, with a report or with an error.
RunEnds == <>Ended
=============================================================================
