---------------------------- MODULE ActionPolicy ----------------------------
(***************************************************************************)
(* The policy the V15 production loop asks before every action of the       *)
(* model: evaluateDynamicActionPolicy (src/actionPolicy.ts) with the gates  *)
(* on the context notes (src/contextNotes.ts) it consults.                  *)
(*                                                                         *)
(* Notes are abstracted to the field groups the gates look for: "edit"      *)
(* stands for all of REQUIRED_BEFORE_EDIT_FIELDS, "repair" for the fields   *)
(* REQUIRED_BEFORE_REPAIR_FIELDS adds, "plan" for                           *)
(* REQUIRED_ENGINEERING_PLAN_FIELDS.  Paths are abstracted to where they    *)
(* lie; "none" is an action without a path.                                 *)
(***************************************************************************)
EXTENDS Integers, Sequences

FieldGroups == {"edit", "repair", "plan"}
ScopedPaths == {"target", "helper", "notes", "evidence"}
ForbiddenPaths == {"escape", "secret"}
PolicyPaths == ScopedPaths \cup ForbiddenPaths \cup {"outside", "none"}

SurgicalEdits == {"edit_file_span", "apply_patch"}
ExecutionActions == SurgicalEdits \cup {"write_file_new"}
----------------------------------------------------------------------------
EditGate(notes) == "edit" \in notes
RepairGate(notes) == {"edit", "repair"} \subseteq notes
PlanGate(notes) == "plan" \in notes
NotesGate(i) == IF i.repairRequired THEN RepairGate(i.notes) ELSE EditGate(i.notes)

\* What a rewrite of the notes brings: new evidence, other words, or nothing.
Changes == {"evidence", "reworded", "same"}
NotesProgress(new, change) ==
    \/ change = "evidence"
    \/ change = "reworded" /\ ~EditGate(new)

\* The notes the loop starts from, and what it appends itself: its plan, or the defect
\* a validation found, its cause and the repair to make.
SystemNotes == {"edit"}
PlanNotes(notes) == notes \cup {"plan"}
FailureNotes(notes) == notes \cup {"repair"}
----------------------------------------------------------------------------
RepeatedNotesReason(i) ==
    IF ~NotesGate(i) THEN "NOTES_NO_PROGRESS"
    ELSE IF i.planRequired /\ i.planSufficient THEN "PLAN_COMPLETE_EXECUTION_REQUIRED"
    ELSE "NOTES_NO_PROGRESS_EXECUTION_REQUIRED"

PlanReason(i) ==
    IF i.createValidate THEN "CREATE_VALIDATE_PLAN_REQUIRED" ELSE "PLAN_REQUIRED"

PathReason(a, i) ==
    IF a.path = "escape" THEN "PATH_TRAVERSAL_BLOCKED"
    ELSE IF a.path = "secret" THEN "SECRET_PATH_BLOCKED"
    ELSE IF a.modifies /\ a.path = "outside" THEN "TARGET_PATH_OUT_OF_SCOPE"
    ELSE IF a.modifies /\ a.path \in i.dirty THEN "DIRTY_FILE_PROTECTED"
    ELSE "ok"

CommandReason(a, i) ==
    IF a.type = "run_terminal" /\ a.command = "none" THEN "COMMAND_MISSING"
    ELSE IF \/ a.type = "run_terminal" /\ i.repairRequired
            \/ a.command = "unsafe"
         THEN "COMMAND_BLOCKED"
    ELSE "ok"

FinalReportReason(i) ==
    IF i.corrected /\ i.attemptsLeft THEN "FINAL_CORRECTED_ACTION_REQUIRED"
    ELSE IF i.pending THEN "FINAL_VALIDATION_REQUIRED"
    ELSE IF i.passed \/ i.unavailable \/ i.limitReached \/ i.blocker THEN "ok"
    ELSE IF i.validationFailed /\ i.repairsLeft THEN "FINAL_REPAIR_REQUIRED"
    ELSE "FINAL_VALIDATION_REQUIRED"

EditReason(a, i) ==
    IF a.type \in SurgicalEdits
    THEN IF a.path \notin i.read THEN "TARGET_NOT_READ"
         ELSE IF NotesGate(i) THEN "ok"
         ELSE IF i.repairRequired THEN "REPAIR_DECISION_REQUIRED" ELSE "NOTES_INCOMPLETE"
    ELSE IF a.type = "write_file_new"
    THEN IF a.path \in i.exists /\ i.repairRequired THEN "REPAIR_REQUIRES_SURGICAL_EDIT"
         ELSE IF a.path \in i.exists /\ ~a.rewrite THEN "REWRITE_BLOCKED"
         ELSE IF EditGate(i.notes) THEN "ok" ELSE "NOTES_INCOMPLETE"
    ELSE "ok"

\* evaluateDynamicActionPolicy: the first rule that objects decides.  (Its rule on
\* an unset engineering focus cannot fire: the loop's caller always sets one.)
Decision(a, i) ==
    LET repeated == a.type = "write_context_notes" /\ i.repeated
        unplanned == i.planRequired /\ ~PlanGate(i.notes)
        rules == << IF repeated THEN RepeatedNotesReason(i) ELSE "ok",
                    IF a.type \in ExecutionActions /\ unplanned THEN PlanReason(i) ELSE "ok",
                    PathReason(a, i),
                    CommandReason(a, i),
                    IF a.type = "final_report" THEN FinalReportReason(i) ELSE "ok",
                    IF a.type = "run_validation" /\ unplanned THEN "PLAN_REQUIRED" ELSE "ok",
                    EditReason(a, i) >>
        objections == {k \in DOMAIN rules : rules[k] # "ok"}
    IN  IF objections = {} THEN "ok"
        ELSE rules[CHOOSE k \in objections : \A j \in objections : k <= j]

\* The reasons the loop answers with a request for a corrected action.
Recoverable ==
    {"COMMAND_MISSING", "COMMAND_BLOCKED", "NOTES_INCOMPLETE", "NOTES_NO_PROGRESS",
     "NOTES_NO_PROGRESS_EXECUTION_REQUIRED", "PLAN_COMPLETE_EXECUTION_REQUIRED",
     "PLAN_REQUIRED", "CREATE_VALIDATE_PLAN_REQUIRED", "TARGET_NOT_READ",
     "REPAIR_REQUIRES_SURGICAL_EDIT", "REPAIR_DECISION_REQUIRED"}

\* diagnosticRelaxableReasons: what the diagnostic mode lets pass.
Relaxable ==
    {"NOTES_INCOMPLETE", "TARGET_NOT_READ", "PLAN_REQUIRED", "NOTES_NO_PROGRESS",
     "NOTES_NO_PROGRESS_EXECUTION_REQUIRED", "PLAN_COMPLETE_EXECUTION_REQUIRED"}
=============================================================================
