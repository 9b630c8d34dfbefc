------------------------ MODULE ProductionRunProofs ------------------------
(***************************************************************************)
(* Proofs about ProductionRun, for any set of requests and of replies and   *)
(* any limits: a successful verdict is about the files as they are and      *)
(* rests on what the request asked for, no edit of the target precedes the  *)
(* plan it needs, and a repair is an edit by a model that has read the      *)
(* target and written down what was wrong.                                  *)
(*                                                                         *)
(* The inductive invariant says what the last validation still tells of the *)
(* disk (EvidenceInv), what the run's trace says of it (TraceInv) and when  *)
(* the loop must be over (PhaseInv).                                        *)
(***************************************************************************)
EXTENDS ProductionRun, TLAPS

\* A run that was validated has left the loop, and nothing has happened to its files.
EvidenceInv ==
    /\ evidence # "stale"
    /\ evidence = "failed" => failed
    /\ evidence = "passed" =>
        /\ phase \in {"report", "done"} /\ ~pending /\ ~repairRequired
        /\ disk.target = "sound" \/ disk.helper = "model"

\* What the run wrote is there, and it repairs only what it wrote.
TraceInv ==
    /\ "helper" \in written => disk.helper # "absent"
    /\ "target" \in ledger => disk.target # "absent"
    /\ phase = "loop" /\ repairRequired => "target" \in written

\* The last invalid action ends the loop, and no success is reported after a failure.
PhaseInv ==
    /\ phase \in {"setup", "loop"} => invalid < MaxInvalid
    /\ phase = "setup" => ~repairRequired
    /\ Success => ~failed

RunInv == TypeOK /\ EvidenceInv /\ TraceInv /\ PhaseInv /\ SuccessIsEvidenced

\* A step that changes the target, or makes it one of the run's own files.
TargetEdited == disk'.target # disk.target \/ "target" \in ledger' \ ledger

\* The model edits the target only after a sufficient plan, where the policy asks for
\* one: the request demands evidence, and is not a mere diagnosis.
EditsArePlanned ==
    [][TargetEdited /\ PlanRequired /\ (profile.createValidate \/ ~profile.diagnostic)
            => PlanSufficient]_vars

\* After a failed validation the model changes the target only when it has read it and
\* its own notes name the defect, its cause and the repair.
RepairsAreInformed ==
    [][TargetEdited /\ repairRequired /\ ~profile.diagnostic
            => "target" \in read /\ modelNotes /\ RepairGate(notes)]_vars
\* The steps a run can still take: its prelude, the turns that are left, its report.
Fuel ==
    CASE phase = "setup" -> MaxToolSteps + 2
      [] phase = "loop" -> MaxToolSteps - step + 2
      [] phase = "report" -> 1
      [] OTHER -> 0

\* Whatever the model replies, every step of the run uses up one of those it has left: no
\* refusal, correction, free text or repair gives a turn back.  A step that uses none up is
\* one of somebody else.
StepsAreCounted ==
    [][/\ Fuel' \in Nat
       /\ Fuel' < Fuel \/ UNCHANGED <<phase, step, verdict, loopVars, profile>>]_vars
----------------------------------------------------------------------------
\* The policy agrees to an action only when none of its rules objects.
LEMMA DecisionOk ==
    ASSUME NEW a, NEW i, Decision(a, i) = "ok"
    PROVE  /\ a.type \in ExecutionActions /\ i.planRequired => PlanGate(i.notes)
           /\ EditReason(a, i) = "ok"
<1> DEFINE unplanned == i.planRequired /\ ~PlanGate(i.notes)
           rules == << IF a.type = "write_context_notes" /\ i.repeated
                       THEN RepeatedNotesReason(i) ELSE "ok",
                       IF a.type \in ExecutionActions /\ unplanned THEN PlanReason(i) ELSE "ok",
                       PathReason(a, i),
                       CommandReason(a, i),
                       IF a.type = "final_report" THEN FinalReportReason(i) ELSE "ok",
                       IF a.type = "run_validation" /\ unplanned THEN "PLAN_REQUIRED" ELSE "ok",
                       EditReason(a, i) >>
           objections == {k \in DOMAIN rules : rules[k] # "ok"}
<1>1. DOMAIN rules = 1..7
  OBVIOUS
<1>2. rules[2] = IF a.type \in ExecutionActions /\ unplanned THEN PlanReason(i) ELSE "ok"
  OBVIOUS
<1>3. rules[7] = EditReason(a, i)
  OBVIOUS
<1>4. Decision(a, i) = IF objections = {} THEN "ok"
                       ELSE rules[CHOOSE k \in objections : \A j \in objections : k <= j]
  BY DEF Decision
<1> HIDE DEF rules
<1>5. objections = {}
  <2> SUFFICES ASSUME objections # {} PROVE FALSE
    OBVIOUS
  <2>1. \E k \in objections : \A j \in objections : k <= j
    BY <1>1
  <2> DEFINE first == CHOOSE k \in objections : \A j \in objections : k <= j
  <2>2. first \in objections
    BY <2>1
  <2> QED BY <2>2, <1>4
<1>6. PlanReason(i) # "ok"
  BY DEF PlanReason
<1> QED BY <1>1, <1>2, <1>3, <1>5, <1>6
----------------------------------------------------------------------------
\* TypeOK in three parts: the counters, the flags, and what the run knows and wrote.
CountTypes ==
    /\ phase \in {"setup", "loop", "report", "done", "thrown"}
    /\ step \in 1..MaxToolSteps /\ invalid \in 0..MaxInvalid /\ freeform \in 0..MaxFreeform
    /\ repairs \in 0..MaxRepairs /\ noteLoops \in 0..2
FlagTypes ==
    /\ corrected \in BOOLEAN /\ repairRequired \in BOOLEAN /\ pending \in BOOLEAN
    /\ failed \in BOOLEAN /\ ran \in BOOLEAN /\ unavailable \in BOOLEAN
    /\ blocker \in BOOLEAN /\ notesOnly \in BOOLEAN /\ modelNotes \in BOOLEAN
DataTypes ==
    /\ profile \in Profiles /\ drift \in Drifts
    /\ notes \subseteq FieldGroups /\ read \subseteq PolicyPaths
    /\ written \subseteq {"setup", "target", "helper", "notes"} /\ ledger \subseteq written
    /\ disk \in [target : {"absent", "sound", "flawed"}, helper : {"absent", "system", "model"}]
    /\ evidence \in {"none", "failed", "passed", "stale"}
    /\ verdict \in {"none", "REFUSED", "BLOCKED", "FAILED", "LIMITED", "VALIDATED"}

LEMMA TypeParts == TypeOK <=> CountTypes /\ FlagTypes /\ DataTypes
<1>1. FlagTypes <=> {corrected, repairRequired, pending, failed, ran, unavailable, blocker,
                     notesOnly, modelNotes} \subseteq BOOLEAN
  BY Zenon DEF FlagTypes
<1> HIDE DEF FlagTypes
<1> QED BY <1>1 DEF TypeOK, CountTypes, DataTypes

LEMMA TypePartsNext == TypeOK' <=> CountTypes' /\ FlagTypes' /\ DataTypes'
<1>1. FlagTypes' <=> {corrected', repairRequired', pending', failed', ran', unavailable',
                      blocker', notesOnly', modelNotes'} \subseteq BOOLEAN
  BY Zenon DEF FlagTypes
<1> QED BY <1>1 DEF TypeOK, CountTypes, DataTypes

\* What each lemma below takes the invariant apart into, and puts together again.
Parts ==
    /\ CountTypes /\ FlagTypes /\ DataTypes
    /\ EvidenceInv /\ TraceInv /\ PhaseInv /\ SuccessIsEvidenced
    /\ Forgiven \in BOOLEAN

LEMMA PartsOf == RunInv => Parts
  BY TypeParts DEF RunInv, Parts, Forgiven

LEMMA PartsNext ==
    ASSUME CountTypes', FlagTypes', DataTypes',
           EvidenceInv', TraceInv', PhaseInv', SuccessIsEvidenced'
    PROVE  RunInv'
  BY TypePartsNext DEF RunInv

USE ProductionAssumption
USE DEF Parts, Continue, Break, Throw, CountInvalid, RecoverInvalid, InLoop, Allowed,
        loopVars, recovery, repairing, validation, guards, knowledge, mutations, around

LEMMA InitInv == Init => RunInv
<1> SUFFICES ASSUME Init PROVE RunInv
  OBVIOUS
<1>1. CountTypes
  BY DEF Init, CountTypes
<1>2. FlagTypes
  BY DEF Init, FlagTypes
<1>3. DataTypes
  BY DEF Init, DataTypes, Drifts
<1>4. EvidenceInv /\ TraceInv /\ PhaseInv /\ SuccessIsEvidenced
  BY DEF Init, EvidenceInv, TraceInv, PhaseInv, Success, SuccessIsEvidenced
<1> QED BY <1>1, <1>2, <1>3, <1>4, TypeParts DEF RunInv

LEMMA SetUpInv ==
    ASSUME RunInv, SetUp
    PROVE  RunInv'
<1> USE DEF SetUp
<1>0. Parts
  BY PartsOf
<1>1. CountTypes'
  BY <1>0 DEF CountTypes, PhaseInv, Forgiven
<1>2. FlagTypes'
  BY <1>0 DEF FlagTypes
<1>3. DataTypes'
  BY <1>0 DEF DataTypes
<1>4. EvidenceInv' /\ TraceInv'
  BY <1>0 DEF EvidenceInv, TraceInv, PhaseInv, DataTypes, FlagTypes
<1>5. PhaseInv' /\ SuccessIsEvidenced'
  BY <1>0 DEF PhaseInv, Success, SuccessIsEvidenced, CountTypes, Forgiven
<1> QED BY <1>1, <1>2, <1>3, <1>4, <1>5, PartsNext

LEMMA SetUpFailsInv ==
    ASSUME RunInv, SetUpFails
    PROVE  RunInv'
<1> USE DEF SetUpFails
<1>0. Parts
  BY PartsOf
<1>1. CountTypes'
  BY <1>0 DEF CountTypes, PhaseInv, Forgiven
<1>2. FlagTypes'
  BY <1>0 DEF FlagTypes
<1>3. DataTypes'
  BY <1>0 DEF DataTypes
<1>4. EvidenceInv' /\ TraceInv'
  BY <1>0 DEF EvidenceInv, TraceInv, PhaseInv, DataTypes, FlagTypes
<1>5. PhaseInv' /\ SuccessIsEvidenced'
  BY <1>0 DEF PhaseInv, Success, SuccessIsEvidenced, CountTypes, Forgiven
<1> QED BY <1>1, <1>2, <1>3, <1>4, <1>5, PartsNext

LEMMA InterruptedInv ==
    ASSUME RunInv, StreamInterrupted
    PROVE  RunInv'
<1> USE DEF StreamInterrupted
<1>0. Parts
  BY PartsOf
<1>1. CountTypes'
  BY <1>0 DEF CountTypes, PhaseInv, Forgiven
<1>2. FlagTypes'
  BY <1>0 DEF FlagTypes
<1>3. DataTypes'
  BY <1>0 DEF DataTypes
<1>4. EvidenceInv' /\ TraceInv'
  BY <1>0 DEF EvidenceInv, TraceInv, PhaseInv, DataTypes, FlagTypes
<1>5. PhaseInv' /\ SuccessIsEvidenced'
  BY <1>0 DEF PhaseInv, Success, SuccessIsEvidenced, CountTypes, Forgiven
<1> QED BY <1>1, <1>2, <1>3, <1>4, <1>5, PartsNext

LEMMA InvalidInv ==
    ASSUME RunInv, InvalidReply
    PROVE  RunInv'
<1> USE DEF InvalidReply
<1>0. Parts
  BY PartsOf
<1>1. CountTypes'
  BY <1>0 DEF CountTypes, PhaseInv, Forgiven
<1>2. FlagTypes'
  BY <1>0 DEF FlagTypes
<1>3. DataTypes'
  BY <1>0 DEF DataTypes
<1>4. EvidenceInv' /\ TraceInv'
  BY <1>0 DEF EvidenceInv, TraceInv, PhaseInv, DataTypes, FlagTypes
<1>5. PhaseInv' /\ SuccessIsEvidenced'
  BY <1>0 DEF PhaseInv, Success, SuccessIsEvidenced, CountTypes, Forgiven
<1> QED BY <1>1, <1>2, <1>3, <1>4, <1>5, PartsNext

LEMMA TextInv ==
    ASSUME RunInv, NEW kind, DiagnosticText(kind)
    PROVE  RunInv'
<1> USE DEF DiagnosticText
<1>0. Parts
  BY PartsOf
<1>1. CountTypes'
  BY <1>0 DEF CountTypes, PhaseInv, Forgiven
<1>2. FlagTypes'
  BY <1>0 DEF FlagTypes
<1>3. DataTypes'
  BY <1>0 DEF DataTypes
<1>4. EvidenceInv' /\ TraceInv'
  BY <1>0 DEF EvidenceInv, TraceInv, PhaseInv, DataTypes, FlagTypes
<1>5. PhaseInv' /\ SuccessIsEvidenced'
  BY <1>0 DEF PhaseInv, Success, SuccessIsEvidenced, CountTypes, Forgiven
<1> QED BY <1>1, <1>2, <1>3, <1>4, <1>5, PartsNext

LEMMA StalledInv ==
    ASSUME RunInv, DiagnosticStalled
    PROVE  RunInv'
<1> USE DEF DiagnosticStalled
<1>0. Parts
  BY PartsOf
<1>1. CountTypes'
  BY <1>0 DEF CountTypes, PhaseInv, Forgiven
<1>2. FlagTypes'
  BY <1>0 DEF FlagTypes
<1>3. DataTypes'
  BY <1>0 DEF DataTypes
<1>4. EvidenceInv' /\ TraceInv'
  BY <1>0 DEF EvidenceInv, TraceInv, PhaseInv, DataTypes, FlagTypes
<1>5. PhaseInv' /\ SuccessIsEvidenced'
  BY <1>0 DEF PhaseInv, Success, SuccessIsEvidenced, CountTypes, Forgiven
<1> QED BY <1>1, <1>2, <1>3, <1>4, <1>5, PartsNext

LEMMA RefusalInv ==
    ASSUME RunInv, NEW reason, Refused(reason)
    PROVE  RunInv'
<1> USE DEF Refused, FinalReportTooEarly, SentBack, Stopped
<1>0. Parts
  BY PartsOf
<1>1. CountTypes'
  BY <1>0 DEF CountTypes, PhaseInv, Forgiven
<1>2. FlagTypes'
  BY ZenonT(30), <1>0 DEF FlagTypes
<1>3. DataTypes'
  BY <1>0 DEF DataTypes
<1>4. EvidenceInv' /\ TraceInv'
  BY <1>0 DEF EvidenceInv, TraceInv, PhaseInv, DataTypes, FlagTypes
<1>5. PhaseInv' /\ SuccessIsEvidenced'
  BY <1>0 DEF PhaseInv, Success, SuccessIsEvidenced, CountTypes, Forgiven
<1> QED BY <1>1, <1>2, <1>3, <1>4, <1>5, PartsNext

LEMMA LookInv ==
    ASSUME RunInv, NEW r \in Replies, Look(r)
    PROVE  RunInv'
<1> USE DEF Look
<1>0. Parts
  BY PartsOf
<1>1. CountTypes'
  BY <1>0 DEF CountTypes, PhaseInv, Forgiven
<1>2. FlagTypes'
  BY <1>0 DEF FlagTypes
<1>3. DataTypes'
  BY <1>0 DEF DataTypes
<1>4. EvidenceInv' /\ TraceInv'
  BY <1>0 DEF EvidenceInv, TraceInv, PhaseInv, DataTypes, FlagTypes
<1>5. PhaseInv' /\ SuccessIsEvidenced'
  BY <1>0 DEF PhaseInv, Success, SuccessIsEvidenced, CountTypes, Forgiven
<1> QED BY <1>1, <1>2, <1>3, <1>4, <1>5, PartsNext

LEMMA ObserveInv ==
    ASSUME RunInv, NEW r \in Replies, Observe(r)
    PROVE  RunInv'
<1> USE DEF Observe, CountNoteLoop
<1>0. Parts
  BY PartsOf
<1>1. CountTypes'
  BY <1>0 DEF CountTypes, PhaseInv, Forgiven
<1>2. FlagTypes'
  BY <1>0 DEF FlagTypes
<1>3. DataTypes'
  BY <1>0 DEF DataTypes
<1>4. EvidenceInv' /\ TraceInv'
  BY <1>0 DEF EvidenceInv, TraceInv, PhaseInv, DataTypes, FlagTypes
<1>5. PhaseInv' /\ SuccessIsEvidenced'
  BY <1>0 DEF PhaseInv, Success, SuccessIsEvidenced, CountTypes, Forgiven
<1> QED BY <1>1, <1>2, <1>3, <1>4, <1>5, PartsNext

LEMMA ClarificationInv ==
    ASSUME RunInv, NEW r \in Replies, RequestClarification(r)
    PROVE  RunInv'
<1> USE DEF RequestClarification
<1>0. Parts
  BY PartsOf
<1>1. CountTypes'
  BY <1>0 DEF CountTypes, PhaseInv, Forgiven
<1>2. FlagTypes'
  BY <1>0 DEF FlagTypes
<1>3. DataTypes'
  BY <1>0 DEF DataTypes
<1>4. EvidenceInv' /\ TraceInv'
  BY <1>0 DEF EvidenceInv, TraceInv, PhaseInv, DataTypes, FlagTypes
<1>5. PhaseInv' /\ SuccessIsEvidenced'
  BY <1>0 DEF PhaseInv, Success, SuccessIsEvidenced, CountTypes, Forgiven
<1> QED BY <1>1, <1>2, <1>3, <1>4, <1>5, PartsNext

LEMMA ReadFileInv ==
    ASSUME RunInv, NEW r \in Replies, ReadFile(r)
    PROVE  RunInv'
<1> USE DEF ReadFile
<1>0. Parts
  BY PartsOf
<1>1. CountTypes'
  BY <1>0 DEF CountTypes, PhaseInv, Forgiven
<1>2. FlagTypes'
  BY <1>0 DEF FlagTypes
<1>3. DataTypes'
  BY <1>0 DEF DataTypes, ReplyType
<1>4. EvidenceInv' /\ TraceInv'
  BY <1>0 DEF EvidenceInv, TraceInv, PhaseInv, DataTypes, FlagTypes
<1>5. PhaseInv' /\ SuccessIsEvidenced'
  BY <1>0 DEF PhaseInv, Success, SuccessIsEvidenced, CountTypes, Forgiven
<1> QED BY <1>1, <1>2, <1>3, <1>4, <1>5, PartsNext

LEMMA LookFailsInv ==
    ASSUME RunInv, NEW r \in Replies, LookFails(r)
    PROVE  RunInv'
<1> USE DEF LookFails
<1>0. Parts
  BY PartsOf
<1>1. CountTypes'
  BY <1>0 DEF CountTypes, PhaseInv, Forgiven
<1>2. FlagTypes'
  BY <1>0 DEF FlagTypes
<1>3. DataTypes'
  BY <1>0 DEF DataTypes
<1>4. EvidenceInv' /\ TraceInv'
  BY <1>0 DEF EvidenceInv, TraceInv, PhaseInv, DataTypes, FlagTypes
<1>5. PhaseInv' /\ SuccessIsEvidenced'
  BY <1>0 DEF PhaseInv, Success, SuccessIsEvidenced, CountTypes, Forgiven
<1> QED BY <1>1, <1>2, <1>3, <1>4, <1>5, PartsNext

LEMMA ReadMissingInv ==
    ASSUME RunInv, NEW r \in Replies, ReadMissing(r)
    PROVE  RunInv'
<1> USE DEF ReadMissing
<1>0. Parts
  BY PartsOf
<1>1. CountTypes'
  BY <1>0 DEF CountTypes, PhaseInv, Forgiven
<1>2. FlagTypes'
  BY <1>0 DEF FlagTypes
<1>3. DataTypes'
  BY <1>0 DEF DataTypes
<1>4. EvidenceInv' /\ TraceInv'
  BY <1>0 DEF EvidenceInv, TraceInv, PhaseInv, DataTypes, FlagTypes
<1>5. PhaseInv' /\ SuccessIsEvidenced'
  BY <1>0 DEF PhaseInv, Success, SuccessIsEvidenced, CountTypes, Forgiven
<1> QED BY <1>1, <1>2, <1>3, <1>4, <1>5, PartsNext

LEMMA RunTerminalInv ==
    ASSUME RunInv, NEW r \in Replies, RunTerminal(r)
    PROVE  RunInv'
<1> USE DEF RunTerminal
<1>0. Parts
  BY PartsOf
<1>1. CountTypes'
  BY <1>0 DEF CountTypes, PhaseInv, Forgiven
<1>2. FlagTypes'
  BY <1>0 DEF FlagTypes
<1>3. DataTypes'
  BY <1>0 DEF DataTypes
<1>4. EvidenceInv' /\ TraceInv'
  BY <1>0 DEF EvidenceInv, TraceInv, PhaseInv, DataTypes, FlagTypes
<1>5. PhaseInv' /\ SuccessIsEvidenced'
  BY <1>0 DEF PhaseInv, Success, SuccessIsEvidenced, CountTypes, Forgiven
<1> QED BY <1>1, <1>2, <1>3, <1>4, <1>5, PartsNext

LEMMA ProposePlanInv ==
    ASSUME RunInv, NEW r \in Replies, ProposePlan(r)
    PROVE  RunInv'
<1> USE DEF ProposePlan, WriteNotes
<1>0. Parts
  BY PartsOf
<1>1. CountTypes'
  BY <1>0 DEF CountTypes, PhaseInv, Forgiven
<1>2. FlagTypes'
  BY <1>0 DEF FlagTypes
<1>3. DataTypes'
  BY <1>0 DEF DataTypes, PlanNotes, FieldGroups
<1>4. EvidenceInv' /\ TraceInv'
  BY <1>0 DEF EvidenceInv, TraceInv, PhaseInv, DataTypes, FlagTypes
<1>5. PhaseInv' /\ SuccessIsEvidenced'
  BY <1>0 DEF PhaseInv, Success, SuccessIsEvidenced, CountTypes, Forgiven
<1> QED BY <1>1, <1>2, <1>3, <1>4, <1>5, PartsNext

LEMMA WriteNotesInv ==
    ASSUME RunInv, NEW r \in Replies, WriteContextNotes(r)
    PROVE  RunInv'
<1> USE DEF WriteContextNotes, WriteNotes, CountNoteLoop
<1>0. Parts
  BY PartsOf
<1>1. CountTypes'
  BY <1>0 DEF CountTypes, PhaseInv, Forgiven
<1>2. FlagTypes'
  BY <1>0 DEF FlagTypes
<1>3. DataTypes'
  BY <1>0 DEF DataTypes, ReplyType
<1>4. EvidenceInv' /\ TraceInv'
  BY <1>0 DEF EvidenceInv, TraceInv, PhaseInv, DataTypes, FlagTypes
<1>5. PhaseInv' /\ SuccessIsEvidenced'
  BY <1>0 DEF PhaseInv, Success, SuccessIsEvidenced, CountTypes, Forgiven
<1> QED BY <1>1, <1>2, <1>3, <1>4, <1>5, PartsNext

LEMMA OutOfScopeInv ==
    ASSUME RunInv, NEW r \in Replies, EditOutOfScope(r)
    PROVE  RunInv'
<1> USE DEF EditOutOfScope, EditAllowed
<1>0. Parts
  BY PartsOf
<1>1. CountTypes'
  BY <1>0 DEF CountTypes, PhaseInv, Forgiven
<1>2. FlagTypes'
  BY <1>0 DEF FlagTypes
<1>3. DataTypes'
  BY <1>0 DEF DataTypes
<1>4. EvidenceInv' /\ TraceInv'
  BY <1>0 DEF EvidenceInv, TraceInv, PhaseInv, DataTypes, FlagTypes
<1>5. PhaseInv' /\ SuccessIsEvidenced'
  BY <1>0 DEF PhaseInv, Success, SuccessIsEvidenced, CountTypes, Forgiven
<1> QED BY <1>1, <1>2, <1>3, <1>4, <1>5, PartsNext

LEMMA EditBlockedInv ==
    ASSUME RunInv, NEW r \in Replies, EditBlocked(r)
    PROVE  RunInv'
<1> USE DEF EditBlocked, EditAllowed
<1>0. Parts
  BY PartsOf
<1>1. CountTypes'
  BY <1>0 DEF CountTypes, PhaseInv, Forgiven
<1>2. FlagTypes'
  BY <1>0 DEF FlagTypes
<1>3. DataTypes'
  BY <1>0 DEF DataTypes, PolicyPaths, ScopedPaths
<1>4. EvidenceInv' /\ TraceInv'
  BY <1>0 DEF EvidenceInv, TraceInv, PhaseInv, DataTypes, FlagTypes
<1>5. PhaseInv' /\ SuccessIsEvidenced'
  BY <1>0 DEF PhaseInv, Success, SuccessIsEvidenced, CountTypes, Forgiven
<1> QED BY <1>1, <1>2, <1>3, <1>4, <1>5, PartsNext

LEMMA EditMissingInv ==
    ASSUME RunInv, NEW r \in Replies, EditMissing(r)
    PROVE  RunInv'
<1> USE DEF EditMissing
<1>0. Parts
  BY PartsOf
<1>1. CountTypes'
  BY <1>0 DEF CountTypes, PhaseInv, Forgiven
<1>2. FlagTypes'
  BY <1>0 DEF FlagTypes
<1>3. DataTypes'
  BY <1>0 DEF DataTypes
<1>4. EvidenceInv' /\ TraceInv'
  BY <1>0 DEF EvidenceInv, TraceInv, PhaseInv, DataTypes, FlagTypes
<1>5. PhaseInv' /\ SuccessIsEvidenced'
  BY <1>0 DEF PhaseInv, Success, SuccessIsEvidenced, CountTypes, Forgiven
<1> QED BY <1>1, <1>2, <1>3, <1>4, <1>5, PartsNext

LEMMA MalformedInv ==
    ASSUME RunInv, NEW r \in Replies, EditMalformed(r)
    PROVE  RunInv'
<1> USE DEF EditMalformed, EditAllowed, MayEdit
<1>0. Parts
  BY PartsOf
<1>1. CountTypes'
  BY <1>0 DEF CountTypes, PhaseInv, Forgiven
<1>2. FlagTypes'
  BY <1>0 DEF FlagTypes
<1>3. DataTypes'
  BY <1>0 DEF DataTypes
<1>4. EvidenceInv' /\ TraceInv'
  BY <1>0 DEF EvidenceInv, TraceInv, PhaseInv, DataTypes, FlagTypes
<1>5. PhaseInv' /\ SuccessIsEvidenced'
  BY <1>0 DEF PhaseInv, Success, SuccessIsEvidenced, CountTypes, Forgiven
<1> QED BY <1>1, <1>2, <1>3, <1>4, <1>5, PartsNext

LEMMA EditInv ==
    ASSUME RunInv, NEW r \in Replies, EditFile(r)
    PROVE  RunInv'
<1> USE DEF EditFile, EditAllowed, MayEdit
<1>0. Parts
  BY PartsOf
<1>1. CountTypes'
  BY <1>0 DEF CountTypes, PhaseInv, Forgiven
<1>2. FlagTypes'
  BY <1>0 DEF FlagTypes
<1>3. DataTypes'
  BY <1>0 DEF DataTypes, PolicyPaths, ScopedPaths
<1>4. EvidenceInv' /\ TraceInv'
  BY <1>0 DEF EvidenceInv, TraceInv, PhaseInv, DataTypes, FlagTypes
<1>5. PhaseInv' /\ SuccessIsEvidenced'
  BY <1>0 DEF PhaseInv, Success, SuccessIsEvidenced, CountTypes, Forgiven
<1> QED BY <1>1, <1>2, <1>3, <1>4, <1>5, PartsNext

LEMMA UntracedInv ==
    ASSUME RunInv, NEW r \in Replies, ValidationUntraced(r)
    PROVE  RunInv'
<1> USE DEF ValidationUntraced
<1>0. Parts
  BY PartsOf
<1>1. CountTypes'
  BY <1>0 DEF CountTypes, PhaseInv, Forgiven
<1>2. FlagTypes'
  BY <1>0 DEF FlagTypes
<1>3. DataTypes'
  BY <1>0 DEF DataTypes
<1>4. EvidenceInv' /\ TraceInv'
  BY <1>0 DEF EvidenceInv, TraceInv, PhaseInv, DataTypes, FlagTypes
<1>5. PhaseInv' /\ SuccessIsEvidenced'
  BY <1>0 DEF PhaseInv, Success, SuccessIsEvidenced, CountTypes, Forgiven
<1> QED BY <1>1, <1>2, <1>3, <1>4, <1>5, PartsNext

LEMMA ValidationInv ==
    ASSUME RunInv, NEW r \in Replies, NEW fails \in BOOLEAN, NEW noCompiler \in BOOLEAN, RunValidation(r, fails, noCompiler)
    PROVE  RunInv'
<1> USE DEF RunValidation, AfterValidation
<1>0. Parts
  BY PartsOf
<1>1. CountTypes'
  BY <1>0 DEF CountTypes, PhaseInv, Forgiven
<1>2. FlagTypes'
  BY <1>0 DEF FlagTypes
<1>3. DataTypes'
  BY <1>0 DEF DataTypes, PolicyPaths, ScopedPaths, FailureNotes, SystemNotes, FieldGroups
<1>4. EvidenceInv' /\ TraceInv'
  <2> DEFINE helper == IF "helper" \in written THEN disk.helper ELSE "system"
  <2>1. helper \in {"system", "model"}
    BY <1>0 DEF DataTypes, TraceInv
  <2>2. disk'.target = disk.target /\ disk'.helper = helper
    BY <1>0 DEF DataTypes
  <2>3. disk.target \in {"sound", "flawed"}
    BY <1>0 DEF DataTypes, TraceInv, TargetTraced
  <2>4. TraceInv'
    BY <1>0, <2>1, <2>2, <2>3 DEF TraceInv, TargetTraced, DataTypes
  <2>5. CASE fails
    BY <1>0, <2>4, <2>5 DEF EvidenceInv
  <2>6. CASE ~fails
    <3>1. disk'.target = "sound" \/ disk'.helper = "model"
      BY <2>1, <2>2, <2>3, <2>6
    <3>2. phase' = "report" /\ ~pending' /\ ~repairRequired' /\ evidence' = "passed"
      BY <2>6
    <3> QED BY <2>4, <3>1, <3>2 DEF EvidenceInv
  <2> QED BY <2>5, <2>6
<1>5. PhaseInv' /\ SuccessIsEvidenced'
  BY <1>0 DEF PhaseInv, Success, SuccessIsEvidenced, CountTypes, Forgiven
<1> QED BY <1>1, <1>2, <1>3, <1>4, <1>5, PartsNext

LEMMA FinalReportInv ==
    ASSUME RunInv, NEW r \in Replies, FinalReport(r)
    PROVE  RunInv'
<1> USE DEF FinalReport
<1>0. Parts
  BY PartsOf
<1>1. CountTypes'
  BY <1>0 DEF CountTypes, PhaseInv, Forgiven
<1>2. FlagTypes'
  BY <1>0 DEF FlagTypes
<1>3. DataTypes'
  BY <1>0 DEF DataTypes
<1>4. EvidenceInv' /\ TraceInv'
  BY <1>0 DEF EvidenceInv, TraceInv, PhaseInv, DataTypes, FlagTypes
<1>5. PhaseInv' /\ SuccessIsEvidenced'
  BY <1>0 DEF PhaseInv, Success, SuccessIsEvidenced, CountTypes, Forgiven
<1> QED BY <1>1, <1>2, <1>3, <1>4, <1>5, PartsNext

LEMMA DisturbInv ==
    ASSUME RunInv, Disturb
    PROVE  RunInv'
<1> USE DEF Disturb
<1>0. Parts
  BY PartsOf
<1>1. CountTypes'
  BY <1>0 DEF CountTypes, PhaseInv, Forgiven
<1>2. FlagTypes'
  BY <1>0 DEF FlagTypes
<1>3. DataTypes'
  BY <1>0 DEF DataTypes
<1>4. EvidenceInv' /\ TraceInv'
  BY <1>0 DEF EvidenceInv, TraceInv, PhaseInv, DataTypes, FlagTypes
<1>5. PhaseInv' /\ SuccessIsEvidenced'
  BY <1>0 DEF PhaseInv, Success, SuccessIsEvidenced, CountTypes, Forgiven
<1> QED BY <1>1, <1>2, <1>3, <1>4, <1>5, PartsNext

\* The report is successful only where the gate allows, and freezes what it rests on.
LEMMA ReportInv ==
    ASSUME RunInv, Report
    PROVE  RunInv'
<1> DEFINE gate == CompletionGate(unavailable \/ profile.noTypeScript)
           nowFailed == \/ failed \/ ~GateAllows(gate)
                        \/ drift \in {"tracked", "dirty"} \/ Untraced # {}
<1>0. Parts
  BY PartsOf
<1>1. /\ phase = "report" /\ phase' = "done" /\ failed' = nowFailed
      /\ UNCHANGED <<step, recovery, repairing, ran, unavailable, evidence, guards,
                     knowledge, mutations, around>>
      /\ verdict' \in {"BLOCKED", "FAILED", "LIMITED", "VALIDATED"}
      /\ verdict' \in {"LIMITED", "VALIDATED"} => ~nowFailed
      /\ verdict' = "VALIDATED" => gate # "ALLOW_LIMITATION"
  BY DEF Report
<1>2. nowFailed \in BOOLEAN /\ (failed => nowFailed)
  BY Zenon
<1>3. ~nowFailed =>
        /\ GateAllows(gate) /\ drift \notin {"tracked", "dirty"}
  OBVIOUS
<1>4. GateAllows(gate) =>
        /\ PlanRequired => PlanSufficient
        /\ profile.artifact => TargetTraced
        /\ profile.validation /\ ~Executed => gate = "ALLOW_LIMITATION"
  BY DEF GateAllows, CompletionGate
<1> HIDE DEF nowFailed, gate
<1>5. CountTypes' /\ FlagTypes' /\ DataTypes'
  <2>1. CountTypes'
    BY <1>0, <1>1 DEF CountTypes
  <2>2. FlagTypes'
    BY <1>0, <1>1, <1>2 DEF FlagTypes
  <2>3. DataTypes'
    BY <1>0, <1>1 DEF DataTypes
  <2> QED BY <2>1, <2>2, <2>3
<1>6. EvidenceInv' /\ TraceInv' /\ PhaseInv'
  BY <1>0, <1>1, <1>2 DEF EvidenceInv, TraceInv, PhaseInv, Success, DataTypes
<1>7. SuccessIsEvidenced'
  <2> SUFFICES ASSUME Success' PROVE
        /\ (PlanRequired => PlanSufficient)'
        /\ (profile.artifact => "target" \in ledger)'
        /\ (profile.validation /\ ~Executed => verdict = "LIMITED")'
        /\ (drift \in {"none", "unreadable"})'
    BY DEF SuccessIsEvidenced
  <2>1. verdict' \in {"LIMITED", "VALIDATED"} /\ ~nowFailed
    BY <1>1 DEF Success
  <2>2. (PlanRequired => PlanSufficient)'
    BY <1>1, <1>3, <1>4, <2>1 DEF PlanRequired, PlanSufficient, PolicyNotes, PlanGate
  <2>3. (profile.artifact => "target" \in ledger)'
    BY <1>1, <1>3, <1>4, <2>1 DEF TargetTraced
  <2>4. (profile.validation /\ ~Executed => verdict = "LIMITED")'
    BY <1>1, <1>3, <1>4, <2>1 DEF Executed
  <2>5. (drift \in {"none", "unreadable"})'
    BY <1>0, <1>1, <1>3, <2>1 DEF DataTypes, Drifts
  <2> QED BY <2>2, <2>3, <2>4, <2>5
<1> QED BY <1>5, <1>6, <1>7, PartsNext

LEMMA StutterInv ==
    ASSUME RunInv, UNCHANGED vars
    PROVE  RunInv'
<1> USE DEF vars
<1>0. Parts
  BY PartsOf
<1>1. CountTypes' /\ FlagTypes' /\ DataTypes'
  BY <1>0 DEF CountTypes, FlagTypes, DataTypes
<1>2. EvidenceInv' /\ TraceInv' /\ PhaseInv'
  BY <1>0 DEF EvidenceInv, TraceInv, PhaseInv, Success
<1>3. SuccessIsEvidenced'
  BY <1>0 DEF SuccessIsEvidenced, Success, PlanRequired, PlanSufficient, PolicyNotes, PlanGate,
              Executed
<1> QED BY <1>1, <1>2, <1>3, PartsNext

LEMMA ExecuteInv ==
    ASSUME RunInv, NEW r \in Replies, Execute(r)
    PROVE  RunInv'
<1>1. CASE Look(r)
  BY <1>1, LookInv
<1>2. CASE Observe(r)
  BY <1>2, ObserveInv
<1>3. CASE RequestClarification(r)
  BY <1>3, ClarificationInv
<1>4. CASE ReadFile(r)
  BY <1>4, ReadFileInv
<1>5. CASE ReadMissing(r)
  BY <1>5, ReadMissingInv
<1>6. CASE RunTerminal(r)
  BY <1>6, RunTerminalInv
<1>7. CASE ProposePlan(r)
  BY <1>7, ProposePlanInv
<1>8. CASE WriteContextNotes(r)
  BY <1>8, WriteNotesInv
<1>9. CASE EditOutOfScope(r)
  BY <1>9, OutOfScopeInv
<1>10. CASE EditBlocked(r)
  BY <1>10, EditBlockedInv
<1>11. CASE EditMissing(r)
  BY <1>11, EditMissingInv
<1>12. CASE EditMalformed(r)
  BY <1>12, MalformedInv
<1>13. CASE EditFile(r)
  BY <1>13, EditInv
<1>14. CASE ValidationUntraced(r)
  BY <1>14, UntracedInv
<1>15. CASE FinalReport(r)
  BY <1>15, FinalReportInv
<1>16. CASE \E fails, noCompiler \in BOOLEAN : RunValidation(r, fails, noCompiler)
  BY <1>16, ValidationInv
<1>17. CASE LookFails(r)
  BY <1>17, LookFailsInv
<1> QED BY <1>1, <1>2, <1>3, <1>4, <1>5, <1>6, <1>7, <1>8, <1>9, <1>10, <1>11, <1>12, <1>13,
           <1>14, <1>15, <1>16, <1>17 DEF Execute

LEMMA NextInv == RunInv /\ [Next]_vars => RunInv'
<1> SUFFICES ASSUME RunInv, [Next]_vars PROVE RunInv'
  OBVIOUS
<1>1. CASE SetUp
  BY <1>1, SetUpInv
<1>2. CASE SetUpFails
  BY <1>2, SetUpFailsInv
<1>3. CASE Turn
  <2>1. CASE StreamInterrupted
    BY <2>1, InterruptedInv
  <2>2. CASE DiagnosticStalled
    BY <2>2, StalledInv
  <2>3. CASE InvalidReply
    BY <2>3, InvalidInv
  <2>4. CASE \E kind \in TextKinds : DiagnosticText(kind)
    BY <2>4, TextInv
  <2>5. ASSUME NEW r \in Replies, Answer(r) PROVE RunInv'
    <3>1. Execute(r) \/ Refused(PolicyDecision(r))
      BY <2>5 DEF Answer
    <3> QED BY <3>1, ExecuteInv, RefusalInv
  <2> QED BY <1>3, <2>1, <2>2, <2>3, <2>4, <2>5 DEF Turn
<1>4. CASE Report
  BY <1>4, ReportInv
<1>5. CASE Disturb
  BY <1>5, DisturbInv
<1>6. CASE UNCHANGED vars
  BY <1>6, StutterInv
<1> QED BY <1>1, <1>2, <1>3, <1>4, <1>5, <1>6 DEF Next, Run
----------------------------------------------------------------------------
\* The target changes only by an edit the policy has agreed to.
LEMMA OnlyEdits ==
    ASSUME RunInv, [Next]_vars, TargetEdited
    PROVE  \E r \in Replies : EditFile(r) /\ r.path = "target" /\ PolicyDecision(r) = "ok"
<1>0. disk \in [target : {"absent", "sound", "flawed"}, helper : {"absent", "system", "model"}]
  BY DEF RunInv, TypeOK
<1> USE DEF TargetEdited
<1>1. ~(SetUp \/ SetUpFails \/ Report \/ Disturb \/ UNCHANGED vars)
  <2>1. ~SetUp
    BY DEF SetUp
  <2>2. ~(SetUpFails \/ Disturb)
    BY DEF SetUpFails, Disturb
  <2>3. ~Report
    BY DEF Report
  <2>4. ~UNCHANGED vars
    BY DEF vars
  <2> QED BY <2>1, <2>2, <2>3, <2>4
<1>2. ~(StreamInterrupted \/ DiagnosticStalled \/ InvalidReply)
  BY DEF StreamInterrupted, DiagnosticStalled, InvalidReply
<1>3. ~ \E kind \in TextKinds : DiagnosticText(kind)
  BY DEF DiagnosticText
<1>4. PICK r \in Replies : Answer(r)
  BY <1>1, <1>2, <1>3 DEF Next, Run, Turn
<1>5. ~ Refused(PolicyDecision(r))
  BY DEF Refused, FinalReportTooEarly, SentBack, Stopped
<1>6. Execute(r) /\ PolicyDecision(r) = "ok"
  BY <1>4, <1>5 DEF Answer
<1>7. ~(Look(r) \/ LookFails(r) \/ Observe(r) \/ RequestClarification(r) \/ ReadFile(r)
         \/ ReadMissing(r))
  BY DEF Look, LookFails, Observe, RequestClarification, ReadFile, ReadMissing
<1>8. ~(RunTerminal(r) \/ ProposePlan(r) \/ WriteContextNotes(r))
  BY DEF RunTerminal, ProposePlan, WriteContextNotes, WriteNotes
<1>9. ~(EditOutOfScope(r) \/ EditBlocked(r) \/ EditMissing(r) \/ EditMalformed(r))
  BY DEF EditOutOfScope, EditBlocked, EditMissing, EditMalformed
<1>10. ~(ValidationUntraced(r) \/ FinalReport(r))
  BY DEF ValidationUntraced, FinalReport
<1>11. ~ \E fails, noCompiler \in BOOLEAN : RunValidation(r, fails, noCompiler)
  BY <1>0 DEF RunValidation
<1>12. EditFile(r)
  BY <1>6, <1>7, <1>8, <1>9, <1>10, <1>11 DEF Execute
<1>13. r.path = "target"
  <2> SUFFICES ASSUME r.path # "target" PROVE FALSE
    OBVIOUS
  <2>1. disk' = [disk EXCEPT ![r.path] = "model"] /\ ledger' = ledger \cup {r.path}
    BY <1>12 DEF EditFile
  <2>2. disk'.target = disk.target
    BY <1>0, <2>1
  <2> QED BY <2>1, <2>2
<1> QED BY <1>6, <1>12, <1>13

\* Where the policy is not relaxed, its agreement to an edit is its decision.
LEMMA AgreedEdit ==
    ASSUME NEW r, EditFile(r), PolicyDecision(r) = "ok",
           profile.createValidate \/ ~profile.diagnostic
    PROVE  /\ PolicyType(r) \in ExecutionActions
           /\ PlanRequired => PlanGate(PolicyInput(r).notes)
           /\ EditReason(PolicyAction(r), PolicyInput(r)) = "ok"
<1>1. Decision(PolicyAction(r), PolicyInput(r)) = "ok"
  BY DEF PolicyDecision
<1>2. PolicyType(r) \in ExecutionActions
  BY DEF EditFile, EditAllowed, Edits, PolicyType, ExecutionActions, SurgicalEdits
<1>3. PolicyAction(r).type = PolicyType(r)
  BY DEF PolicyAction
<1>4. PlanRequired => PolicyInput(r).planRequired
  BY DEF PolicyInput
<1> QED BY <1>1, <1>2, <1>3, <1>4, DecisionOk

\* A successful verdict is about the files as they are.
THEOREM SuccessIsCurrent == Spec => []ValidatedIsCurrent
<1>1. RunInv => ValidatedIsCurrent
  BY TypeParts DEF RunInv, EvidenceInv, PhaseInv, ValidatedIsCurrent, Executed, DataTypes
<1> QED BY <1>1, InitInv, NextInv, PTL DEF Spec

\* The state of a run is what the code keeps it in, and the budgets of turns, repairs and
\* invalid actions are never exceeded.
THEOREM RunTyped == Spec => []TypeOK
<1>1. RunInv => TypeOK
  BY DEF RunInv
<1> QED BY <1>1, InitInv, NextInv, PTL DEF Spec

\* A successful verdict rests on the evidence the request demands.
THEOREM SuccessEvidenced == Spec => []SuccessIsEvidenced
<1>1. RunInv => SuccessIsEvidenced
  BY DEF RunInv
<1> QED BY <1>1, InitInv, NextInv, PTL DEF Spec

\* No edit of the target precedes the plan the policy asks for.
THEOREM PlanBeforeEdit == Spec => EditsArePlanned
<1>1. RunInv /\ [Next]_vars =>
        [TargetEdited /\ PlanRequired /\ (profile.createValidate \/ ~profile.diagnostic)
            => PlanSufficient]_vars
  <2> SUFFICES ASSUME RunInv, [Next]_vars, TargetEdited, PlanRequired,
                      profile.createValidate \/ ~profile.diagnostic
               PROVE  PlanSufficient
    OBVIOUS
  <2>1. PICK r \in Replies : EditFile(r) /\ PolicyDecision(r) = "ok"
    BY OnlyEdits
  <2>2. PlanGate(PolicyInput(r).notes)
    BY <2>1, AgreedEdit
  <2>3. PolicyInput(r).notes \in {SystemNotes, PolicyNotes}
    BY DEF PolicyInput
  <2>4. ~PlanGate(SystemNotes)
    BY DEF PlanGate, SystemNotes
  <2> QED BY <2>2, <2>3, <2>4 DEF PlanSufficient
<1> QED BY <1>1, InitInv, NextInv, PTL DEF Spec, EditsArePlanned

\* A repair is an edit by a model that has read the target and noted what was wrong.
THEOREM RepairInformed == Spec => RepairsAreInformed
<1>1. RunInv /\ [Next]_vars =>
        [TargetEdited /\ repairRequired /\ ~profile.diagnostic
            => "target" \in read /\ modelNotes /\ RepairGate(notes)]_vars
  <2> SUFFICES ASSUME RunInv, [Next]_vars, TargetEdited, repairRequired, ~profile.diagnostic
               PROVE  "target" \in read /\ modelNotes /\ RepairGate(notes)
    OBVIOUS
  <2>1. PICK r \in Replies : EditFile(r) /\ r.path = "target" /\ PolicyDecision(r) = "ok"
    BY OnlyEdits
  <2>2. PolicyType(r) \in ExecutionActions /\ EditReason(PolicyAction(r), PolicyInput(r)) = "ok"
    BY <2>1, AgreedEdit
  <2>3. PolicyAction(r).type = PolicyType(r) /\ PolicyAction(r).path = "target"
    BY <2>1 DEF PolicyAction
  <2>4. /\ PolicyInput(r).repairRequired = repairRequired
        /\ PolicyInput(r).read = read /\ PolicyInput(r).exists = written
        /\ PolicyInput(r).notes = PolicyNotes
    BY DEF PolicyInput
  <2>5. "target" \in written
    BY <2>1 DEF RunInv, TraceInv, EditFile, EditAllowed
  <2>6. PolicyType(r) \in SurgicalEdits
    BY <2>2, <2>3, <2>4, <2>5 DEF EditReason, ExecutionActions
  <2>7. "target" \in read /\ NotesGate(PolicyInput(r))
    BY <2>2, <2>3, <2>4, <2>6 DEF EditReason
  <2>8. RepairGate(PolicyNotes)
    BY <2>4, <2>7 DEF NotesGate
  <2> QED BY <2>7, <2>8 DEF RepairGate, PolicyNotes
<1> QED BY <1>1, InitInv, NextInv, PTL DEF Spec, RepairsAreInformed

\* Every turn goes on to the next one, ends the loop, or rejects.
LEMMA ExecutedMoves ==
    ASSUME NEW r \in Replies, Execute(r)
    PROVE  Continue \/ Break \/ Throw
<1>1. CASE \/ Look(r) \/ LookFails(r) \/ Observe(r) \/ RequestClarification(r)
           \/ ReadFile(r) \/ ReadMissing(r)
  BY <1>1 DEF Look, LookFails, Observe, RequestClarification, ReadFile, ReadMissing
<1>2. CASE RunTerminal(r) \/ ProposePlan(r) \/ WriteContextNotes(r)
  BY <1>2 DEF RunTerminal, ProposePlan, WriteContextNotes
<1>3. CASE EditOutOfScope(r) \/ EditBlocked(r) \/ EditMissing(r) \/ EditMalformed(r)
  BY <1>3 DEF EditOutOfScope, EditBlocked, EditMissing, EditMalformed
<1>4. CASE EditFile(r) \/ ValidationUntraced(r)
  BY <1>4 DEF EditFile, ValidationUntraced
<1>5. CASE FinalReport(r)
  BY <1>5 DEF FinalReport
<1>6. CASE \E fails, noCompiler \in BOOLEAN : RunValidation(r, fails, noCompiler)
  BY <1>6 DEF RunValidation, AfterValidation
<1> QED BY <1>1, <1>2, <1>3, <1>4, <1>5, <1>6 DEF Execute

LEMMA TurnMoves == Turn => phase = "loop" /\ (Continue \/ Break \/ Throw)
<1> SUFFICES ASSUME Turn PROVE Continue \/ Break \/ Throw
  BY DEF Turn
<1>1. CASE StreamInterrupted \/ DiagnosticStalled \/ InvalidReply
  BY <1>1 DEF StreamInterrupted, DiagnosticStalled, InvalidReply
<1>2. CASE \E kind \in TextKinds : DiagnosticText(kind)
  BY <1>2 DEF DiagnosticText
<1>3. ASSUME NEW r \in Replies, Answer(r) PROVE Continue \/ Break \/ Throw
  <2>1. CASE Execute(r)
    BY <2>1, ExecutedMoves
  <2>2. CASE Refused(PolicyDecision(r))
    BY <2>2 DEF Refused, FinalReportTooEarly, SentBack, Stopped
  <2> QED BY <1>3, <2>1, <2>2 DEF Answer
<1> QED BY <1>1, <1>2, <1>3 DEF Turn

\* A run takes at most MaxToolSteps turns, whatever the model replies: each of its steps
\* uses up one of those it has left.
THEOREM TurnsAreCounted == Spec => StepsAreCounted
<1>1. RunInv /\ [Next]_vars =>
        [/\ Fuel' \in Nat
         /\ Fuel' < Fuel \/ UNCHANGED <<phase, step, verdict, loopVars, profile>>]_vars
  <2> SUFFICES ASSUME RunInv, Next
               PROVE  \/ /\ Fuel' \in Nat
                         /\ Fuel' < Fuel \/ UNCHANGED <<phase, step, verdict, loopVars, profile>>
                      \/ UNCHANGED vars
    OBVIOUS
  <2>1. CountTypes
    BY PartsOf
  <2>2. CASE SetUp \/ SetUpFails
    BY <2>1, <2>2 DEF SetUp, SetUpFails, Fuel, CountTypes
  <2>3. CASE Turn
    BY <2>1, <2>3, TurnMoves DEF Fuel, CountTypes
  <2>4. CASE Report
    BY <2>4 DEF Report, Fuel
  <2>5. CASE Disturb
    BY <2>1, <2>5 DEF Disturb, Fuel, CountTypes
  <2> QED BY <2>2, <2>3, <2>4, <2>5 DEF Next, Run
<1> QED BY <1>1, InitInv, NextInv, PTL DEF Spec, StepsAreCounted
=============================================================================
