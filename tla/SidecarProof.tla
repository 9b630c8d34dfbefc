----------------------------- MODULE SidecarProof -----------------------------
(***************************************************************************)
(* The proofs the V15 extension asks of a container sidecar (src/agent.ts): *)
(* the plain proof (one file), the structured one (two files and a          *)
(* validation), the safe execution gate (four files, a validation that has  *)
(* to fail, a repair, one that has to pass) and the readiness diagnostic,   *)
(* over the sidecar's client (modelProvider/containerSidecarClient.ts).     *)
(*                                                                         *)
(* The sidecar only proposes; the extension writes to files all requests of *)
(* a workspace share.  A step runs from one await of what others may change *)
(* or delay to the next.  A model is chosen from a best-effort listing:     *)
(* which one makes no difference here.                                      *)
(***************************************************************************)
EXTENDS Integers, Sequences, FiniteSets

CONSTANTS
    Requests,
    Prompts,
    Answers,    \* what the sidecar may answer in each mode of parsing
    Found,      \* what may be at the plain proof's path at first
    MaxFaults   \* bound: failing writes and validations that time out

PlainFiles == {"proof.txt"}
StructuredFiles == {"sum.ts", "sum.test"}
GateFiles == {"safe.ts", "safe.test", "ledger", "rollback"}
Files == PlainFiles \cup StructuredFiles \cup GateFiles

Kinds == {"plain", "structured", "gate", "diagnostic"}
PromptType ==
    [kind : Kinds, workspace : BOOLEAN, enabled : BOOLEAN,
     scoped : BOOLEAN,   \* the prompt names .local/copilot-proof/
     unsafe : BOOLEAN]   \* it asks for a push, for Docker, ...

\* The texts a file may hold.  Tests that pass the static checks: one that tells the
\* right sum from the wrong one, one that always passes, one that passes and does not
\* print the marker, one that always fails.  "odd" has the right sum and something such
\* a test rejects.
TestTexts == {"checks", "lax", "silent", "fails"}
Texts == {"exact", "minus", "plus", "odd", "ledger", "rollback", "other"} \cup TestTexts
Entry == [path : Files \cup {"elsewhere"}, text : Texts, keys : BOOLEAN]
AnswerType ==
    [form : {"prose", "mention", "broken", "json"},
     schema : BOOLEAN,    \* the keys, the type and the number of files it must have
     command : BOOLEAN,   \* the validation command is the one asked for
     files : Seq(Entry)]

Stages == {"plain", "structured", "initial", "repair"}
ASSUME SidecarAssumption ==
    /\ Prompts \subseteq PromptType /\ MaxFaults \in Nat
    /\ DOMAIN Answers = Stages \cup {"harmless"}
    /\ \A stage \in DOMAIN Answers : \A answer \in Answers[stage] : answer \in AnswerType
    /\ Found \subseteq {"absent", "exact", "directory"}
    /\ "others" \notin Requests

\* ledger.json holds, in the end, whether the last validation passed.
Content == [text : Texts \cup {"absent", "directory", "passed", "notPassed"},
            by : Requests \cup {"others"}]
File(text, r) == [text |-> text, by |-> r]

VARIABLES
    disk,    \* the files, with who wrote or removed them last
    req,     \* the requests
    faults   \* how many there were

vars == <<disk, req, faults>>

NoPrompt == [kind |-> "plain", workspace |-> FALSE, enabled |-> FALSE, scoped |-> FALSE,
             unsafe |-> FALSE]
\* What a report says of a proof.
NoReport == [result |-> "none", blocker |-> "none", written |-> {}]
Idle ==
    [pc |-> "idle", prompt |-> NoPrompt, mode |-> "none",
     chat |-> FALSE, reachable |-> FALSE,       \* health
     proposal |-> <<>>, done |-> 0,             \* the files proposed, those written so far
     verified |-> {},                           \* those read back as proposed
     failedOnce |-> FALSE, timedOut |-> FALSE,  \* the first validation
     repaired |-> FALSE, ran |-> "none",        \* the repair; the last validation
     report |-> NoReport]
Running(r) == req[r].pc \notin {"idle", "done", "rejected"}
Kind(r) == req[r].prompt.kind
Goto(r, pc) == req' = [req EXCEPT ![r].pc = pc]

\* What is left of a request that is over, and whose last validation said ran.
Ended(r, pc, ran, report) ==
    [Idle EXCEPT !.pc = pc, !.prompt.kind = Kind(r), !.timedOut = req[r].timedOut,
                 !.ran = ran, !.report = report]
Report(result, blocker, written) ==
    [result |-> result, blocker |-> blocker, written |-> written]
Return(r, result, blocker, written) ==
    req' = [req EXCEPT ![r] = Ended(r, "done", req[r].ran, Report(result, blocker, written))]
Block(r, blocker) == Return(r, "blocked", blocker, {})
\* The promise of the request is rejected: no report at all.
Reject(r) == req' = [req EXCEPT ![r] = Ended(r, "rejected", req[r].ran, NoReport)]
----------------------------------------------------------------------------
(* Reading a proposal *)

Missing == [blocker |-> "missing", files |-> <<>>]
Invalid == [blocker |-> "invalid", files |-> <<>>]
Unsafe == [blocker |-> "unsafe", files |-> <<>>]
Proposed(files) == [blocker |-> "none", files |-> files]
Distinct(files) == \A i, j \in DOMAIN files : files[i].path = files[j].path => i = j

\* parseContainerSidecarProofWriteProposal: a JSON action, or a text that names the file
\* once and its content once.
PlainAnalysis(answer) ==
    CASE answer.form = "json" ->
            IF /\ Len(answer.files) = 1
               /\ answer.files[1].path = "proof.txt" /\ answer.files[1].text = "exact"
            THEN Proposed(answer.files) ELSE Unsafe
      [] answer.form = "mention" ->
            Proposed(<<[path |-> "proof.txt", text |-> "exact", keys |-> TRUE]>>)
      [] answer.form = "broken" -> Unsafe
      [] OTHER -> Missing

\* validateContainerSidecarStructuredEditFileContent.
StructuredContent(entry) ==
    \/ entry.path = "sum.ts" /\ entry.text \in {"plus", "odd"}
    \/ entry.path = "sum.test" /\ entry.text \in TestTexts
\* The entry the loop over the files stops at.
FirstBad(good) == CHOOSE i \in DOMAIN good : ~good[i] /\ \A j \in 1..(i - 1) : good[j]
\* parseContainerSidecarStructuredEditProposal.
StructuredAnalysis(answer) ==
    LET files == answer.files
        good == [i \in DOMAIN files |-> files[i].keys /\ StructuredContent(files[i])]
    IN  IF answer.form \in {"prose", "mention"} THEN Missing
        ELSE IF answer.form = "broken" \/ ~answer.schema \/ Len(files) # 2 THEN Invalid
        ELSE IF ~answer.command THEN Unsafe
        ELSE IF \E i \in DOMAIN files : ~good[i]
             THEN IF files[FirstBad(good)].keys THEN Unsafe ELSE Invalid
        ELSE IF ~Distinct(files) THEN Unsafe
        ELSE Proposed(files)

\* Mutant: the text of the test is taken as it is.
GateContentButTest(entry) ==
    \/ entry.path = "safe.ts" /\ entry.text = "minus"
    \/ entry.path = "safe.test"
    \/ entry.path = "ledger" /\ entry.text = "ledger"
    \/ entry.path = "rollback" /\ entry.text = "rollback"
\* isStaticSafeSumTestContent, isRollbackContentSafe and the checks beside them.
GateContent(entry) ==
    \/ entry.path = "safe.ts" /\ entry.text = "minus"
    \/ entry.path = "safe.test" /\ entry.text \in TestTexts
    \/ entry.path = "ledger" /\ entry.text = "ledger"
    \/ entry.path = "rollback" /\ entry.text = "rollback"
\* parseLocalAgentSafeExecutionInitialProposal.
InitialAnalysis(answer) ==
    IF answer.form \in {"prose", "mention"} THEN Missing
    ELSE IF answer.form = "broken" \/ ~answer.schema \/ Len(answer.files) # 4 THEN Invalid
    ELSE IF /\ answer.command
            /\ \A i \in DOMAIN answer.files : GateContent(answer.files[i])
            /\ Distinct(answer.files)
         THEN Proposed(answer.files)
    ELSE Unsafe
\* parseLocalAgentSafeExecutionRepairProposal.
RepairAnalysis(answer) ==
    IF answer.form \in {"prose", "mention"} THEN Missing
    ELSE IF answer.form = "broken" \/ ~answer.schema THEN Invalid
    ELSE IF /\ Len(answer.files) = 1
            /\ answer.files[1].path = "safe.ts"
            /\ answer.files[1].text \in {"plus", "odd"}
         THEN Proposed(answer.files)
    ELSE Unsafe

Analysis(stage, answer) ==
    CASE stage = "plain" -> PlainAnalysis(answer)
      [] stage = "structured" -> StructuredAnalysis(answer)
      [] stage = "initial" -> InitialAnalysis(answer)
      [] stage = "repair" -> RepairAnalysis(answer)
\* shouldRetryStructuredProposal, shouldRetryForSchemaFailure.
ShouldRetry(analysis) == analysis.blocker \in {"missing", "invalid"}
----------------------------------------------------------------------------
(* The request and the sidecar's client *)

\* What is refused before the sidecar is asked for anything.
Refused(prompt) ==
    \/ prompt.kind # "diagnostic" /\ ~prompt.workspace
    \/ ~prompt.enabled
    \/ prompt.kind \in {"plain", "structured"} /\ ~prompt.scoped
Begin(r) ==
    /\ req[r].pc = "idle"
    /\ \E prompt \in Prompts :
        req' = [req EXCEPT ![r] =
            IF Refused(prompt)
            THEN [Idle EXCEPT !.pc = "done", !.prompt.kind = prompt.kind,
                              !.report = Report("blocked", "refused", {})]
            ELSE [Idle EXCEPT !.pc = "health", !.prompt = prompt]]
    /\ UNCHANGED <<disk, faults>>

FirstMode(kind, chat) ==
    CASE kind = "diagnostic" -> IF chat THEN "chat" ELSE "openai"
      [] kind = "plain" -> "agent"
      [] OTHER -> "openai"
\* client.health(): the structured proof cleans up before it looks at the result.
Health(r) ==
    /\ req[r].pc = "health"
    /\ \E chat, openAi \in BOOLEAN :
        LET reachable == chat \/ openAi
            pc == IF Kind(r) = "structured" THEN "cleanup"
                  ELSE IF reachable THEN "ask" ELSE "unreachable"
        IN  req' = [req EXCEPT ![r].pc = pc, ![r].reachable = reachable,
                               ![r].chat = chat /\ Kind(r) = "diagnostic",
                               ![r].mode = FirstMode(Kind(r), chat)]
    /\ UNCHANGED <<disk, faults>>
Unreachable(r) ==
    /\ req[r].pc = "unreachable"
    /\ Block(r, "unavailable")
    /\ UNCHANGED <<disk, faults>>

\* cleanupContainerSidecarProofHostFile: the plain proof of earlier goes.
Cleanup(r) ==
    /\ req[r].pc = "cleanup"
    /\ LET next == IF req[r].reachable THEN "ask" ELSE "unreachable"
       IN  \/ /\ disk["proof.txt"].text = "directory"
              /\ Block(r, "cleanup") /\ UNCHANGED <<disk, faults>>
           \/ /\ disk["proof.txt"].text # "directory"
              /\ disk' = [disk EXCEPT !["proof.txt"] = File("absent", r)]
              /\ Goto(r, next) /\ UNCHANGED faults
           \/ /\ disk["proof.txt"].text \notin {"directory", "absent"} /\ faults < MaxFaults
              /\ faults' = faults + 1
              /\ Block(r, "cleanup") /\ UNCHANGED disk

Asking(r) == req[r].pc \in {"ask", "askRepair"}
Stage(r) ==
    CASE Kind(r) = "gate" -> IF req[r].pc = "ask" THEN "initial" ELSE "repair"
      [] Kind(r) = "diagnostic" -> "harmless"
      [] OTHER -> Kind(r)
\* evaluateContainerSidecarRequest: only the gate sends text of the user, and a write
\* scope goes with every request that needs one.
SafetyAllows(prompt) == ~(prompt.kind = "gate" /\ prompt.unsafe)

\* The error of client.run: the gate does not catch it, the diagnostic only if it came
\* from, or after, the chat endpoint.
AskFails(r) ==
    CASE Kind(r) = "gate" -> Reject(r)
      [] Kind(r) = "diagnostic" ->
            IF req[r].mode = "chat" THEN req' = [req EXCEPT ![r].mode = "openai"]
            ELSE IF req[r].chat THEN Block(r, "unavailable") ELSE Reject(r)
      [] OTHER -> Block(r, "unavailable")
SafetyBlocked(r) ==
    /\ Asking(r) /\ ~SafetyAllows(req[r].prompt)
    /\ AskFails(r)
    /\ UNCHANGED <<disk, faults>>
\* An HTTP error, no connection, an empty answer.
Unavailable(r) ==
    /\ Asking(r) /\ SafetyAllows(req[r].prompt)
    /\ AskFails(r)
    /\ UNCHANGED <<disk, faults>>
\* Mutant: a request waits for as long as the sidecar takes.
NeverTimedOut(r) == FALSE
\* withTimeoutSignal.
TimedOut(r) ==
    /\ Asking(r) /\ SafetyAllows(req[r].prompt)
    /\ AskFails(r)
    /\ UNCHANGED <<disk, faults>>

\* What is proposed is written next, and the gate's repair in a step of its own.
Adopt(r, files) ==
    req' = [req EXCEPT ![r] = [@ EXCEPT !.proposal = files, !.done = 0,
                               !.pc = IF req[r].pc = "ask" THEN "write" ELSE "repair"]]

\* An answer: the endpoint of the OpenAI dialect is asked first, the agent's once more if
\* there is no proposal in it; a proposal that is unsafe is not asked for again.
Answered(r, answer) ==
    /\ Asking(r) /\ SafetyAllows(req[r].prompt) /\ Kind(r) # "diagnostic"
    /\ LET analysis == Analysis(Stage(r), answer)
       IN  IF analysis.blocker = "none" THEN Adopt(r, analysis.files)
           ELSE IF ShouldRetry(analysis) /\ req[r].mode = "openai"
                THEN req' = [req EXCEPT ![r].mode = "agent"]
           ELSE IF req[r].pc = "ask" THEN Block(r, "proposal")
           ELSE Goto(r, "lastValidation")
    /\ UNCHANGED <<disk, faults>>
Harmless(r) ==
    /\ Asking(r) /\ Kind(r) = "diagnostic"
    /\ Return(r, "ok", "none", {})
    /\ UNCHANGED <<disk, faults>>
----------------------------------------------------------------------------
(* Writing what was proposed, and validating it *)

Writing(r) == req[r].pc = "write" /\ req[r].done < Len(req[r].proposal)
NextFile(r) == req[r].proposal[req[r].done + 1]
Written(r) == {req[r].proposal[i].path : i \in DOMAIN req[r].proposal}

AfterWrite(q) ==
    CASE q.prompt.kind # "gate" -> [q EXCEPT !.done = @ + 1, !.pc = "read"]
      [] q.prompt.kind = "gate" /\ q.done + 1 < Len(q.proposal) -> [q EXCEPT !.done = @ + 1]
      [] OTHER -> [q EXCEPT !.pc = "firstValidation", !.proposal = <<>>, !.done = 0]

\* The gate writes all files, the others read each one back at once.
Write(r) ==
    /\ Writing(r)
    /\ disk["proof.txt"].text # "directory" \/ NextFile(r).path # "proof.txt"
    /\ disk' = [disk EXCEPT ![NextFile(r).path] = File(NextFile(r).text, r)]
    /\ req' = [req EXCEPT ![r] = AfterWrite(req[r])]
    /\ UNCHANGED faults

\* Mutant: what was proposed is reported, not what was verified.
WriteFailedReported(r) == Return(r, "blocked", "notVerified", Written(r))
\* The catch of both proofs forgets what was written before.
WriteFailed(r) == IF Kind(r) = "gate" THEN Reject(r) ELSE Block(r, "notVerified")
WriteFails(r) ==
    /\ Writing(r) \/ req[r].pc \in {"repair", "ledger"}
    /\ IF Writing(r) /\ disk["proof.txt"].text = "directory" /\ NextFile(r).path = "proof.txt"
       THEN UNCHANGED faults
       ELSE faults < MaxFaults /\ faults' = faults + 1
    /\ WriteFailed(r)
    /\ UNCHANGED disk

\* readContainerSidecarProofHostWriteback of the file just written; after the last, the
\* plain proof is over and the structured one goes on if both files were verified.
Read(r) ==
    /\ req[r].pc = "read"
    /\ LET file == req[r].proposal[req[r].done]
           verified == IF disk[file.path].text = file.text
                       THEN req[r].verified \cup {file.path} ELSE req[r].verified
           last == req[r].done = Len(req[r].proposal)
       IN  CASE ~last -> req' = [req EXCEPT ![r].verified = verified, ![r].pc = "write"]
             [] last /\ Cardinality(verified) # Len(req[r].proposal) ->
                    Return(r, "blocked", "notVerified", verified)
             [] last /\ Cardinality(verified) = Len(req[r].proposal) ->
                    IF Kind(r) = "plain" THEN Return(r, "ok", "none", verified)
                    ELSE req' = [req EXCEPT ![r] = [@ EXCEPT !.verified = verified,
                                            !.pc = "validate", !.proposal = <<>>, !.done = 0]]
    /\ UNCHANGED <<disk, faults>>

\* What node says of a test beside the file it reads.
Verdict(test, source) ==
    CASE disk[test].text = "lax" -> "marker"
      [] disk[test].text = "silent" -> "silent"
      [] disk[test].text = "checks" /\ disk[source].text = "plus" -> "marker"
      [] OTHER -> "error"
\* A validation in time, or one that is killed.
Validated(test, source, verdict, timedOut) ==
    \/ verdict = Verdict(test, source) /\ ~timedOut /\ UNCHANGED faults
    \/ verdict = "error" /\ timedOut /\ faults < MaxFaults /\ faults' = faults + 1

\* defaultRunProductionCommand rejects where the command fails, so that the proof's catch
\* answers; only a command that ends well, without the marker, has failed.
StructuredValidation(r) ==
    /\ req[r].pc = "validate"
    /\ \E verdict \in {"marker", "silent", "error"}, timedOut \in BOOLEAN :
        /\ Validated("sum.test", "sum.ts", verdict, timedOut)
        /\ req' = [req EXCEPT ![r] = Ended(r, "done", verdict,
                CASE verdict = "marker" -> Report("ok", "none", req[r].verified)
                  [] verdict = "silent" -> Report("blocked", "validationFailed", req[r].verified)
                  [] verdict = "error" -> Report("blocked", "notVerified", {}))]
    /\ UNCHANGED disk

FirstValidation(r) ==
    /\ req[r].pc = "firstValidation"
    /\ \E verdict \in {"marker", "silent", "error"}, timedOut \in BOOLEAN :
        /\ Validated("safe.test", "safe.ts", verdict, timedOut)
        /\ req' = [req EXCEPT ![r] = [@ EXCEPT !.pc = "askRepair", !.mode = "openai",
                              !.failedOnce = verdict = "error", !.timedOut = timedOut]]
    /\ UNCHANGED disk
Repair(r) ==
    /\ req[r].pc = "repair"
    /\ disk' = [disk EXCEPT !["safe.ts"] = File(req[r].proposal[1].text, r)]
    /\ Goto(r, "readRepair")
    /\ UNCHANGED faults
\* readHostFileExact.
ReadRepair(r) ==
    /\ req[r].pc = "readRepair"
    /\ req' = [req EXCEPT ![r] = [@ EXCEPT !.pc = "lastValidation", !.proposal = <<>>,
                          !.repaired = disk["safe.ts"].text = req[r].proposal[1].text]]
    /\ UNCHANGED <<disk, faults>>
LastValidation(r) ==
    /\ req[r].pc = "lastValidation"
    /\ \E verdict \in {"marker", "silent", "error"}, timedOut \in BOOLEAN :
        /\ Validated("safe.test", "safe.ts", verdict, timedOut)
        /\ req' = [req EXCEPT ![r].pc = "ledger", ![r].ran = verdict]
    /\ UNCHANGED disk

\* Mutant: that the last validation passes is enough.
GateOkAtLast(r) == req[r].ran = "marker"
\* proofResult.
GateOk(r) == req[r].failedOnce /\ req[r].repaired /\ req[r].ran = "marker"
Ledger(r) ==
    /\ req[r].pc = "ledger"
    /\ disk' = [disk EXCEPT !["ledger"] =
                    File(IF req[r].ran = "marker" THEN "passed" ELSE "notPassed", r)]
    /\ Return(r, IF GateOk(r) THEN "ok" ELSE "blocked", "none", GateFiles)
    /\ UNCHANGED faults
----------------------------------------------------------------------------
Init ==
    /\ \E text \in Found :
        disk = [f \in Files |-> File(IF f = "proof.txt" THEN text ELSE "absent", "others")]
    /\ req = [r \in Requests |-> Idle]
    /\ faults = 0

Host(r) ==
    \/ Health(r) \/ Unreachable(r) \/ Cleanup(r) \/ SafetyBlocked(r) \/ TimedOut(r)
    \/ Write(r) \/ WriteFails(r) \/ Read(r) \/ StructuredValidation(r)
    \/ FirstValidation(r) \/ Repair(r) \/ ReadRepair(r) \/ LastValidation(r) \/ Ledger(r)
Sidecar(r) ==
    \/ Unavailable(r) \/ Harmless(r)
    \/ Asking(r) /\ \E answer \in Answers[Stage(r)] : Answered(r, answer)
Next == \E r \in Requests : Begin(r) \/ Host(r) \/ Sidecar(r)

Spec == Init /\ [][Next]_vars
\* The extension host goes on with what it can do; nothing is assumed of the sidecar.
FairSpec == Spec /\ \A r \in Requests : WF_vars(Host(r))
----------------------------------------------------------------------------
(* Properties *)

Pcs == {"idle", "health", "unreachable", "cleanup", "ask", "write", "read", "validate",
        "firstValidation", "askRepair", "repair", "readRepair", "lastValidation", "ledger",
        "done", "rejected"}
ReportType ==
    [result : {"none", "ok", "blocked"},
     blocker : {"none", "refused", "unavailable", "cleanup", "proposal", "notVerified",
                "validationFailed"},
     written : SUBSET Files]
\* Every variable holds a value of its type.
TypeOK ==
    /\ disk \in [Files -> Content] /\ faults \in 0..MaxFaults
    /\ req \in [Requests ->
        [pc : Pcs, prompt : PromptType, mode : {"none", "chat", "openai", "agent"},
         chat : BOOLEAN, reachable : BOOLEAN, proposal : Seq(Entry), done : 0..4,
         verified : SUBSET Files, failedOnce : BOOLEAN, timedOut : BOOLEAN,
         repaired : BOOLEAN, ran : {"none", "marker", "silent", "error"},
         report : ReportType]]

\* A file of a proof only ever holds what that proof may write there, whatever the sidecar
\* answered in which form, and whatever other requests wrote and removed meanwhile.
Allowed(f) ==
    CASE f = "proof.txt" -> {"exact"}
      [] f = "sum.ts" -> {"plus", "odd"}
      [] f = "safe.ts" -> {"minus", "plus", "odd"}
      [] f = "ledger" -> {"ledger", "passed", "notPassed"}
      [] f = "rollback" -> {"rollback"}
      [] OTHER -> TestTexts
OnlyAllowedIsWritten ==
    \A f \in Files : disk[f].by # "others" => disk[f].text \in Allowed(f) \cup {"absent"}

\* What a report lists as written, and what a proof that succeeded is about, is there as
\* this request wrote it, until another request writes or removes it.
Intact(r, f) == disk[f].by = r \/ disk[f].by \in Requests \ {r}
ReportedIsThere ==
    \A r \in Requests : \A f \in req[r].report.written :
        Intact(r, f) /\ (disk[f].by = r => disk[f].text # "absent")

\* A gate that succeeded has shown that its test tells the repaired file from the broken
\* one, and its ledger says so: unless the first validation only failed because it was
\* killed, and as long as no other request touches the files.
GateOkMeansRepaired ==
    \A r \in Requests : Kind(r) = "gate" /\ req[r].report.result = "ok" =>
        /\ disk["safe.test"].by = r => disk["safe.test"].text = "checks" \/ req[r].timedOut
        /\ disk["ledger"].by = r => disk["ledger"].text = "passed"
        /\ disk["safe.ts"].by = r => disk["safe.ts"].text \in {"plus", "odd"}

\* Every request ends, also if the sidecar never answers.
ProofsEnd == \A r \in Requests : Running(r) ~> ~Running(r)

=============================================================================
