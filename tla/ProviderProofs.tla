--------------------------- MODULE ProviderProofs ---------------------------
(***************************************************************************)
(* Proofs about what the V15 extension does with the providers of its       *)
(* models: the proofs it asks of a sidecar (SidecarProof) and one call of a *)
(* model (ModelCall).                                                       *)
(*                                                                         *)
(* SidecarProof, for any number of requests, any answers of the sidecar and *)
(* any number of failing writes and killed validations: a proof's files     *)
(* hold only what it may write, what a report lists is there, and a gate    *)
(* that succeeded has a test that saw the broken file.  The inductive       *)
(* invariant says of every file who may have written what (DiskInv), and of *)
(* every request what it may write next (WriteInv), what it has touched     *)
(* (ReportInv) and what the two validations of the gate tell of the files   *)
(* it wrote last itself (GateInv): the other requests of the workspace      *)
(* write the same files, and only put their own name on them.               *)
(*                                                                         *)
(* ModelCall, for any number of calls, any lines in any chunks, any stream: *)
(* what was shown is what is returned, what is said to be complete is       *)
(* whole, and the diagnostics are those of the last attempt.  The inductive *)
(* invariant says where which provider can be (PlaceInv) and what has been  *)
(* read, shown and sent there (AnswerInv).                                  *)
(*                                                                         *)
(* For both, every step leaves fewer ahead: RequestsFinite, CallsFinite.    *)
(***************************************************************************)
EXTENDS SidecarProof, ModelCall, WellFoundedInduction, TLAPS

----------------------------------------------------------------------------
(* Proofs asked of a sidecar *)

\* The files a proof of each kind writes, and what it may write there.
FilesOf(kind) ==
    CASE kind = "plain" -> PlainFiles
      [] kind = "structured" -> StructuredFiles
      [] kind = "gate" -> GateFiles
      [] OTHER -> {}
Writable(kind, entry) == entry.path \in FilesOf(kind) /\ entry.text \in Allowed(entry.path)

Touched(files, f) == files[f].by \in Requests
\* What r wrote last, if nobody wrote there since.
Wrote(r, files, f, texts) == files[f].by = r => files[f].text \in texts

\* The points of the gate after its files are written.
GatePcs == {"firstValidation", "askRepair", "repair", "readRepair", "lastValidation", "ledger"}

ReqType ==
    [pc : Pcs, prompt : PromptType, mode : {"none", "chat", "openai", "agent"},
     chat : BOOLEAN, reachable : BOOLEAN, proposal : Seq(Entry), done : 0..4,
     verified : SUBSET Files, failedOnce : BOOLEAN, timedOut : BOOLEAN,
     repaired : BOOLEAN, ran : {"none", "marker", "silent", "error"},
     report : ReportType]

\* A removed file is one that a structured proof cleaned up.
Removed(file, f, reqs) ==
    f = "proof.txt" /\ file.text = "absent" /\ reqs[file.by].prompt.kind = "structured"
DiskInv(files, reqs) ==
    /\ files \in [Files -> Content]
    /\ \A f \in Files : Touched(files, f) =>
        files[f].text \in Allowed(f) \/ Removed(files[f], f, reqs)

\* What a request may write, and how far it has come.
WriteInv(q, files) ==
    /\ q.pc \in {"write", "read"} =>
        /\ Len(q.proposal) \in 1..4 /\ q.done \in 0..Len(q.proposal)
        /\ \A i \in DOMAIN q.proposal : Writable(q.prompt.kind, q.proposal[i])
        /\ \A i \in 1..q.done : Touched(files, q.proposal[i].path)
        /\ q.prompt.kind = "gate" =>
            \A f \in GateFiles : \E i \in DOMAIN q.proposal : q.proposal[i].path = f
    /\ q.pc = "write" => q.done < Len(q.proposal)
    /\ q.pc = "read" => q.done > 0 /\ q.prompt.kind # "gate"
    /\ q.pc \in {"repair", "readRepair"} =>
        Len(q.proposal) > 0 /\ q.proposal[1].text \in {"plus", "odd"}
    /\ q.pc \in {"cleanup", "validate"} => q.prompt.kind = "structured"

\* What a request has written, and when it says so.
ReportInv(q, files) ==
    /\ \A f \in q.verified \cup q.report.written :
            f \in FilesOf(q.prompt.kind) /\ Touched(files, f)
    /\ q.pc \in GatePcs => q.prompt.kind = "gate" /\ \A f \in GateFiles : Touched(files, f)
    /\ q.pc # "done" => q.report = NoReport
    /\ q.pc = "idle" => q = Idle

\* What the validations and the repair of a gate say of the files it wrote last.
GateInv(r, q, files) ==
    /\ q.pc \in Pcs \ GatePcs => ~q.failedOnce /\ ~q.repaired
    /\ q.failedOnce /\ ~q.timedOut => Wrote(r, files, "safe.test", TestTexts \ {"lax", "silent"})
    /\ q.pc = "ledger" /\ q.ran = "marker" => Wrote(r, files, "safe.test", {"lax", "checks"})
    /\ q.repaired \/ q.pc = "readRepair" => Wrote(r, files, "safe.ts", {"plus", "odd"})
    /\ q.prompt.kind = "gate" /\ q.report.result = "ok" =>
        /\ q.timedOut \/ Wrote(r, files, "safe.test", {"checks"})
        /\ Wrote(r, files, "ledger", {"passed"})
        /\ Wrote(r, files, "safe.ts", {"plus", "odd"})

RequestInv(r, q, files) ==
    q \in ReqType /\ WriteInv(q, files) /\ ReportInv(q, files) /\ GateInv(r, q, files)
SafeInv ==
    /\ DiskInv(disk, req) /\ faults \in 0..MaxFaults
    /\ req \in [Requests -> ReqType]
    /\ \A r \in Requests : RequestInv(r, req[r], disk)
----------------------------------------------------------------------------
(* Reading a proposal *)

LEMMA FilesOfKinds ==
    /\ FilesOf("plain") = {"proof.txt"} /\ FilesOf("structured") = {"sum.ts", "sum.test"}
    /\ FilesOf("gate") = {"safe.ts", "safe.test", "ledger", "rollback"}
    /\ FilesOf("diagnostic") = {}
    /\ \A kind : FilesOf(kind) \subseteq Files
<1>1. \A kind : FilesOf(kind) \subseteq Files
  BY DEF FilesOf, Files
<1> QED BY <1>1 DEF FilesOf, PlainFiles, StructuredFiles, GateFiles

LEMMA AllowedTexts ==
    /\ Allowed("proof.txt") = {"exact"} /\ Allowed("sum.ts") = {"plus", "odd"}
    /\ Allowed("sum.test") = TestTexts /\ Allowed("safe.test") = TestTexts
    /\ Allowed("safe.ts") = {"minus", "plus", "odd"}
    /\ Allowed("ledger") = {"ledger", "passed", "notPassed"}
    /\ Allowed("rollback") = {"rollback"}
  BY DEF Allowed

LEMMA AllowedIsText ==
    ASSUME NEW f \in Files
    PROVE  Allowed(f) \subseteq Texts \cup {"passed", "notPassed"} /\ "absent" \notin Allowed(f)
  BY AllowedTexts DEF Files, PlainFiles, StructuredFiles, GateFiles, Texts, TestTexts

\* Four entries with four different paths, all of the gate's, have all of its paths.
LEMMA FourCover ==
    ASSUME NEW files \in Seq(Entry), Len(files) = 4, Distinct(files),
           \A i \in DOMAIN files : files[i].path \in GateFiles
    PROVE  \A f \in GateFiles : \E i \in DOMAIN files : files[i].path = f
<1> DEFINE a == files[1].path
           b == files[2].path
           c == files[3].path
           d == files[4].path
<1>1. DOMAIN files = 1..4 /\ 1 \in 1..4 /\ 2 \in 1..4 /\ 3 \in 1..4 /\ 4 \in 1..4
  OBVIOUS
<1>2. /\ a \in GateFiles /\ b \in GateFiles /\ c \in GateFiles /\ d \in GateFiles
      /\ a # b /\ a # c /\ a # d /\ b # c /\ b # d /\ c # d
  BY <1>1 DEF Distinct
<1>3. SUFFICES ASSUME NEW f \in GateFiles PROVE f = a \/ f = b \/ f = c \/ f = d
  BY <1>1
<1> HIDE DEF a, b, c, d
<1> QED BY <1>2 DEF GateFiles

\* The proof each stage of parsing belongs to.
KindOf(stage) == IF stage \in {"initial", "repair"} THEN "gate" ELSE stage

\* What comes through the parser of a stage may be written there.
LEMMA PlainWritable ==
    ASSUME NEW answer \in AnswerType, PlainAnalysis(answer).blocker = "none"
    PROVE  LET files == PlainAnalysis(answer).files
           IN  /\ files \in Seq(Entry) /\ Len(files) = 1
               /\ Writable("plain", files[1])
<1> DEFINE said == <<[path |-> "proof.txt", text |-> "exact", keys |-> TRUE]>>
<1>1. /\ said \in Seq(Entry) /\ Len(said) = 1
      /\ said[1].path = "proof.txt" /\ said[1].text = "exact"
  BY DEF Entry, Files, PlainFiles, Texts
<1>2. PICK files : /\ PlainAnalysis(answer) = Proposed(files)
                   /\ files = answer.files \/ files = said
                   /\ Len(files) = 1 /\ files[1].path = "proof.txt" /\ files[1].text = "exact"
  <2>1. CASE answer.form = "json"
    BY <2>1 DEF PlainAnalysis, Unsafe
  <2>2. CASE answer.form = "mention"
    BY <2>2, <1>1 DEF PlainAnalysis
  <2>3. CASE answer.form \notin {"json", "mention"}
    BY <2>3 DEF PlainAnalysis, Missing, Unsafe
  <2> QED BY <2>1, <2>2, <2>3
<1>3. files \in Seq(Entry)
  BY <1>1, <1>2 DEF AnswerType
<1>4. Writable("plain", files[1])
  BY <1>2, FilesOfKinds, AllowedTexts DEF Writable
<1> QED BY <1>2, <1>3, <1>4 DEF Proposed

LEMMA StructuredWritable ==
    ASSUME NEW answer \in AnswerType, StructuredAnalysis(answer).blocker = "none"
    PROVE  LET files == StructuredAnalysis(answer).files
           IN  /\ files \in Seq(Entry) /\ Len(files) = 2
               /\ \A i \in DOMAIN files : Writable("structured", files[i])
<1>1. /\ StructuredAnalysis(answer) = Proposed(answer.files) /\ Len(answer.files) = 2
      /\ \A i \in DOMAIN answer.files : StructuredContent(answer.files[i])
  BY DEF StructuredAnalysis, Missing, Invalid, Unsafe
<1>2. \A entry : StructuredContent(entry) => Writable("structured", entry)
  BY FilesOfKinds, AllowedTexts DEF StructuredContent, Writable
<1> QED BY <1>1, <1>2 DEF Proposed, AnswerType

LEMMA InitialWritable ==
    ASSUME NEW answer \in AnswerType, InitialAnalysis(answer).blocker = "none"
    PROVE  LET files == InitialAnalysis(answer).files
           IN  /\ files \in Seq(Entry) /\ Len(files) = 4
               /\ \A i \in DOMAIN files : Writable("gate", files[i])
               /\ \A f \in GateFiles : \E i \in DOMAIN files : files[i].path = f
<1>1. /\ InitialAnalysis(answer) = Proposed(answer.files) /\ Len(answer.files) = 4
      /\ \A i \in DOMAIN answer.files : GateContent(answer.files[i])
      /\ Distinct(answer.files)
  BY DEF InitialAnalysis, Missing, Invalid, Unsafe
<1>2. \A entry : GateContent(entry) => Writable("gate", entry) /\ entry.path \in GateFiles
  BY FilesOfKinds, AllowedTexts DEF GateContent, Writable, GateFiles
<1>3. answer.files \in Seq(Entry)
  BY DEF AnswerType
<1>4. \A f \in GateFiles : \E i \in DOMAIN answer.files : answer.files[i].path = f
  BY <1>1, <1>2, <1>3, FourCover
<1> QED BY <1>1, <1>2, <1>3, <1>4 DEF Proposed

LEMMA RepairWritable ==
    ASSUME NEW answer \in AnswerType, RepairAnalysis(answer).blocker = "none"
    PROVE  LET files == RepairAnalysis(answer).files
           IN  files \in Seq(Entry) /\ Len(files) = 1 /\ files[1].text \in {"plus", "odd"}
<1>1. /\ RepairAnalysis(answer) = Proposed(answer.files) /\ Len(answer.files) = 1
      /\ answer.files[1].text \in {"plus", "odd"}
  BY DEF RepairAnalysis, Missing, Invalid, Unsafe
<1> QED BY <1>1 DEF Proposed, AnswerType
----------------------------------------------------------------------------
(* Steps of one request among others *)

\* What request r may have done to the files in a step.
ChangedBy(r, before, after) ==
    \A f \in Files : after[f] = before[f] \/ after[f].by = r

\* What other requests do to the files breaks nothing a request knows.
LEMMA OthersKeep ==
    ASSUME NEW r \in Requests, NEW s \in Requests, s # r, NEW q, NEW before, NEW after,
           RequestInv(s, q, before), ChangedBy(r, before, after)
    PROVE  RequestInv(s, q, after)
<1>1. \A f \in Files : Touched(before, f) => Touched(after, f)
  BY DEF ChangedBy, Touched
<1>2. \A f \in Files : \A texts : Wrote(s, before, f, texts) => Wrote(s, after, f, texts)
  BY DEF ChangedBy, Wrote
<1>3. GateFiles \subseteq Files /\ "safe.test" \in Files /\ "safe.ts" \in Files /\ "ledger" \in Files
  BY DEF Files, GateFiles
<1>4. WriteInv(q, after)
  <2>1. CASE q.pc \in {"write", "read"}
    <3>1. /\ Len(q.proposal) \in 1..4 /\ q.done \in 0..Len(q.proposal)
          /\ \A i \in DOMAIN q.proposal : Writable(q.prompt.kind, q.proposal[i])
          /\ \A i \in 1..q.done : Touched(before, q.proposal[i].path)
      BY <2>1 DEF RequestInv, WriteInv
    <3>2. DOMAIN q.proposal = 1..Len(q.proposal)
      BY DEF RequestInv, ReqType
    <3>3. \A i \in 1..q.done : q.proposal[i].path \in Files
      BY <3>1, <3>2, FilesOfKinds DEF Writable
    <3>4. \A i \in 1..q.done : Touched(after, q.proposal[i].path)
      BY <1>1, <3>1, <3>3
    <3> QED BY <2>1, <3>4 DEF RequestInv, WriteInv
  <2>2. CASE q.pc \notin {"write", "read"}
    BY <2>2 DEF RequestInv, WriteInv
  <2> QED BY <2>1, <2>2
<1>5. ReportInv(q, after)
  <2>1. \A f \in q.verified \cup q.report.written : f \in Files
    BY DEF RequestInv, ReqType, ReportType
  <2> QED BY <1>1, <1>3, <2>1 DEF RequestInv, ReportInv
<1>6. GateInv(s, q, after)
  BY <1>2, <1>3 DEF RequestInv, GateInv
<1> QED BY <1>4, <1>5, <1>6 DEF RequestInv

\* A step of r to the state q, after which the files are as "after" has them.
Moves(r, q) ==
    /\ req' = [req EXCEPT ![r] = q]
    /\ RequestInv(r, q, disk')
    /\ q.prompt.kind = req[r].prompt.kind \/ req[r].pc = "idle"
    /\ disk' \in [Files -> Content]
    /\ \A f \in Files :
        \/ disk'[f] = disk[f]
        \/ /\ disk'[f].by = r
           /\ \/ disk'[f].text \in Allowed(f)
              \/ f = "proof.txt" /\ disk'[f].text = "absent" /\ q.prompt.kind = "structured"

LEMMA MovesKeeps ==
    ASSUME SafeInv, NEW r \in Requests, NEW q, Moves(r, q), faults' \in 0..MaxFaults
    PROVE  SafeInv'
<1>1. req' \in [Requests -> ReqType] /\ req'[r] = q /\ \A s \in Requests \ {r} : req'[s] = req[s]
  BY DEF Moves, SafeInv, RequestInv
<1>2. \A s \in Requests : RequestInv(s, req'[s], disk')
  <2> SUFFICES ASSUME NEW s \in Requests, s # r PROVE RequestInv(s, req[s], disk')
    BY <1>1 DEF Moves
  <2>1. ChangedBy(r, disk, disk') /\ RequestInv(s, req[s], disk)
    BY DEF ChangedBy, Moves, SafeInv
  <2> QED BY <2>1, OthersKeep
<1>3. \A f \in Files : Touched(disk', f) =>
            disk'[f].text \in Allowed(f) \/ Removed(disk'[f], f, req')
  <2> SUFFICES ASSUME NEW f \in Files, Touched(disk', f)
               PROVE  disk'[f].text \in Allowed(f) \/ Removed(disk'[f], f, req')
    OBVIOUS
  <2>1. CASE disk'[f] = disk[f]
    <3>1. disk[f].text \in Allowed(f) \/ Removed(disk[f], f, req)
      BY <2>1 DEF SafeInv, DiskInv, Touched
    <3>2. CASE disk[f].by = r /\ Removed(disk[f], f, req)
      <4>1. req[r].prompt.kind = "structured"
        BY <3>2 DEF Removed
      <4>2. req[r].pc # "idle"
        BY <4>1 DEF SafeInv, RequestInv, ReportInv, Idle, NoPrompt
      <4> QED BY <1>1, <2>1, <3>2, <4>1, <4>2 DEF Moves, Removed
    <3>3. CASE disk[f].by # r
      BY <1>1, <2>1, <3>1, <3>3 DEF Removed, Touched
    <3> QED BY <2>1, <3>1, <3>2, <3>3
  <2>2. CASE disk'[f] # disk[f]
    BY <1>1, <2>2 DEF Moves, Removed
  <2> QED BY <2>1, <2>2
<1>4. DiskInv(disk', req')
  BY <1>3 DEF Moves, DiskInv
<1> QED BY <1>1, <1>2, <1>4 DEF SafeInv

LEMMA RequestFacts ==
    ASSUME SafeInv, NEW r \in Requests
    PROVE  /\ req[r] \in ReqType /\ RequestInv(r, req[r], disk)
           /\ disk \in [Files -> Content] /\ faults \in 0..MaxFaults
           /\ req[r].prompt \in PromptType /\ req[r].proposal \in Seq(Entry)
           /\ req[r].report \in ReportType /\ req[r].verified \subseteq Files
           /\ Len(req[r].proposal) \in Nat
           /\ DOMAIN req[r].proposal = 1..Len(req[r].proposal)
  BY DEF SafeInv, DiskInv, ReqType

\* A step that leaves the files alone.
LEMMA QuietKeeps ==
    ASSUME SafeInv, NEW r \in Requests, NEW q, req' = [req EXCEPT ![r] = q],
           RequestInv(r, q, disk), UNCHANGED disk, faults' \in 0..MaxFaults,
           q.prompt.kind = req[r].prompt.kind \/ req[r].pc = "idle"
    PROVE  SafeInv'
<1>1. Moves(r, q)
  BY RequestFacts DEF Moves
<1> QED BY <1>1, MovesKeeps

LEMMA IdleTyped ==
    /\ Idle \in ReqType /\ Idle.proposal = <<>> /\ Idle.done = 0 /\ Idle.verified = {}
    /\ Idle.report = NoReport /\ ~Idle.failedOnce /\ ~Idle.repaired /\ NoReport.written = {}
    /\ Idle.prompt.kind = "plain" /\ Idle.ran = "none" /\ NoReport.result = "none"
<1>1. NoPrompt \in PromptType /\ NoReport \in ReportType
  BY DEF NoPrompt, PromptType, Kinds, NoReport, ReportType
<1>2. 0 \in 0..4 /\ <<>> \in Seq(Entry)
  OBVIOUS
<1> QED BY <1>1, <1>2 DEF Idle, ReqType, Pcs, NoReport, NoPrompt

\* What is left of a request that is over, with the report it gives.
LEMMA EndedInv ==
    ASSUME NEW r \in Requests, req[r] \in ReqType, NEW pc \in {"done", "rejected"},
           NEW ran \in {"none", "marker", "silent", "error"}, NEW report \in ReportType,
           pc = "rejected" => report = NoReport, NEW files,
           \A f \in report.written : f \in FilesOf(Kind(r)) /\ Touched(files, f),
           Kind(r) = "gate" /\ report.result = "ok" =>
                /\ req[r].timedOut \/ Wrote(r, files, "safe.test", {"checks"})
                /\ Wrote(r, files, "ledger", {"passed"})
                /\ Wrote(r, files, "safe.ts", {"plus", "odd"})
    PROVE  RequestInv(r, Ended(r, pc, ran, report), files)
           /\ Ended(r, pc, ran, report).prompt.kind = Kind(r)
<1> DEFINE q == Ended(r, pc, ran, report)
           prompt == [Idle.prompt EXCEPT !.kind = Kind(r)]
<1>1. prompt \in PromptType /\ prompt.kind = Kind(r)
  BY IdleTyped DEF ReqType, PromptType, Kind
<1>2. req[r].timedOut \in BOOLEAN
  BY DEF ReqType
<1>3. q = [Idle EXCEPT !.pc = pc, !.prompt = prompt, !.timedOut = req[r].timedOut,
                       !.ran = ran, !.report = report]
  BY IdleTyped DEF Ended, ReqType
<1>4. /\ q \in ReqType /\ q.pc = pc /\ q.prompt = prompt /\ q.timedOut = req[r].timedOut
      /\ q.report = report /\ q.verified = {} /\ ~q.failedOnce /\ ~q.repaired
  <2> HIDE DEF prompt, q
  <2> QED BY ZenonT(30), <1>1, <1>2, <1>3, IdleTyped DEF ReqType, Pcs
<1> HIDE DEF q
<1>5. WriteInv(q, files)
  BY <1>4 DEF WriteInv
<1>6. ReportInv(q, files)
  BY <1>1, <1>4 DEF ReportInv, GatePcs
<1>7. GateInv(r, q, files)
  BY <1>1, <1>4 DEF GateInv, GatePcs
<1>8. q.prompt.kind = Kind(r)
  BY <1>1, <1>4
<1> QED BY <1>4, <1>5, <1>6, <1>7, <1>8 DEF RequestInv, q

Blockers == {"none", "refused", "unavailable", "cleanup", "proposal", "notVerified",
             "validationFailed"}
\* A report without a success, and an end without a report.
LEMMA ReturnKeeps ==
    ASSUME SafeInv, NEW r \in Requests, NEW result \in {"ok", "blocked"},
           NEW blocker \in Blockers, NEW written \in SUBSET Files,
           NEW ran \in {"none", "marker", "silent", "error"},
           result = "ok" => Kind(r) # "gate",
           \A f \in written : f \in FilesOf(Kind(r)) /\ Touched(disk, f),
           req' = [req EXCEPT ![r] = Ended(r, "done", ran, Report(result, blocker, written))],
           UNCHANGED disk, faults' \in 0..MaxFaults
    PROVE  SafeInv'
<1> DEFINE report == Report(result, blocker, written)
           q == Ended(r, "done", ran, report)
<1>1. report \in ReportType /\ report.written = written /\ report.result = result
  BY DEF Report, ReportType, Blockers
<1>2. req[r] \in ReqType /\ req' = [req EXCEPT ![r] = q]
  BY RequestFacts
<1> HIDE DEF report
<1>3. RequestInv(r, q, disk) /\ q.prompt.kind = Kind(r)
  BY <1>1, <1>2, EndedInv
<1> HIDE DEF q
<1> QED BY <1>2, <1>3, QuietKeeps DEF Kind

LEMMA BlockKeeps ==
    ASSUME SafeInv, NEW r \in Requests, NEW blocker \in Blockers, Block(r, blocker),
           UNCHANGED disk, faults' \in 0..MaxFaults
    PROVE  SafeInv'
<1>1. req[r].ran \in {"none", "marker", "silent", "error"}
  BY RequestFacts DEF ReqType
<1>2. req' = [req EXCEPT ![r] = Ended(r, "done", req[r].ran, Report("blocked", blocker, {}))]
  BY DEF Block, Return
<1>3. {} \in SUBSET Files /\ \A f \in {} : f \in FilesOf(Kind(r)) /\ Touched(disk, f)
  OBVIOUS
<1>4. "blocked" \in {"ok", "blocked"} /\ ("blocked" = "ok" => Kind(r) # "gate")
  OBVIOUS
<1> QED BY <1>1, <1>2, <1>3, <1>4, ReturnKeeps

LEMMA RejectKeeps ==
    ASSUME SafeInv, NEW r \in Requests, Reject(r), UNCHANGED disk, faults' \in 0..MaxFaults
    PROVE  SafeInv'
<1> DEFINE q == Ended(r, "rejected", req[r].ran, NoReport)
<1>1. req[r].ran \in {"none", "marker", "silent", "error"} /\ req[r] \in ReqType
  BY RequestFacts DEF ReqType
<1>2. NoReport \in ReportType /\ NoReport.written = {} /\ NoReport.result = "none"
  BY DEF NoReport, ReportType
<1>3. RequestInv(r, q, disk) /\ q.prompt.kind = Kind(r)
  BY <1>1, <1>2, EndedInv
<1>4. req' = [req EXCEPT ![r] = q]
  BY DEF Reject
<1> HIDE DEF q
<1> QED BY <1>3, <1>4, QuietKeeps DEF Kind
----------------------------------------------------------------------------
(* One lemma per action *)

LEMMA BeginKeeps ==
    ASSUME SafeInv, NEW r \in Requests, Begin(r)
    PROVE  SafeInv'
<1>1. PICK prompt \in Prompts :
        req' = [req EXCEPT ![r] =
            IF Refused(prompt)
            THEN [Idle EXCEPT !.pc = "done", !.prompt.kind = prompt.kind,
                              !.report = Report("blocked", "refused", {})]
            ELSE [Idle EXCEPT !.pc = "health", !.prompt = prompt]]
  BY DEF Begin
<1>2. /\ req[r].pc = "idle" /\ UNCHANGED <<disk, faults>> /\ faults' \in 0..MaxFaults
      /\ req[r] = Idle
  BY RequestFacts DEF Begin, RequestInv, ReportInv
<1>3. prompt \in PromptType
  BY SidecarAssumption
<1>4. CASE Refused(prompt)
  <2> DEFINE named == [Idle.prompt EXCEPT !.kind = prompt.kind]
             report == Report("blocked", "refused", {})
             q == [Idle EXCEPT !.pc = "done", !.prompt.kind = prompt.kind, !.report = report]
  <2>1. named \in PromptType
    BY <1>3, IdleTyped DEF ReqType, PromptType
  <2>2. report \in ReportType /\ report.written = {} /\ report.result = "blocked"
    BY DEF Report, ReportType
  <2>3. q = [Idle EXCEPT !.pc = "done", !.prompt = named, !.report = report]
    BY IdleTyped DEF ReqType
  <2> HIDE DEF named, report
  <2>4. /\ q \in ReqType /\ q.pc = "done" /\ q.report = report /\ q.verified = {}
        /\ ~q.failedOnce /\ ~q.repaired
    <3> HIDE DEF q
    <3> QED BY <2>1, <2>2, <2>3, IdleTyped DEF ReqType, Pcs
  <2>5. req' = [req EXCEPT ![r] = q]
    BY <1>1, <1>4 DEF report
  <2> HIDE DEF q
  <2>6. RequestInv(r, q, disk)
    BY <2>2, <2>4 DEF RequestInv, WriteInv, ReportInv, GateInv, GatePcs
  <2> QED BY <1>2, <2>5, <2>6, QuietKeeps
<1>5. CASE ~Refused(prompt)
  <2> DEFINE q == [Idle EXCEPT !.pc = "health", !.prompt = prompt]
  <2>1. /\ q \in ReqType /\ q.pc = "health" /\ q.report = NoReport /\ q.verified = {}
        /\ ~q.failedOnce /\ ~q.repaired
    BY <1>3, IdleTyped DEF ReqType, Pcs
  <2>2. req' = [req EXCEPT ![r] = q]
    BY <1>1, <1>5
  <2> HIDE DEF q
  <2>3. RequestInv(r, q, disk)
    BY <2>1, IdleTyped DEF RequestInv, WriteInv, ReportInv, GateInv, GatePcs
  <2> QED BY <1>2, <2>2, <2>3, QuietKeeps
<1> QED BY <1>4, <1>5

\* A step before anything is written.
EarlyPcs == {"health", "unreachable", "cleanup", "ask"}
LEMMA EarlyInv ==
    ASSUME SafeInv, NEW r \in Requests, req[r].pc \in EarlyPcs, NEW q \in ReqType,
           q.pc \in EarlyPcs, q.pc = "cleanup" => Kind(r) = "structured",
           q.prompt = req[r].prompt, q.verified = req[r].verified, q.report = req[r].report,
           q.failedOnce = req[r].failedOnce, q.repaired = req[r].repaired,
           NEW files, ChangedBy(r, disk, files)
    PROVE  RequestInv(r, q, files)
<1>1. req[r].report = NoReport /\ NoReport.written = {} /\ NoReport.result = "none"
  BY RequestFacts, IdleTyped DEF RequestInv, ReportInv, EarlyPcs
<1>2. ~req[r].failedOnce /\ ~req[r].repaired
  BY RequestFacts DEF RequestInv, GateInv, GatePcs, EarlyPcs, Pcs
<1>3. \A f \in q.verified : f \in FilesOf(q.prompt.kind) /\ Touched(files, f)
  <2>1. \A f \in q.verified : f \in FilesOf(q.prompt.kind) /\ Touched(disk, f) /\ f \in Files
    BY RequestFacts DEF RequestInv, ReportInv
  <2> QED BY <2>1 DEF ChangedBy, Touched
<1>4. ReportInv(q, files)
  BY <1>1, <1>3 DEF ReportInv, GatePcs, EarlyPcs
<1>5. WriteInv(q, files) /\ GateInv(r, q, files)
  BY <1>1, <1>2 DEF WriteInv, GateInv, GatePcs, EarlyPcs, Kind
<1> QED BY <1>4, <1>5 DEF RequestInv

LEMMA HealthKeeps ==
    ASSUME SafeInv, NEW r \in Requests, Health(r)
    PROVE  SafeInv'
<1>1. PICK chat \in BOOLEAN, openAi \in BOOLEAN :
        LET reachable == chat \/ openAi
            pc == IF Kind(r) = "structured" THEN "cleanup"
                  ELSE IF reachable THEN "ask" ELSE "unreachable"
        IN  req' = [req EXCEPT ![r].pc = pc, ![r].reachable = reachable,
                               ![r].chat = chat /\ Kind(r) = "diagnostic",
                               ![r].mode = FirstMode(Kind(r), chat)]
  BY DEF Health
<1> DEFINE reachable == chat \/ openAi
           pc == IF Kind(r) = "structured" THEN "cleanup"
                 ELSE IF reachable THEN "ask" ELSE "unreachable"
           asked == chat /\ Kind(r) = "diagnostic"
           mode == FirstMode(Kind(r), chat)
           q == [req[r] EXCEPT !.pc = pc, !.reachable = reachable, !.chat = asked, !.mode = mode]
<1>2. req' = [req EXCEPT ![r] = q]
  BY <1>1
<1>3. /\ pc \in {"cleanup", "ask", "unreachable"} /\ reachable \in BOOLEAN /\ asked \in BOOLEAN
      /\ mode \in {"chat", "openai", "agent"}
  BY DEF FirstMode
<1> HIDE DEF pc, reachable, asked, mode
<1>4. /\ q \in ReqType /\ q.pc = pc /\ q.prompt = req[r].prompt
      /\ q.verified = req[r].verified /\ q.report = req[r].report
      /\ q.failedOnce = req[r].failedOnce /\ q.repaired = req[r].repaired
  <2>1. pc \in Pcs /\ req[r] \in ReqType /\ mode \in {"none", "chat", "openai", "agent"}
    BY <1>3, RequestFacts DEF Pcs
  <2>2. q \in ReqType
    BY <1>3, <2>1 DEF ReqType
  <2>3. /\ q.pc = pc /\ q.prompt = req[r].prompt
        /\ q.verified = req[r].verified /\ q.report = req[r].report
        /\ q.failedOnce = req[r].failedOnce /\ q.repaired = req[r].repaired
    BY <2>1 DEF ReqType
  <2> QED BY <2>2, <2>3
<1> HIDE DEF q
<1>5. RequestInv(r, q, disk)
  <2>1. /\ ChangedBy(r, disk, disk) /\ req[r].pc \in EarlyPcs /\ q.pc \in EarlyPcs
        /\ q.pc = "cleanup" => Kind(r) = "structured"
    BY <1>3, <1>4 DEF ChangedBy, EarlyPcs, Health, pc
  <2> QED BY <1>4, <2>1, EarlyInv
<1>6. UNCHANGED <<disk, faults>> /\ faults' \in 0..MaxFaults
  BY RequestFacts DEF Health
<1> QED BY <1>2, <1>4, <1>5, <1>6, QuietKeeps

LEMMA CleanupKeeps ==
    ASSUME SafeInv, NEW r \in Requests, Cleanup(r)
    PROVE  SafeInv'
<1>1. CASE Block(r, "cleanup") /\ UNCHANGED disk
  <2>1. faults' \in 0..MaxFaults
    BY RequestFacts, SidecarAssumption DEF Cleanup
  <2> QED BY <1>1, <2>1, BlockKeeps DEF Blockers
<1>2. CASE /\ disk' = [disk EXCEPT !["proof.txt"] = File("absent", r)]
           /\ UNCHANGED faults
           /\ \E pc \in {"ask", "unreachable"} : Goto(r, pc)
  <2>1. PICK pc \in {"ask", "unreachable"} : Goto(r, pc)
    BY <1>2
  <2> DEFINE q == [req[r] EXCEPT !.pc = pc]
  <2>2. req' = [req EXCEPT ![r] = q]
    BY <2>1 DEF Goto
  <2>3. /\ q \in ReqType /\ q.pc = pc /\ q.prompt = req[r].prompt
        /\ q.verified = req[r].verified /\ q.report = req[r].report
        /\ q.failedOnce = req[r].failedOnce /\ q.repaired = req[r].repaired
    BY RequestFacts DEF ReqType, Pcs
  <2> HIDE DEF q
  <2>4. File("absent", r) \in Content /\ File("absent", r).by = r /\ File("absent", r).text = "absent"
    BY DEF File, Content
  <2>5. /\ disk' \in [Files -> Content]
        /\ \A f \in Files : disk'[f] = disk[f] \/ (f = "proof.txt" /\ disk'[f] = File("absent", r))
    BY <1>2, <2>4, RequestFacts
  <2>6. req[r].prompt.kind = "structured"
    BY RequestFacts DEF Cleanup, RequestInv, WriteInv
  <2>7. RequestInv(r, q, disk')
    <3>1. ChangedBy(r, disk, disk')
      BY <2>4, <2>5 DEF ChangedBy
    <3> QED BY <2>3, <3>1, EarlyInv DEF EarlyPcs, Cleanup
  <2>8. Moves(r, q)
    BY <2>2, <2>3, <2>4, <2>5, <2>6, <2>7 DEF Moves
  <2> QED BY <1>2, <2>8, MovesKeeps, RequestFacts
<1> QED BY <1>1, <1>2 DEF Cleanup

\* A step that only asks elsewhere, or the same question once more.
LEMMA ModeKeeps ==
    ASSUME SafeInv, NEW r \in Requests, NEW mode \in {"openai", "agent"},
           req[r].pc # "idle", req' = [req EXCEPT ![r].mode = mode], UNCHANGED <<disk, faults>>
    PROVE  SafeInv'
<1> DEFINE q == [req[r] EXCEPT !.mode = mode]
<1>1. req' = [req EXCEPT ![r] = q] /\ faults' \in 0..MaxFaults
  BY RequestFacts
<1>2. q \in ReqType
  BY RequestFacts DEF ReqType
<1>3. /\ q.pc = req[r].pc /\ q.prompt = req[r].prompt /\ q.proposal = req[r].proposal
      /\ q.done = req[r].done /\ q.verified = req[r].verified /\ q.report = req[r].report
      /\ q.failedOnce = req[r].failedOnce /\ q.timedOut = req[r].timedOut
      /\ q.repaired = req[r].repaired /\ q.ran = req[r].ran
  BY RequestFacts DEF ReqType
<1> HIDE DEF q
<1>4. RequestInv(r, q, disk)
  <2>1. WriteInv(q, disk)
    BY <1>3, RequestFacts DEF RequestInv, WriteInv
  <2>2. ReportInv(q, disk)
    BY <1>3, RequestFacts DEF RequestInv, ReportInv
  <2>3. GateInv(r, q, disk)
    BY <1>3, RequestFacts DEF RequestInv, GateInv
  <2> QED BY <1>2, <2>1, <2>2, <2>3 DEF RequestInv
<1> QED BY <1>1, <1>3, <1>4, QuietKeeps

LEMMA AskEndsKeeps ==
    ASSUME SafeInv, NEW r \in Requests,
           Unreachable(r) \/ SafetyBlocked(r) \/ Unavailable(r) \/ TimedOut(r)
    PROVE  SafeInv'
<1>1. UNCHANGED <<disk, faults>> /\ faults' \in 0..MaxFaults /\ req[r].pc # "idle"
  BY RequestFacts DEF Unreachable, SafetyBlocked, Unavailable, TimedOut, Asking
<1>2. \/ Block(r, "unavailable") \/ Reject(r)
      \/ req' = [req EXCEPT ![r].mode = "openai"]
  BY DEF Unreachable, SafetyBlocked, Unavailable, TimedOut, AskFails
<1> QED BY <1>1, <1>2, BlockKeeps, RejectKeeps, ModeKeeps DEF Blockers

LEMMA FirstOf == ASSUME NEW n \in 1..4 PROVE 0 \in 0..n /\ 0 < n
  OBVIOUS

\* A proposal that is adopted may be written.
LEMMA ProposalAdopted ==
    ASSUME SafeInv, NEW r \in Requests, req[r].pc = "ask", Kind(r) # "diagnostic",
           NEW files \in Seq(Entry), Len(files) \in 1..4,
           \A i \in DOMAIN files : Writable(Kind(r), files[i]),
           Kind(r) = "gate" =>
                \A f \in GateFiles : \E i \in DOMAIN files : files[i].path = f,
           NEW q, q = [req[r] EXCEPT !.proposal = files, !.done = 0, !.pc = "write"],
           req' = [req EXCEPT ![r] = q], UNCHANGED <<disk, faults>>
    PROVE  SafeInv'
<1>1. faults' \in 0..MaxFaults /\ req[r] \in ReqType
  BY RequestFacts
<1>2. q \in ReqType
  <2>1. "write" \in Pcs /\ 0 \in 0..4
    BY DEF Pcs
  <2> QED BY <1>1, <2>1 DEF ReqType
<1>3. /\ q.pc = "write" /\ q.prompt = req[r].prompt /\ q.proposal = files
      /\ q.done = 0 /\ q.verified = req[r].verified /\ q.report = req[r].report
      /\ q.failedOnce = req[r].failedOnce /\ q.repaired = req[r].repaired
  BY <1>1 DEF ReqType
<1>4. /\ req[r].report = NoReport /\ NoReport.result = "none"
      /\ ~req[r].failedOnce /\ ~req[r].repaired
  BY RequestFacts, IdleTyped DEF RequestInv, ReportInv, GateInv, GatePcs, Pcs
<1>5. WriteInv(q, disk)
  <2>1. 0 \in 0..Len(files) /\ 0 < Len(files)
    BY FirstOf
  <2>2. \A i \in 1..0 : Touched(disk, files[i].path)
    OBVIOUS
  <2> QED BY <1>3, <2>1, <2>2 DEF WriteInv, Kind
<1>6. ReportInv(q, disk)
  BY <1>3, <1>4, RequestFacts DEF RequestInv, ReportInv, GatePcs
<1>7. GateInv(r, q, disk)
  BY <1>3, <1>4 DEF GateInv
<1>8. RequestInv(r, q, disk)
  BY <1>2, <1>5, <1>6, <1>7 DEF RequestInv
<1> QED BY <1>1, <1>3, <1>8, QuietKeeps

\* A step of the gate, after its files are written, that writes nothing itself.
LEMMA GateKeeps ==
    ASSUME SafeInv, NEW r \in Requests, req[r].pc \in GatePcs, NEW q \in ReqType,
           req' = [req EXCEPT ![r] = q], q.pc \in GatePcs, q.prompt = req[r].prompt,
           q.verified = req[r].verified, q.report = req[r].report,
           q.pc \in {"repair", "readRepair"} =>
                Len(q.proposal) > 0 /\ q.proposal[1].text \in {"plus", "odd"},
           q.failedOnce /\ ~q.timedOut =>
                Wrote(r, disk, "safe.test", TestTexts \ {"lax", "silent"}),
           q.pc = "ledger" /\ q.ran = "marker" =>
                Wrote(r, disk, "safe.test", {"lax", "checks"}),
           q.repaired \/ q.pc = "readRepair" => Wrote(r, disk, "safe.ts", {"plus", "odd"}),
           UNCHANGED disk, faults' \in 0..MaxFaults
    PROVE  SafeInv'
<1>1. /\ req[r].report = NoReport /\ NoReport.result = "none" /\ Kind(r) = "gate"
      /\ q.pc \notin {"write", "read", "cleanup", "validate", "done", "idle"}
  BY RequestFacts, IdleTyped DEF RequestInv, ReportInv, GatePcs, Kind
<1>2. WriteInv(q, disk)
  BY <1>1 DEF WriteInv
<1>3. ReportInv(q, disk)
  BY <1>1, RequestFacts DEF RequestInv, ReportInv, Kind
<1>4. GateInv(r, q, disk)
  BY <1>1 DEF GateInv
<1>5. RequestInv(r, q, disk)
  BY <1>2, <1>3, <1>4 DEF RequestInv
<1> QED BY <1>5, QuietKeeps

LEMMA AnsweredKeeps ==
    ASSUME SafeInv, NEW r \in Requests, NEW answer \in Answers[Stage(r)], Answered(r, answer)
    PROVE  SafeInv'
<1> DEFINE analysis == Analysis(Stage(r), answer)
           files == analysis.files
           retry == ShouldRetry(analysis) /\ req[r].mode = "openai"
           adopted == [req[r] EXCEPT !.proposal = files, !.done = 0,
                                     !.pc = IF req[r].pc = "ask" THEN "write" ELSE "repair"]
<1>1. /\ req[r].pc \in {"ask", "askRepair"} /\ Kind(r) # "diagnostic"
      /\ UNCHANGED <<disk, faults>> /\ faults' \in 0..MaxFaults /\ req[r] \in ReqType
  BY RequestFacts DEF Answered, Asking
<1>2. /\ req[r].pc = "askRepair" => Kind(r) = "gate" /\ Stage(r) = "repair"
      /\ req[r].pc = "ask" => Stage(r) \in {"plain", "structured", "initial"}
                              /\ KindOf(Stage(r)) = Kind(r)
      /\ Stage(r) \in Stages
  BY <1>1, RequestFacts DEF RequestInv, ReportInv, GatePcs, Stage, Kind, PromptType, Kinds,
                            Stages, KindOf
<1>3. answer \in AnswerType
  BY <1>2, SidecarAssumption
<1>4. /\ analysis.blocker = "none" => req' = [req EXCEPT ![r] = adopted]
      /\ analysis.blocker # "none" /\ retry => req' = [req EXCEPT ![r].mode = "agent"]
      /\ analysis.blocker # "none" /\ ~retry =>
            IF req[r].pc = "ask" THEN Block(r, "proposal") ELSE Goto(r, "lastValidation")
  <2>1. CASE analysis.blocker = "none"
    <3>1. Adopt(r, files)
      BY <2>1 DEF Answered
    <3>2. req' = [req EXCEPT ![r] = adopted]
      BY <3>1 DEF Adopt
    <3> QED BY <2>1, <3>2
  <2>2. CASE analysis.blocker # "none" /\ retry
    <3>1. req' = [req EXCEPT ![r].mode = "agent"]
      BY <2>2, Zenon DEF Answered
    <3> QED BY <2>2, <3>1
  <2>3. CASE analysis.blocker # "none" /\ ~retry
    <3>1. IF req[r].pc = "ask" THEN Block(r, "proposal") ELSE Goto(r, "lastValidation")
      BY <2>3, Zenon DEF Answered
    <3> QED BY <2>3, <3>1
  <2> HIDE DEF retry, analysis, adopted
  <2> QED BY <2>1, <2>2, <2>3
<1>5. CASE analysis.blocker = "none" /\ req[r].pc = "ask"
  <2>1. /\ files \in Seq(Entry) /\ Len(files) \in 1..4
        /\ \A i \in DOMAIN files : Writable(Kind(r), files[i])
        /\ Kind(r) = "gate" =>
                \A f \in GateFiles : \E i \in DOMAIN files : files[i].path = f
    <3>1. CASE Stage(r) = "plain"
      BY <1>2, <1>3, <1>5, <3>1, PlainWritable DEF Analysis, KindOf
    <3>2. CASE Stage(r) = "structured"
      BY <1>2, <1>3, <1>5, <3>2, StructuredWritable DEF Analysis, KindOf
    <3>3. CASE Stage(r) = "initial"
      BY <1>2, <1>3, <1>5, <3>3, InitialWritable DEF Analysis, KindOf
    <3> QED BY <1>2, <1>5, <3>1, <3>2, <3>3
  <2>2. req' = [req EXCEPT ![r] = adopted]
    BY <1>4, <1>5
  <2> HIDE DEF files
  <2>3. adopted = [req[r] EXCEPT !.proposal = files, !.done = 0, !.pc = "write"]
    BY <1>5
  <2> HIDE DEF adopted
  <2> QED BY <1>1, <1>5, <2>1, <2>2, <2>3, ProposalAdopted
<1>6. CASE analysis.blocker = "none" /\ req[r].pc = "askRepair"
  <2> DEFINE q == [req[r] EXCEPT !.proposal = files, !.done = 0, !.pc = "repair"]
  <2>1. files \in Seq(Entry) /\ Len(files) = 1 /\ files[1].text \in {"plus", "odd"}
    BY <1>2, <1>3, <1>6, RepairWritable DEF Analysis
  <2>2. req' = [req EXCEPT ![r] = adopted]
    BY <1>4, <1>6
  <2> HIDE DEF files
  <2>3. adopted = q
    BY <1>6
  <2> HIDE DEF adopted
  <2>4. q \in ReqType
    <3>1. "repair" \in Pcs /\ 0 \in 0..4
      BY DEF Pcs
    <3> QED BY <1>1, <2>1, <3>1 DEF ReqType
  <2>5. /\ q.pc = "repair" /\ q.prompt = req[r].prompt /\ q.proposal = files
        /\ q.verified = req[r].verified /\ q.report = req[r].report /\ q.ran = req[r].ran
        /\ q.failedOnce = req[r].failedOnce /\ q.repaired = req[r].repaired
        /\ q.timedOut = req[r].timedOut
    BY <1>1 DEF ReqType
  <2> HIDE DEF q
  <2>6. /\ q.failedOnce /\ ~q.timedOut =>
                Wrote(r, disk, "safe.test", TestTexts \ {"lax", "silent"})
        /\ q.repaired => Wrote(r, disk, "safe.ts", {"plus", "odd"})
    BY <2>5, RequestFacts DEF RequestInv, GateInv
  <2>7. Len(q.proposal) > 0 /\ q.proposal[1].text \in {"plus", "odd"}
    <3>1. Len(q.proposal) = 1 /\ q.proposal[1] = files[1]
      BY ONLY <2>1, <2>5
    <3> QED BY ONLY <2>1, <3>1
  <2>8. req[r].pc \in GatePcs /\ q.pc \in GatePcs /\ q.pc \notin {"ledger", "readRepair"}
    BY <1>6, <2>5 DEF GatePcs
  <2> QED BY <1>1, <2>2, <2>3, <2>4, <2>5, <2>6, <2>7, <2>8, GateKeeps
<1>7. CASE analysis.blocker # "none" /\ retry
  <2> HIDE DEF analysis, retry
  <2> QED BY <1>1, <1>4, <1>7, ModeKeeps
<1>8. CASE analysis.blocker # "none" /\ ~retry /\ req[r].pc = "ask"
  <2> HIDE DEF analysis, retry
  <2> QED BY <1>1, <1>4, <1>8, BlockKeeps DEF Blockers
<1>9. CASE analysis.blocker # "none" /\ ~retry /\ req[r].pc = "askRepair"
  <2> DEFINE q == [req[r] EXCEPT !.pc = "lastValidation"]
  <2> HIDE DEF analysis, retry
  <2>1. req' = [req EXCEPT ![r] = q]
    BY <1>4, <1>9 DEF Goto
  <2>2. q \in ReqType
    BY <1>1 DEF ReqType, Pcs
  <2>3. /\ q.pc = "lastValidation" /\ q.prompt = req[r].prompt
        /\ q.verified = req[r].verified /\ q.report = req[r].report /\ q.ran = req[r].ran
        /\ q.failedOnce = req[r].failedOnce /\ q.repaired = req[r].repaired
        /\ q.timedOut = req[r].timedOut
    BY <1>1 DEF ReqType
  <2> HIDE DEF q
  <2>4. GateInv(r, req[r], disk)
    BY RequestFacts DEF RequestInv
  <2> QED BY <1>1, <1>9, <2>1, <2>2, <2>3, <2>4, GateKeeps DEF GateInv, GatePcs
<1> HIDE DEF analysis, retry
<1> QED BY <1>1, <1>5, <1>6, <1>7, <1>8, <1>9

LEMMA HarmlessKeeps ==
    ASSUME SafeInv, NEW r \in Requests, Harmless(r)
    PROVE  SafeInv'
<1>1. /\ Kind(r) = "diagnostic" /\ UNCHANGED <<disk, faults>> /\ faults' \in 0..MaxFaults
      /\ req[r].ran \in {"none", "marker", "silent", "error"}
  BY RequestFacts DEF Harmless, ReqType
<1>2. req' = [req EXCEPT ![r] = Ended(r, "done", req[r].ran, Report("ok", "none", {}))]
  BY DEF Harmless, Return
<1>3. {} \in SUBSET Files /\ \A f \in {} : f \in FilesOf(Kind(r)) /\ Touched(disk, f)
  OBVIOUS
<1> QED BY <1>1, <1>2, <1>3, ReturnKeeps DEF Blockers

\* What a write does to the files.
Overwrites(r, f, text) ==
    /\ disk' \in [Files -> Content]
    /\ disk'[f].by = r /\ disk'[f].text = text
    /\ \A g \in Files \ {f} : disk'[g] = disk[g]
    /\ \A g \in Files : Touched(disk, g) \/ g = f => Touched(disk', g)
    /\ \A g \in Files : \/ disk'[g] = disk[g]
                        \/ disk'[g].by = r /\ disk'[g].text \in Allowed(g)
LEMMA FileWritten ==
    ASSUME NEW r \in Requests, disk \in [Files -> Content], NEW f \in Files,
           NEW text \in Allowed(f), disk' = [disk EXCEPT ![f] = File(text, r)]
    PROVE  Overwrites(r, f, text)
<1> DEFINE file == File(text, r)
<1>1. file \in Content /\ file.by = r /\ file.text = text
  BY AllowedIsText DEF File, Content
<1> HIDE DEF file
<1>2. /\ disk' \in [Files -> Content] /\ disk'[f] = file
      /\ \A g \in Files \ {f} : disk'[g] = disk[g]
  BY <1>1 DEF file
<1> QED BY <1>1, <1>2 DEF Touched, Overwrites

LEMMA WriteKeeps ==
    ASSUME SafeInv, NEW r \in Requests, Write(r)
    PROVE  SafeInv'
<1> DEFINE n == Len(req[r].proposal)
           entry == NextFile(r)
           q == AfterWrite(req[r])
<1>1. /\ req[r].pc = "write" /\ req[r].done < n /\ faults' \in 0..MaxFaults
      /\ req' = [req EXCEPT ![r] = q] /\ req[r] \in ReqType
      /\ disk' = [disk EXCEPT ![entry.path] = File(entry.text, r)]
  BY RequestFacts DEF Write, Writing
<1>2. /\ n \in 1..4 /\ req[r].done \in 0..n /\ DOMAIN req[r].proposal = 1..n
      /\ \A i \in 1..n : Writable(Kind(r), req[r].proposal[i])
      /\ \A i \in 1..req[r].done : Touched(disk, req[r].proposal[i].path)
      /\ Kind(r) = "gate" =>
            \A f \in GateFiles : \E i \in 1..n : req[r].proposal[i].path = f
  BY <1>1, RequestFacts, SMTT(30) DEF RequestInv, WriteInv, Kind
<1>3. /\ req[r].done + 1 \in 1..n /\ entry = req[r].proposal[req[r].done + 1]
  BY <1>1, <1>2 DEF NextFile
<1>4. entry.path \in Files /\ entry.text \in Allowed(entry.path)
  BY <1>2, <1>3, FilesOfKinds DEF Writable
<1>5. /\ disk' \in [Files -> Content]
      /\ \A g \in Files : Touched(disk, g) \/ g = entry.path => Touched(disk', g)
      /\ \A g \in Files : \/ disk'[g] = disk[g]
                          \/ disk'[g].by = r /\ disk'[g].text \in Allowed(g)
  <2> HIDE DEF entry
  <2>1. Overwrites(r, entry.path, entry.text)
    BY <1>1, <1>4, RequestFacts, FileWritten
  <2> QED BY <2>1 DEF Overwrites
<1>6. \A i \in 1..(req[r].done + 1) : Touched(disk', req[r].proposal[i].path)
  <2> SUFFICES ASSUME NEW i \in 1..(req[r].done + 1)
               PROVE  Touched(disk', req[r].proposal[i].path)
    OBVIOUS
  <2>1. i \in 1..n /\ req[r].proposal[i].path \in Files
    <3> HIDE DEF n
    <3>1. i \in 1..n
      BY <1>2, <1>3
    <3> QED BY <1>2, <3>1, FilesOfKinds DEF Writable
  <2>2. CASE i = req[r].done + 1
    BY <1>3, <1>5, <2>1, <2>2
  <2>3. CASE i \in 1..req[r].done
    <3>1. Touched(disk, req[r].proposal[i].path)
      BY <1>2, <2>3
    <3> QED BY <1>5, <2>1, <3>1
  <2>4. i \in 1..req[r].done \/ i = req[r].done + 1
    BY <1>2
  <2> QED BY <2>2, <2>3, <2>4
<1>7. /\ req[r].report = NoReport /\ NoReport.written = {} /\ NoReport.result = "none"
      /\ ~req[r].failedOnce /\ ~req[r].repaired
      /\ \A f \in req[r].verified : f \in FilesOf(Kind(r)) /\ Touched(disk', f)
  <2>1. \A f \in req[r].verified : f \in Files /\ f \in FilesOf(Kind(r)) /\ Touched(disk, f)
    BY RequestFacts DEF RequestInv, ReportInv, Kind
  <2>2. req[r].report = NoReport /\ ~req[r].failedOnce /\ ~req[r].repaired
    BY <1>1, RequestFacts DEF RequestInv, ReportInv, GateInv, GatePcs, Pcs
  <2> QED BY <1>5, <2>1, <2>2, IdleTyped
<1>8. /\ q \in ReqType /\ q.prompt = req[r].prompt /\ q.verified = req[r].verified
      /\ q.report = NoReport /\ ~q.failedOnce /\ ~q.repaired
      /\ \/ /\ Kind(r) # "gate" /\ q.pc = "read"
            /\ q.proposal = req[r].proposal /\ q.done = req[r].done + 1
         \/ /\ Kind(r) = "gate" /\ q.pc = "write" /\ req[r].done + 1 < n
            /\ q.proposal = req[r].proposal /\ q.done = req[r].done + 1
         \/ /\ Kind(r) = "gate" /\ q.pc = "firstValidation" /\ req[r].done + 1 = n
            /\ q.done = 0
  <2> DEFINE read == [req[r] EXCEPT !.done = req[r].done + 1, !.pc = "read"]
             next == [req[r] EXCEPT !.done = req[r].done + 1]
             over == [req[r] EXCEPT !.pc = "firstValidation", !.proposal = <<>>, !.done = 0]
  <2>1. /\ Kind(r) # "gate" => q = read
        /\ Kind(r) = "gate" /\ req[r].done + 1 < n => q = next
        /\ Kind(r) = "gate" /\ ~(req[r].done + 1 < n) => q = over
    BY DEF AfterWrite, Kind
  <2>2. req[r].done + 1 \in 0..4 /\ (~(req[r].done + 1 < n) => req[r].done + 1 = n)
    BY <1>2, <1>3
  <2>3. <<>> \in Seq(Entry) /\ {"read", "firstValidation"} \subseteq Pcs /\ 0 \in 0..4
    BY DEF Pcs
  <2>4. /\ read \in ReqType /\ read.prompt = req[r].prompt /\ read.verified = req[r].verified
        /\ read.report = req[r].report /\ read.failedOnce = req[r].failedOnce
        /\ read.repaired = req[r].repaired /\ read.pc = "read"
        /\ read.proposal = req[r].proposal /\ read.done = req[r].done + 1
    BY <1>1, <2>2, <2>3 DEF ReqType
  <2>5. /\ next \in ReqType /\ next.prompt = req[r].prompt /\ next.verified = req[r].verified
        /\ next.report = req[r].report /\ next.failedOnce = req[r].failedOnce
        /\ next.repaired = req[r].repaired /\ next.pc = "write"
        /\ next.proposal = req[r].proposal /\ next.done = req[r].done + 1
    BY <1>1, <2>2 DEF ReqType
  <2>6. /\ over \in ReqType /\ over.prompt = req[r].prompt /\ over.verified = req[r].verified
        /\ over.report = req[r].report /\ over.failedOnce = req[r].failedOnce
        /\ over.repaired = req[r].repaired /\ over.pc = "firstValidation" /\ over.done = 0
    BY <1>1, <2>3 DEF ReqType
  <2> HIDE DEF read, next, over, q, n
  <2>7. CASE Kind(r) # "gate"
    BY <1>7, <2>1, <2>4, <2>7
  <2>8. CASE Kind(r) = "gate" /\ req[r].done + 1 < n
    BY <1>7, <2>1, <2>5, <2>8
  <2>9. CASE Kind(r) = "gate" /\ ~(req[r].done + 1 < n)
    BY <1>7, <2>1, <2>2, <2>6, <2>9
  <2> QED BY <2>7, <2>8, <2>9
<1> HIDE DEF q, entry
<1>9. WriteInv(q, disk')
  <2>1. CASE q.pc \in {"write", "read"}
    <3>1. /\ q.proposal = req[r].proposal /\ q.done = req[r].done + 1
          /\ q.pc = "write" => q.done < n
          /\ q.pc = "read" => Kind(r) # "gate"
      BY <1>8, <2>1
    <3>2. q.done \in 0..n /\ q.done > 0
      BY <1>2, <1>3, <3>1
    <3> QED BY <1>2, <1>6, <1>8, <2>1, <3>1, <3>2 DEF WriteInv, Kind
  <2>2. CASE q.pc = "firstValidation"
    BY <2>2 DEF WriteInv
  <2> QED BY <1>8, <2>1, <2>2
<1>10. ReportInv(q, disk')
  <2>1. q.pc \in GatePcs => Kind(r) = "gate" /\ \A f \in GateFiles : Touched(disk', f)
    BY <1>2, <1>6, <1>8 DEF GatePcs
  <2> QED BY <1>7, <1>8, <2>1 DEF ReportInv, Kind
<1>11. GateInv(r, q, disk')
  BY <1>7, <1>8 DEF GateInv
<1>12. RequestInv(r, q, disk')
  BY <1>8, <1>9, <1>10, <1>11 DEF RequestInv
<1>13. Moves(r, q)
  BY <1>1, <1>5, <1>8, <1>12 DEF Moves
<1> QED BY <1>1, <1>13, MovesKeeps

LEMMA WriteFailsKeeps ==
    ASSUME SafeInv, NEW r \in Requests, WriteFails(r)
    PROVE  SafeInv'
<1>1. faults' \in 0..MaxFaults
  BY RequestFacts, SidecarAssumption DEF WriteFails
<1>2. Reject(r) \/ Block(r, "notVerified")
  BY DEF WriteFails, WriteFailed
<1> QED BY <1>1, <1>2, BlockKeeps, RejectKeeps DEF Blockers, WriteFails

LEMMA ReadKeeps ==
    ASSUME SafeInv, NEW r \in Requests, Read(r)
    PROVE  SafeInv'
<1> DEFINE n == Len(req[r].proposal)
           file == req[r].proposal[req[r].done]
           verified == IF disk[file.path].text = file.text
                       THEN req[r].verified \cup {file.path} ELSE req[r].verified
<1>1. /\ req[r].pc = "read" /\ req[r] \in ReqType
      /\ UNCHANGED <<disk, faults>> /\ faults' \in 0..MaxFaults
  BY RequestFacts DEF Read
<1>2. /\ n \in 1..4 /\ req[r].done \in 1..n /\ DOMAIN req[r].proposal = 1..n
      /\ \A i \in 1..n : Writable(Kind(r), req[r].proposal[i])
      /\ \A i \in 1..req[r].done : Touched(disk, req[r].proposal[i].path)
      /\ Kind(r) # "gate"
  BY <1>1, RequestFacts DEF RequestInv, WriteInv, Kind
<1>3. file.path \in FilesOf(Kind(r)) /\ Touched(disk, file.path)
  <2>1. req[r].done \in 1..req[r].done
    BY <1>2
  <2> QED BY <1>2, <2>1 DEF Writable
<1>4. /\ verified \in SUBSET Files
      /\ \A f \in verified : f \in FilesOf(Kind(r)) /\ Touched(disk, f)
  <2>1. /\ req[r].verified \in SUBSET Files
        /\ \A f \in req[r].verified : f \in FilesOf(Kind(r)) /\ Touched(disk, f)
    BY RequestFacts DEF RequestInv, ReportInv, ReqType, Kind
  <2>2. verified = req[r].verified \cup {file.path} \/ verified = req[r].verified
    OBVIOUS
  <2>3. file.path \in Files
    BY <1>3, FilesOfKinds
  <2> HIDE DEF verified, file
  <2> QED BY <1>3, <2>1, <2>2, <2>3
<1>5. /\ req[r].report = NoReport /\ NoReport.written = {} /\ NoReport.result = "none"
      /\ ~req[r].failedOnce /\ ~req[r].repaired
  BY <1>1, RequestFacts, IdleTyped DEF RequestInv, ReportInv, GateInv, GatePcs, Pcs
<1>6. Kind(r) \in {"plain", "structured"}
  BY <1>2, <1>3, RequestFacts, FilesOfKinds DEF Kind, PromptType, Kinds
<1>7. \/ /\ req[r].done # n
         /\ req' = [req EXCEPT ![r].verified = verified, ![r].pc = "write"]
      \/ Return(r, "blocked", "notVerified", verified)
      \/ Return(r, "ok", "none", verified)
      \/ /\ Kind(r) # "plain"
         /\ req' = [req EXCEPT ![r] = [@ EXCEPT !.verified = verified,
                                       !.pc = "validate", !.proposal = <<>>, !.done = 0]]
  BY DEF Read
<1> HIDE DEF verified, file
<1>8. CASE /\ req[r].done # n
           /\ req' = [req EXCEPT ![r].verified = verified, ![r].pc = "write"]
  <2> DEFINE q == [req[r] EXCEPT !.verified = verified, !.pc = "write"]
  <2>1. req' = [req EXCEPT ![r] = q]
    BY <1>8
  <2>2. /\ q \in ReqType /\ q.pc = "write" /\ q.prompt = req[r].prompt
        /\ q.verified = verified /\ q.report = req[r].report
        /\ q.proposal = req[r].proposal /\ q.done = req[r].done
        /\ q.failedOnce = req[r].failedOnce /\ q.repaired = req[r].repaired
    BY <1>1, <1>4 DEF ReqType, Pcs
  <2> HIDE DEF q
  <2>3. req[r].done \in 0..n /\ req[r].done < n
    BY <1>2, <1>8
  <2>4. WriteInv(q, disk)
    BY <1>2, <2>2, <2>3 DEF WriteInv, Kind
  <2>5. ReportInv(q, disk)
    BY <1>4, <1>5, <2>2 DEF ReportInv, GatePcs, Kind
  <2>6. GateInv(r, q, disk)
    BY <1>5, <2>2 DEF GateInv
  <2> QED BY <1>1, <2>1, <2>2, <2>4, <2>5, <2>6, QuietKeeps DEF RequestInv
<1>9. CASE \/ Return(r, "blocked", "notVerified", verified)
           \/ Return(r, "ok", "none", verified)
  <2>1. PICK result \in {"ok", "blocked"}, blocker \in Blockers :
            Return(r, result, blocker, verified)
    BY <1>9 DEF Blockers
  <2>2. req' = [req EXCEPT ![r] = Ended(r, "done", req[r].ran,
                                        Report(result, blocker, verified))]
    BY <2>1 DEF Return
  <2>3. req[r].ran \in {"none", "marker", "silent", "error"}
    BY <1>1 DEF ReqType
  <2> QED BY <1>1, <1>4, <1>6, <2>2, <2>3, ReturnKeeps
<1>10. CASE /\ Kind(r) # "plain"
            /\ req' = [req EXCEPT ![r] = [@ EXCEPT !.verified = verified,
                                          !.pc = "validate", !.proposal = <<>>, !.done = 0]]
  <2> DEFINE q == [req[r] EXCEPT !.verified = verified, !.pc = "validate",
                                 !.proposal = <<>>, !.done = 0]
  <2>1. req' = [req EXCEPT ![r] = q]
    BY <1>10
  <2>2. <<>> \in Seq(Entry) /\ 0 \in 0..4 /\ "validate" \in Pcs
    BY DEF Pcs
  <2>3. /\ q \in ReqType /\ q.pc = "validate" /\ q.prompt = req[r].prompt
        /\ q.verified = verified /\ q.report = req[r].report
        /\ q.failedOnce = req[r].failedOnce /\ q.repaired = req[r].repaired
    BY <1>1, <1>4, <2>2 DEF ReqType
  <2> HIDE DEF q
  <2>4. WriteInv(q, disk)
    BY <1>6, <1>10, <2>3 DEF WriteInv, Kind
  <2>5. ReportInv(q, disk)
    BY <1>4, <1>5, <2>3 DEF ReportInv, GatePcs, Kind
  <2>6. GateInv(r, q, disk)
    BY <1>5, <2>3 DEF GateInv
  <2> QED BY <1>1, <2>1, <2>3, <2>4, <2>5, <2>6, QuietKeeps DEF RequestInv
<1> QED BY <1>7, <1>8, <1>9, <1>10

LEMMA StructuredValidationKeeps ==
    ASSUME SafeInv, NEW r \in Requests, StructuredValidation(r)
    PROVE  SafeInv'
<1>1. Kind(r) = "structured" /\ UNCHANGED disk
  BY RequestFacts DEF StructuredValidation, RequestInv, WriteInv, Kind
<1>2. PICK verdict \in {"marker", "silent", "error"}, timedOut \in BOOLEAN :
        /\ Validated("sum.test", "sum.ts", verdict, timedOut)
        /\ req' = [req EXCEPT ![r] = Ended(r, "done", verdict,
                CASE verdict = "marker" -> Report("ok", "none", req[r].verified)
                  [] verdict = "silent" -> Report("blocked", "validationFailed", req[r].verified)
                  [] verdict = "error" -> Report("blocked", "notVerified", {}))]
  BY DEF StructuredValidation
<1>3. faults' \in 0..MaxFaults
  BY <1>2, RequestFacts, SidecarAssumption DEF Validated
<1>4. \E result \in {"ok", "blocked"}, blocker \in Blockers, written \in {req[r].verified, {}} :
        req' = [req EXCEPT ![r] = Ended(r, "done", verdict, Report(result, blocker, written))]
  <2>1. {"none", "validationFailed", "notVerified"} \subseteq Blockers
    BY DEF Blockers
  <2>2. CASE verdict = "marker"
    BY <1>2, <2>1, <2>2
  <2>3. CASE verdict = "silent"
    BY <1>2, <2>1, <2>3
  <2>4. CASE verdict = "error"
    BY <1>2, <2>1, <2>4
  <2> QED BY <2>2, <2>3, <2>4
<1>5. PICK result \in {"ok", "blocked"}, blocker \in Blockers, written \in {req[r].verified, {}} :
        req' = [req EXCEPT ![r] = Ended(r, "done", verdict, Report(result, blocker, written))]
  BY <1>4
<1>6. /\ written \in SUBSET Files
      /\ \A f \in written : f \in FilesOf(Kind(r)) /\ Touched(disk, f)
  BY RequestFacts DEF RequestInv, ReportInv, Kind
<1>7. verdict \in {"none", "marker", "silent", "error"} /\ (result = "ok" => Kind(r) # "gate")
  BY <1>1
<1> QED BY <1>1, <1>3, <1>5, <1>6, <1>7, ReturnKeeps

\* What a validation of the gate tells of the test it ran.
LEMMA VerdictTells ==
    ASSUME SafeInv, NEW verdict \in {"marker", "silent", "error"}, NEW timedOut \in BOOLEAN,
           Validated("safe.test", "safe.ts", verdict, timedOut)
    PROVE  /\ faults' \in 0..MaxFaults
           /\ \A r \in Requests :
                /\ verdict = "error" /\ ~timedOut =>
                        Wrote(r, disk, "safe.test", TestTexts \ {"lax", "silent"})
                /\ verdict = "marker" => Wrote(r, disk, "safe.test", {"lax", "checks"})
<1>1. faults' \in 0..MaxFaults
  BY SidecarAssumption DEF SafeInv, Validated
<1>2. ASSUME NEW r \in Requests, disk["safe.test"].by = r
      PROVE  disk["safe.test"].text \in TestTexts
  <2>1. "safe.test" \in Files /\ Touched(disk, "safe.test")
    BY <1>2 DEF Files, GateFiles, Touched
  <2> QED BY <2>1, AllowedTexts DEF SafeInv, DiskInv, Removed
<1>3. verdict = "error" /\ ~timedOut => disk["safe.test"].text \notin {"lax", "silent"}
  BY DEF Validated, Verdict
<1>4. verdict = "marker" => disk["safe.test"].text \in {"lax", "checks"}
  BY DEF Validated, Verdict
<1> QED BY <1>1, <1>2, <1>3, <1>4 DEF Wrote

LEMMA FirstValidationKeeps ==
    ASSUME SafeInv, NEW r \in Requests, FirstValidation(r)
    PROVE  SafeInv'
<1>1. /\ req[r].pc = "firstValidation" /\ req[r].pc \in GatePcs
      /\ req[r] \in ReqType /\ UNCHANGED disk
  BY RequestFacts DEF FirstValidation, GatePcs
<1>2. PICK verdict \in {"marker", "silent", "error"}, timedOut \in BOOLEAN :
        /\ Validated("safe.test", "safe.ts", verdict, timedOut)
        /\ req' = [req EXCEPT ![r] = [@ EXCEPT !.pc = "askRepair", !.mode = "openai",
                              !.failedOnce = verdict = "error", !.timedOut = timedOut]]
  BY DEF FirstValidation
<1> DEFINE failed == verdict = "error"
           q == [req[r] EXCEPT !.pc = "askRepair", !.mode = "openai",
                               !.failedOnce = failed, !.timedOut = timedOut]
<1>3. req' = [req EXCEPT ![r] = q]
  BY <1>2
<1>4. failed \in BOOLEAN /\ (failed <=> verdict = "error")
  OBVIOUS
<1> HIDE DEF failed
<1>5. /\ q \in ReqType /\ q.pc = "askRepair" /\ q.prompt = req[r].prompt
      /\ q.verified = req[r].verified /\ q.report = req[r].report
      /\ q.failedOnce = failed /\ q.timedOut = timedOut /\ q.repaired = req[r].repaired
  BY <1>1, <1>4 DEF ReqType, Pcs
<1> HIDE DEF q
<1>6. /\ q.failedOnce /\ ~q.timedOut =>
            Wrote(r, disk, "safe.test", TestTexts \ {"lax", "silent"})
      /\ faults' \in 0..MaxFaults
  BY <1>2, <1>4, <1>5, VerdictTells
<1>7. q.repaired => Wrote(r, disk, "safe.ts", {"plus", "odd"})
  BY <1>5, RequestFacts DEF RequestInv, GateInv
<1>8. q.pc \in GatePcs /\ q.pc \notin {"repair", "readRepair", "ledger"}
  BY <1>5 DEF GatePcs
<1> QED BY <1>1, <1>3, <1>5, <1>6, <1>7, <1>8, GateKeeps

LEMMA RepairKeeps ==
    ASSUME SafeInv, NEW r \in Requests, Repair(r)
    PROVE  SafeInv'
<1> DEFINE q == [req[r] EXCEPT !.pc = "readRepair"]
           text == req[r].proposal[1].text
<1>1. /\ req[r].pc = "repair" /\ req[r] \in ReqType /\ faults' \in 0..MaxFaults
      /\ req' = [req EXCEPT ![r] = q] /\ disk' = [disk EXCEPT !["safe.ts"] = File(text, r)]
  BY RequestFacts DEF Repair, Goto
<1>2. /\ Len(req[r].proposal) > 0 /\ text \in {"plus", "odd"} /\ Kind(r) = "gate"
      /\ \A f \in GateFiles : Touched(disk, f)
  BY <1>1, RequestFacts DEF RequestInv, WriteInv, ReportInv, GatePcs, Kind
<1>3. /\ text \in Allowed("safe.ts") /\ "safe.ts" \in Files /\ "safe.test" \in Files
      /\ GateFiles \subseteq Files
  BY <1>2, AllowedTexts DEF Files, GateFiles
<1> HIDE DEF text
<1>4. /\ disk' \in [Files -> Content]
      /\ disk'["safe.ts"].by = r /\ disk'["safe.ts"].text = text
      /\ disk'["safe.test"] = disk["safe.test"]
      /\ \A g \in Files : Touched(disk, g) => Touched(disk', g)
      /\ \A g \in Files : \/ disk'[g] = disk[g]
                          \/ disk'[g].by = r /\ disk'[g].text \in Allowed(g)
  <2>1. disk \in [Files -> Content]
    BY RequestFacts
  <2>2. Overwrites(r, "safe.ts", text)
    BY <1>1, <1>3, <2>1, FileWritten
  <2> QED BY <1>3, <2>2 DEF Overwrites
<1>5. /\ q \in ReqType /\ q.pc = "readRepair" /\ q.prompt = req[r].prompt
      /\ q.verified = req[r].verified /\ q.report = req[r].report
      /\ q.proposal = req[r].proposal /\ q.failedOnce = req[r].failedOnce
      /\ q.timedOut = req[r].timedOut
  BY <1>1 DEF ReqType, Pcs
<1> HIDE DEF q
<1>6. WriteInv(q, disk')
  BY <1>2, <1>5 DEF WriteInv, text
<1>7. ReportInv(q, disk')
  <2>1. /\ req[r].report = NoReport
        /\ \A f \in req[r].verified \cup req[r].report.written :
                f \in Files /\ f \in FilesOf(Kind(r)) /\ Touched(disk, f)
    BY <1>1, RequestFacts, FilesOfKinds DEF RequestInv, ReportInv, Kind
  <2> QED BY <1>2, <1>3, <1>4, <1>5, <2>1 DEF ReportInv, Kind
<1>8. GateInv(r, q, disk')
  <2>1. q.failedOnce /\ ~q.timedOut =>
            Wrote(r, disk', "safe.test", TestTexts \ {"lax", "silent"})
    BY <1>4, <1>5, RequestFacts DEF RequestInv, GateInv, Wrote
  <2>2. Wrote(r, disk', "safe.ts", {"plus", "odd"})
    BY <1>2, <1>4 DEF Wrote
  <2>3. q.report.result = "none"
    BY <1>1, <1>5, RequestFacts, IdleTyped DEF RequestInv, ReportInv
  <2> QED BY <1>5, <2>1, <2>2, <2>3 DEF GateInv, GatePcs
<1>9. Moves(r, q)
  BY <1>1, <1>4, <1>5, <1>6, <1>7, <1>8 DEF Moves, RequestInv
<1> QED BY <1>1, <1>9, MovesKeeps

LEMMA ReadRepairKeeps ==
    ASSUME SafeInv, NEW r \in Requests, ReadRepair(r)
    PROVE  SafeInv'
<1> DEFINE same == disk["safe.ts"].text = req[r].proposal[1].text
           q == [req[r] EXCEPT !.pc = "lastValidation", !.proposal = <<>>, !.repaired = same]
<1>1. /\ req[r].pc = "readRepair" /\ req[r].pc \in GatePcs /\ req[r] \in ReqType
      /\ UNCHANGED disk /\ faults' \in 0..MaxFaults /\ req' = [req EXCEPT ![r] = q]
  BY RequestFacts DEF ReadRepair, GatePcs
<1>2. same \in BOOLEAN /\ <<>> \in Seq(Entry)
  OBVIOUS
<1> HIDE DEF same
<1>3. /\ q \in ReqType /\ q.pc = "lastValidation" /\ q.prompt = req[r].prompt
      /\ q.verified = req[r].verified /\ q.report = req[r].report
      /\ q.failedOnce = req[r].failedOnce /\ q.timedOut = req[r].timedOut
  BY <1>1, <1>2 DEF ReqType, Pcs
<1> HIDE DEF q
<1>4. /\ Wrote(r, disk, "safe.ts", {"plus", "odd"})
      /\ q.failedOnce /\ ~q.timedOut =>
            Wrote(r, disk, "safe.test", TestTexts \ {"lax", "silent"})
  BY <1>1, <1>3, RequestFacts DEF RequestInv, GateInv
<1>5. q.pc \in GatePcs /\ q.pc \notin {"repair", "readRepair", "ledger"}
  BY <1>3 DEF GatePcs
<1> QED BY <1>1, <1>3, <1>4, <1>5, GateKeeps

LEMMA LastValidationKeeps ==
    ASSUME SafeInv, NEW r \in Requests, LastValidation(r)
    PROVE  SafeInv'
<1>1. /\ req[r].pc = "lastValidation" /\ req[r].pc \in GatePcs
      /\ req[r] \in ReqType /\ UNCHANGED disk
  BY RequestFacts DEF LastValidation, GatePcs
<1>2. PICK verdict \in {"marker", "silent", "error"}, timedOut \in BOOLEAN :
        /\ Validated("safe.test", "safe.ts", verdict, timedOut)
        /\ req' = [req EXCEPT ![r].pc = "ledger", ![r].ran = verdict]
  BY DEF LastValidation
<1> DEFINE q == [req[r] EXCEPT !.pc = "ledger", !.ran = verdict]
<1>3. req' = [req EXCEPT ![r] = q]
  BY <1>2
<1>4. /\ q \in ReqType /\ q.pc = "ledger" /\ q.prompt = req[r].prompt /\ q.ran = verdict
      /\ q.verified = req[r].verified /\ q.report = req[r].report
      /\ q.failedOnce = req[r].failedOnce /\ q.timedOut = req[r].timedOut
      /\ q.repaired = req[r].repaired
  BY <1>1 DEF ReqType, Pcs
<1> HIDE DEF q
<1>5. /\ q.failedOnce /\ ~q.timedOut =>
            Wrote(r, disk, "safe.test", TestTexts \ {"lax", "silent"})
      /\ q.repaired => Wrote(r, disk, "safe.ts", {"plus", "odd"})
  BY <1>4, RequestFacts DEF RequestInv, GateInv
<1>6. /\ q.ran = "marker" => Wrote(r, disk, "safe.test", {"lax", "checks"})
      /\ faults' \in 0..MaxFaults
  BY <1>2, <1>4, VerdictTells
<1>7. q.pc \in GatePcs /\ q.pc \notin {"repair", "readRepair"}
  BY <1>4 DEF GatePcs
<1> QED BY <1>1, <1>3, <1>4, <1>5, <1>6, <1>7, GateKeeps

LEMMA LedgerKeeps ==
    ASSUME SafeInv, NEW r \in Requests, Ledger(r)
    PROVE  SafeInv'
<1> DEFINE text == IF req[r].ran = "marker" THEN "passed" ELSE "notPassed"
           result == IF GateOk(r) THEN "ok" ELSE "blocked"
           report == Report(result, "none", GateFiles)
           q == Ended(r, "done", req[r].ran, report)
<1>1. /\ req[r].pc = "ledger" /\ req[r] \in ReqType /\ faults' \in 0..MaxFaults
      /\ req' = [req EXCEPT ![r] = q] /\ disk' = [disk EXCEPT !["ledger"] = File(text, r)]
  BY RequestFacts DEF Ledger, Return
<1>2. Kind(r) = "gate" /\ \A f \in GateFiles : Touched(disk, f)
  BY <1>1, RequestFacts DEF RequestInv, ReportInv, GatePcs, Kind
<1>3. /\ text \in Allowed("ledger") /\ GateFiles \subseteq Files
      /\ "safe.ts" \in Files /\ "safe.test" \in Files /\ "ledger" \in Files
  BY AllowedTexts DEF Files, GateFiles
<1>4. result = "ok" =>
        /\ text = "passed"
        /\ req[r].timedOut \/ Wrote(r, disk, "safe.test", {"checks"})
        /\ Wrote(r, disk, "safe.ts", {"plus", "odd"})
  <2> SUFFICES ASSUME GateOk(r)
               PROVE  /\ req[r].timedOut \/ Wrote(r, disk, "safe.test", {"checks"})
                      /\ Wrote(r, disk, "safe.ts", {"plus", "odd"})
    BY DEF GateOk
  <2>1. req[r].failedOnce /\ req[r].repaired /\ req[r].ran = "marker"
    BY DEF GateOk
  <2>2. Wrote(r, disk, "safe.ts", {"plus", "odd"}) /\ Wrote(r, disk, "safe.test", {"lax", "checks"})
    BY <1>1, <2>1, RequestFacts DEF RequestInv, GateInv
  <2>3. ~req[r].timedOut => Wrote(r, disk, "safe.test", TestTexts \ {"lax", "silent"})
    BY <2>1, RequestFacts DEF RequestInv, GateInv
  <2> QED BY <2>2, <2>3 DEF Wrote
<1>5. result \in {"ok", "blocked"}
  OBVIOUS
<1> HIDE DEF text, result
<1>6. /\ disk' \in [Files -> Content] /\ disk'["ledger"].text = text
      /\ disk'["safe.ts"] = disk["safe.ts"] /\ disk'["safe.test"] = disk["safe.test"]
      /\ \A g \in Files : Touched(disk, g) => Touched(disk', g)
      /\ \A g \in Files : \/ disk'[g] = disk[g]
                          \/ disk'[g].by = r /\ disk'[g].text \in Allowed(g)
  <2>1. disk \in [Files -> Content]
    BY RequestFacts
  <2>2. "ledger" \in Files /\ text \in Allowed("ledger")
    BY <1>3
  <2>3. disk' = [disk EXCEPT !["ledger"] = File(text, r)]
    BY <1>1
  <2>4. Overwrites(r, "ledger", text)
    BY <2>1, <2>2, <2>3, FileWritten
  <2> QED BY <1>3, <2>4 DEF Overwrites
<1>7. report \in ReportType /\ report.written = GateFiles /\ report.result = result
  BY <1>3, <1>5 DEF Report, ReportType
<1> HIDE DEF report
<1>8. /\ \A f \in report.written : f \in FilesOf(Kind(r)) /\ Touched(disk', f)
      /\ report.result = "ok" =>
            /\ req[r].timedOut \/ Wrote(r, disk', "safe.test", {"checks"})
            /\ Wrote(r, disk', "ledger", {"passed"})
            /\ Wrote(r, disk', "safe.ts", {"plus", "odd"})
  <2>1. \A f \in report.written : f \in FilesOf(Kind(r)) /\ Touched(disk', f)
    BY <1>2, <1>3, <1>6, <1>7 DEF FilesOf
  <2> QED BY <1>4, <1>6, <1>7, <2>1 DEF Wrote
<1>9. RequestInv(r, q, disk') /\ q.prompt.kind = Kind(r)
  <2>1. req[r].ran \in {"none", "marker", "silent", "error"}
    BY <1>1 DEF ReqType
  <2> QED BY <1>1, <1>7, <1>8, <2>1, EndedInv
<1> HIDE DEF q
<1>10. Moves(r, q)
  BY <1>1, <1>6, <1>9 DEF Moves, Kind
<1> QED BY <1>1, <1>10, MovesKeeps
----------------------------------------------------------------------------
LEMMA InitSafe == Init => SafeInv
<1> SUFFICES ASSUME Init PROVE SafeInv
  OBVIOUS
<1>1. PICK text \in Found :
        disk = [f \in Files |-> File(IF f = "proof.txt" THEN text ELSE "absent", "others")]
  BY DEF Init
<1>2. \A f \in Files : disk[f].by = "others" /\ disk[f] \in Content
  BY <1>1, SidecarAssumption DEF File, Content, Texts
<1>3. DiskInv(disk, req)
  BY <1>1, <1>2, SidecarAssumption DEF DiskInv, Touched
<1>4. ASSUME NEW r \in Requests PROVE req[r] = Idle /\ RequestInv(r, req[r], disk)
  <2>1. req[r] = Idle
    BY DEF Init
  <2>2. WriteInv(Idle, disk) /\ ReportInv(Idle, disk) /\ GateInv(r, Idle, disk)
    <3>1. Idle.pc = "idle"
      BY DEF Idle
    <3> QED BY <3>1, IdleTyped DEF WriteInv, ReportInv, GateInv, GatePcs
  <2> QED BY <2>1, <2>2, IdleTyped DEF RequestInv
<1>5. req \in [Requests -> ReqType] /\ faults \in 0..MaxFaults
  BY IdleTyped, SidecarAssumption DEF Init
<1> QED BY <1>3, <1>4, <1>5 DEF SafeInv

LEMMA StepKeeps == SafeInv /\ [Next]_vars => SafeInv'
<1> SUFFICES ASSUME SafeInv, [Next]_vars PROVE SafeInv'
  OBVIOUS
<1>1. CASE UNCHANGED vars
  BY <1>1 DEF vars, SafeInv
<1>2. ASSUME NEW r \in Requests, Begin(r) PROVE SafeInv'
  BY <1>2, BeginKeeps
<1>3. ASSUME NEW r \in Requests, Host(r) PROVE SafeInv'
  BY <1>3, HealthKeeps, AskEndsKeeps, CleanupKeeps, WriteKeeps, WriteFailsKeeps, ReadKeeps,
     StructuredValidationKeeps, FirstValidationKeeps, RepairKeeps, ReadRepairKeeps,
     LastValidationKeeps, LedgerKeeps DEF Host
<1>4. ASSUME NEW r \in Requests, Sidecar(r) PROVE SafeInv'
  BY <1>4, AskEndsKeeps, HarmlessKeeps, AnsweredKeeps DEF Sidecar
<1> QED BY <1>1, <1>2, <1>3, <1>4 DEF Next

LEMMA SafetyCorrect == Spec => []SafeInv
<1> QED BY InitSafe, StepKeeps, PTL DEF Spec

\* Every variable holds a value of its type, whatever the sidecar answers.
THEOREM ProofsTyped == Spec => []TypeOK
<1>1. SafeInv => TypeOK
  BY DEF SafeInv, DiskInv, TypeOK, ReqType
<1> QED BY <1>1, SafetyCorrect, PTL

\* A file of a proof only ever holds what that proof may write there, whatever the sidecar
\* answered in which form, and whatever other requests wrote and removed meanwhile.
THEOREM OnlyAllowed == Spec => []OnlyAllowedIsWritten
<1>1. SafeInv => OnlyAllowedIsWritten
  <2> SUFFICES ASSUME SafeInv, NEW f \in Files, disk[f].by # "others"
               PROVE  disk[f].text \in Allowed(f) \cup {"absent"}
    BY DEF OnlyAllowedIsWritten
  <2>1. Touched(disk, f)
    BY DEF SafeInv, DiskInv, Content, Touched
  <2> QED BY <2>1 DEF SafeInv, DiskInv, Removed
<1> QED BY <1>1, SafetyCorrect, PTL

\* What a report lists as written was written by a request of the workspace, and no request
\* but a later one has removed it.
THEOREM ReportedThere == Spec => []ReportedIsThere
<1>1. SafeInv => ReportedIsThere
  <2> SUFFICES ASSUME SafeInv, NEW r \in Requests, NEW f \in req[r].report.written
               PROVE  Intact(r, f) /\ (disk[f].by = r => disk[f].text # "absent")
    BY DEF ReportedIsThere
  <2>1. f \in FilesOf(Kind(r)) /\ Touched(disk, f) /\ f \in Files
    BY FilesOfKinds DEF SafeInv, RequestInv, ReportInv, Kind
  <2>2. Intact(r, f)
    BY <2>1 DEF Touched, Intact
  <2>3. ASSUME disk[f].by = r PROVE disk[f].text # "absent"
    <3>1. CASE disk[f].text \in Allowed(f)
      BY <2>1, <3>1, AllowedIsText
    <3>2. CASE Removed(disk[f], f, req)
      <4>1. Kind(r) = "structured" /\ f = "proof.txt"
        BY <2>3, <3>2 DEF Removed, Kind
      <4> QED BY <2>1, <4>1, FilesOfKinds
    <3> QED BY <2>1, <3>1, <3>2 DEF SafeInv, DiskInv
  <2> QED BY <2>2, <2>3
<1> QED BY <1>1, SafetyCorrect, PTL

\* A gate that succeeded has shown that its test tells the repaired file from the broken
\* one, and its ledger says so: unless the first validation only failed because it was
\* killed, and as long as no other request touches the files.
THEOREM GateRepaired == Spec => []GateOkMeansRepaired
<1>1. SafeInv => GateOkMeansRepaired
  BY DEF SafeInv, RequestInv, GateInv, GateOkMeansRepaired, Wrote, Kind
<1> QED BY <1>1, SafetyCorrect, PTL
----------------------------------------------------------------------------
(* A request only takes so many steps *)

\* The endpoints it can still be referred to, and the steps ahead of a request.
ModesLeft(mode) == CASE mode = "chat" -> 2 [] mode = "openai" -> 1 [] OTHER -> 0
FilesLeft(q) == 2 * (4 - q.done)
StepsLeft(q) ==
    CASE q.pc = "idle" -> 30
      [] q.pc = "health" -> 29
      [] q.pc = "cleanup" -> 28
      [] q.pc = "ask" -> 24 + ModesLeft(q.mode)
      [] q.pc = "write" -> 14 + FilesLeft(q)
      [] q.pc = "read" -> 15 + FilesLeft(q)
      [] q.pc = "validate" -> 13
      [] q.pc = "firstValidation" -> 12
      [] q.pc = "askRepair" -> 9 + ModesLeft(q.mode)
      [] q.pc = "repair" -> 8
      [] q.pc = "readRepair" -> 7
      [] q.pc = "lastValidation" -> 6
      [] q.pc = "ledger" -> 5
      [] q.pc = "unreachable" -> 4
      [] OTHER -> 0

Step(r) == Begin(r) \/ Host(r) \/ Sidecar(r)
\* Every step of a request, of the host or of the sidecar, leaves fewer ahead of it, and
\* none adds to those of another: no answer makes it ask again for ever, and what others
\* write to the same files sends nobody back.
RequestsAdvance ==
    [][\A r \in Requests :
            /\ Step(r) => StepsLeft(req'[r]) \in Nat /\ StepsLeft(req'[r]) < StepsLeft(req[r])
            /\ Step(r) \/ req'[r] = req[r]]_vars

LEMMA ModesLeftValues ==
    /\ ModesLeft("chat") = 2 /\ ModesLeft("openai") = 1 /\ ModesLeft("agent") = 0
    /\ \A mode : ModesLeft(mode) \in 0..2
  BY DEF ModesLeft

LEMMA StepsLeftValues ==
    ASSUME NEW q
    PROVE  /\ q.pc = "idle" => StepsLeft(q) = 30
           /\ q.pc = "health" => StepsLeft(q) = 29
           /\ q.pc = "cleanup" => StepsLeft(q) = 28
           /\ q.pc = "ask" => StepsLeft(q) = 24 + ModesLeft(q.mode)
           /\ q.pc = "write" => StepsLeft(q) = 14 + FilesLeft(q)
           /\ q.pc = "read" => StepsLeft(q) = 15 + FilesLeft(q)
           /\ q.pc = "validate" => StepsLeft(q) = 13
           /\ q.pc = "firstValidation" => StepsLeft(q) = 12
           /\ q.pc = "askRepair" => StepsLeft(q) = 9 + ModesLeft(q.mode)
           /\ q.pc = "repair" => StepsLeft(q) = 8
           /\ q.pc = "readRepair" => StepsLeft(q) = 7
           /\ q.pc = "lastValidation" => StepsLeft(q) = 6
           /\ q.pc = "ledger" => StepsLeft(q) = 5
           /\ q.pc = "unreachable" => StepsLeft(q) = 4
           /\ q.pc \in {"done", "rejected"} => StepsLeft(q) = 0
  BY DEF StepsLeft

LEMMA StepsLeftPositive ==
    ASSUME NEW q \in ReqType, q.pc \notin {"done", "rejected"}
    PROVE  StepsLeft(q) \in Nat /\ StepsLeft(q) > 0
<1>1. FilesLeft(q) \in Nat /\ ModesLeft(q.mode) \in Nat
  BY ModesLeftValues DEF FilesLeft, ReqType
<1>2. q.pc \in Pcs \ {"done", "rejected"}
  BY DEF ReqType
<1> QED BY <1>1, <1>2, StepsLeftValues DEF Pcs

\* A step of r, and only of r, that leaves fewer ahead of it.
Advances(r) ==
    /\ \A s \in Requests \ {r} : req'[s] = req[s]
    /\ StepsLeft(req'[r]) \in Nat /\ StepsLeft(req'[r]) < StepsLeft(req[r])

LEMMA GoAdvances ==
    ASSUME SafeInv, NEW r \in Requests, NEW q, req' = [req EXCEPT ![r] = q],
           StepsLeft(q) \in Nat, StepsLeft(q) < StepsLeft(req[r])
    PROVE  Advances(r)
<1>1. req'[r] = q /\ \A s \in Requests \ {r} : req'[s] = req[s]
  BY DEF SafeInv
<1> QED BY <1>1 DEF Advances

\* The end of a request, from wherever it was.
LEMMA EndAdvances ==
    ASSUME SafeInv, NEW r \in Requests, req[r].pc \notin {"done", "rejected"},
           NEW pc \in {"done", "rejected"}, NEW ran, NEW report,
           req' = [req EXCEPT ![r] = Ended(r, pc, ran, report)]
    PROVE  Advances(r)
<1> DEFINE q == Ended(r, pc, ran, report)
<1>1. q.pc = pc
  BY DEF Ended, Idle
<1> HIDE DEF q
<1>2. StepsLeft(q) = 0
  BY <1>1, StepsLeftValues
<1>3. StepsLeft(req[r]) \in Nat /\ StepsLeft(req[r]) > 0
  BY RequestFacts, StepsLeftPositive
<1>4. req' = [req EXCEPT ![r] = q]
  BY DEF q
<1>5. StepsLeft(q) \in Nat /\ StepsLeft(q) < StepsLeft(req[r])
  BY <1>2, <1>3
<1> QED BY <1>4, <1>5, GoAdvances

LEMMA BlockAdvances ==
    ASSUME SafeInv, NEW r \in Requests, req[r].pc \notin {"done", "rejected"},
           \/ Reject(r)
           \/ \E blocker : Block(r, blocker)
           \/ \E result, blocker, written : Return(r, result, blocker, written)
    PROVE  Advances(r)
<1>1. CASE Reject(r)
  BY <1>1, EndAdvances DEF Reject
<1>2. ASSUME NEW result, NEW blocker, NEW written, Return(r, result, blocker, written)
      PROVE  Advances(r)
  BY <1>2, EndAdvances DEF Return
<1>3. CASE \E blocker : Block(r, blocker)
  BY <1>2, <1>3 DEF Block
<1> QED BY <1>1, <1>2, <1>3

LEMMA BeginAdvances ==
    ASSUME SafeInv, NEW r \in Requests, Begin(r)
    PROVE  Advances(r)
<1>1. PICK prompt \in Prompts :
        req' = [req EXCEPT ![r] =
            IF Refused(prompt)
            THEN [Idle EXCEPT !.pc = "done", !.prompt.kind = prompt.kind,
                              !.report = Report("blocked", "refused", {})]
            ELSE [Idle EXCEPT !.pc = "health", !.prompt = prompt]]
  BY DEF Begin
<1> DEFINE q == IF Refused(prompt)
                THEN [Idle EXCEPT !.pc = "done", !.prompt.kind = prompt.kind,
                                  !.report = Report("blocked", "refused", {})]
                ELSE [Idle EXCEPT !.pc = "health", !.prompt = prompt]
<1>2. q.pc \in {"done", "health"}
  BY DEF Idle
<1>3. req' = [req EXCEPT ![r] = q]
  BY <1>1
<1> HIDE DEF q
<1>4. StepsLeft(q) \in Nat /\ StepsLeft(q) < StepsLeft(req[r])
  BY <1>2, StepsLeftValues DEF Begin
<1> QED BY <1>3, <1>4, GoAdvances

LEMMA HealthAdvances ==
    ASSUME SafeInv, NEW r \in Requests, Health(r)
    PROVE  Advances(r)
<1>1. PICK chat \in BOOLEAN, openAi \in BOOLEAN :
        LET reachable == chat \/ openAi
            pc == IF Kind(r) = "structured" THEN "cleanup"
                  ELSE IF reachable THEN "ask" ELSE "unreachable"
        IN  req' = [req EXCEPT ![r].pc = pc, ![r].reachable = reachable,
                               ![r].chat = chat /\ Kind(r) = "diagnostic",
                               ![r].mode = FirstMode(Kind(r), chat)]
  BY DEF Health
<1> DEFINE reachable == chat \/ openAi
           pc == IF Kind(r) = "structured" THEN "cleanup"
                 ELSE IF reachable THEN "ask" ELSE "unreachable"
           q == [req[r] EXCEPT !.pc = pc, !.reachable = reachable,
                               !.chat = chat /\ Kind(r) = "diagnostic",
                               !.mode = FirstMode(Kind(r), chat)]
<1>2. req' = [req EXCEPT ![r] = q]
  BY <1>1
<1>3. pc \in {"cleanup", "ask", "unreachable"}
  OBVIOUS
<1> HIDE DEF pc
<1>4. q.pc \in {"cleanup", "ask", "unreachable"}
  BY <1>3, RequestFacts DEF ReqType
<1> HIDE DEF q
<1>5. StepsLeft(q) \in Nat /\ StepsLeft(q) < StepsLeft(req[r])
  <2>1. ModesLeft(q.mode) \in 0..2
    BY ModesLeftValues
  <2> QED BY <1>4, <2>1, StepsLeftValues DEF Health
<1> QED BY <1>2, <1>5, GoAdvances

LEMMA CleanupAdvances ==
    ASSUME SafeInv, NEW r \in Requests, Cleanup(r)
    PROVE  Advances(r)
<1>1. req[r].pc = "cleanup"
  BY DEF Cleanup
<1>2. CASE Block(r, "cleanup")
  BY <1>1, <1>2, BlockAdvances
<1>3. ASSUME NEW pc \in {"ask", "unreachable"}, Goto(r, pc)
      PROVE  Advances(r)
  <2> DEFINE q == [req[r] EXCEPT !.pc = pc]
  <2>1. req' = [req EXCEPT ![r] = q]
    BY <1>3 DEF Goto
  <2>2. q.pc = pc
    BY RequestFacts DEF ReqType
  <2> HIDE DEF q
  <2>3. ModesLeft(q.mode) \in 0..2
    BY ModesLeftValues
  <2>4. StepsLeft(q) \in Nat /\ StepsLeft(q) < StepsLeft(req[r])
    BY <1>1, <2>2, <2>3, StepsLeftValues
  <2> QED BY <2>1, <2>4, GoAdvances
<1> QED BY <1>2, <1>3 DEF Cleanup

\* On to the next endpoint.
LEMMA ModeAdvances ==
    ASSUME SafeInv, NEW r \in Requests, Asking(r), NEW mode \in {"openai", "agent"},
           req[r].mode = IF mode = "openai" THEN "chat" ELSE "openai",
           req' = [req EXCEPT ![r].mode = mode]
    PROVE  Advances(r)
<1> DEFINE q == [req[r] EXCEPT !.mode = mode]
<1>1. req' = [req EXCEPT ![r] = q]
  OBVIOUS
<1>2. q.pc = req[r].pc /\ q.mode = mode
  BY RequestFacts DEF ReqType
<1> HIDE DEF q
<1>3. /\ ModesLeft(q.mode) \in 0..2 /\ ModesLeft(req[r].mode) \in 0..2
      /\ ModesLeft(q.mode) < ModesLeft(req[r].mode)
  BY <1>2, ModesLeftValues
<1>4. StepsLeft(q) \in Nat /\ StepsLeft(q) < StepsLeft(req[r])
  BY <1>2, <1>3, StepsLeftValues DEF Asking
<1> QED BY <1>1, <1>4, GoAdvances

LEMMA AskAdvances ==
    ASSUME SafeInv, NEW r \in Requests, Asking(r), AskFails(r)
    PROVE  Advances(r)
<1>1. req[r].pc \notin {"done", "rejected"}
  BY DEF Asking
<1>2. CASE req[r].mode = "chat" /\ req' = [req EXCEPT ![r].mode = "openai"]
  BY <1>2, ModeAdvances
<1>3. CASE Reject(r) \/ Block(r, "unavailable")
  BY <1>1, <1>3, BlockAdvances
<1> QED BY <1>2, <1>3 DEF AskFails

LEMMA AnsweredAdvances ==
    ASSUME SafeInv, NEW r \in Requests, NEW answer, Answered(r, answer)
    PROVE  Advances(r)
<1> DEFINE analysis == Analysis(Stage(r), answer)
<1>1. /\ Asking(r) /\ req[r].pc \in {"ask", "askRepair"}
      /\ ModesLeft(req[r].mode) \in 0..2 /\ req[r] \in ReqType
  BY RequestFacts, ModesLeftValues DEF Answered, Asking
<1>2. CASE Adopt(r, analysis.files)
  <2> DEFINE q == [req[r] EXCEPT !.proposal = analysis.files, !.done = 0,
                                 !.pc = IF req[r].pc = "ask" THEN "write" ELSE "repair"]
  <2> HIDE DEF analysis
  <2>1. req' = [req EXCEPT ![r] = q]
    BY <1>2 DEF Adopt
  <2>2. q.done = 0 /\ q.pc = IF req[r].pc = "ask" THEN "write" ELSE "repair"
    BY <1>1 DEF ReqType
  <2> HIDE DEF q
  <2>3. FilesLeft(q) = 8
    BY <2>2 DEF FilesLeft
  <2>4. StepsLeft(q) \in Nat /\ StepsLeft(q) < StepsLeft(req[r])
    BY <1>1, <2>2, <2>3, StepsLeftValues
  <2> QED BY <2>1, <2>4, GoAdvances
<1>3. CASE req[r].mode = "openai" /\ req' = [req EXCEPT ![r].mode = "agent"]
  BY <1>1, <1>3, ModeAdvances
<1>4. CASE Block(r, "proposal")
  BY <1>1, <1>4, BlockAdvances
<1>5. CASE req[r].pc # "ask" /\ Goto(r, "lastValidation")
  <2> DEFINE q == [req[r] EXCEPT !.pc = "lastValidation"]
  <2>1. req' = [req EXCEPT ![r] = q]
    BY <1>5 DEF Goto
  <2>2. q.pc = "lastValidation"
    BY <1>1 DEF ReqType
  <2> HIDE DEF q
  <2>3. StepsLeft(q) \in Nat /\ StepsLeft(q) < StepsLeft(req[r])
    BY <1>1, <1>5, <2>2, StepsLeftValues
  <2> QED BY <2>1, <2>3, GoAdvances
<1> HIDE DEF analysis
<1>6. \/ Adopt(r, analysis.files)
      \/ req[r].mode = "openai" /\ req' = [req EXCEPT ![r].mode = "agent"]
      \/ Block(r, "proposal")
      \/ req[r].pc # "ask" /\ Goto(r, "lastValidation")
  BY DEF Answered, analysis
<1> QED BY <1>2, <1>3, <1>4, <1>5, <1>6

LEMMA WriteAdvances ==
    ASSUME SafeInv, NEW r \in Requests, Write(r)
    PROVE  Advances(r)
<1> DEFINE q == AfterWrite(req[r])
<1>1. req[r].pc = "write" /\ req' = [req EXCEPT ![r] = q] /\ req[r] \in ReqType
  BY RequestFacts DEF Write, Writing
<1>2. req[r].done \in 0..3
  <2>1. Len(req[r].proposal) \in 1..4 /\ req[r].done \in 0..4
    BY <1>1, RequestFacts DEF RequestInv, WriteInv, ReqType
  <2>2. req[r].done < Len(req[r].proposal)
    BY DEF Write, Writing
  <2>3. \A d \in 0..4 : \A n \in 1..4 : d < n => d \in 0..3
    OBVIOUS
  <2> HIDE DEF q
  <2> QED BY <2>1, <2>2, <2>3
<1>3. \/ q.pc \in {"read", "write"} /\ q.done = req[r].done + 1
      \/ q.pc = "firstValidation"
  <2>1. CASE req[r].prompt.kind # "gate"
    BY <1>1, <2>1 DEF AfterWrite, ReqType
  <2>2. CASE req[r].prompt.kind = "gate" /\ req[r].done + 1 < Len(req[r].proposal)
    BY <1>1, <2>2 DEF AfterWrite, ReqType
  <2>3. CASE req[r].prompt.kind = "gate" /\ ~(req[r].done + 1 < Len(req[r].proposal))
    BY <1>1, <2>3 DEF AfterWrite, ReqType
  <2> QED BY <2>1, <2>2, <2>3
<1> HIDE DEF q
<1>4. StepsLeft(q) \in Nat /\ StepsLeft(q) < StepsLeft(req[r])
  BY <1>1, <1>2, <1>3, StepsLeftValues DEF FilesLeft
<1> QED BY <1>1, <1>4, GoAdvances

LEMMA ReadAdvances ==
    ASSUME SafeInv, NEW r \in Requests, Read(r)
    PROVE  Advances(r)
<1>1. req[r] \in ReqType /\ req[r].done \in 0..4 /\ req[r].pc = "read"
  BY RequestFacts DEF Read, ReqType
<1> DEFINE file == req[r].proposal[req[r].done]
           verified == IF disk[file.path].text = file.text
                       THEN req[r].verified \cup {file.path} ELSE req[r].verified
           atLast == req[r].done = Len(req[r].proposal)
           again == [req[r] EXCEPT !.verified = verified, !.pc = "write"]
           checked == [req[r] EXCEPT !.verified = verified, !.pc = "validate",
                                     !.proposal = <<>>, !.done = 0]
<1>2. \/ req' = [req EXCEPT ![r] = again]
      \/ req' = [req EXCEPT ![r] = checked]
      \/ \E result, blocker, written : Return(r, result, blocker, written)
  <2>1. CASE ~atLast
    BY <2>1 DEF Read
  <2>2. CASE atLast /\ Cardinality(verified) # Len(req[r].proposal)
    <3>1. Return(r, "blocked", "notVerified", verified)
      BY <2>2 DEF Read
    <3> QED BY <3>1
  <2>3. CASE atLast /\ Cardinality(verified) = Len(req[r].proposal)
    <3>1. Return(r, "ok", "none", verified) \/ req' = [req EXCEPT ![r] = checked]
      BY <2>3 DEF Read
    <3> QED BY <3>1
  <2> QED BY <2>1, <2>2, <2>3
<1> HIDE DEF file, verified, atLast
<1>3. again.pc = "write" /\ again.done = req[r].done /\ checked.pc = "validate"
  BY <1>1 DEF ReqType
<1> HIDE DEF again, checked
<1>4. CASE req' = [req EXCEPT ![r] = again]
  <2>1. StepsLeft(again) \in Nat /\ StepsLeft(again) < StepsLeft(req[r])
    BY <1>1, <1>3, StepsLeftValues DEF FilesLeft
  <2> QED BY <1>4, <2>1, GoAdvances
<1>5. CASE req' = [req EXCEPT ![r] = checked]
  <2>1. StepsLeft(checked) \in Nat /\ StepsLeft(checked) < StepsLeft(req[r])
    BY <1>1, <1>3, StepsLeftValues DEF FilesLeft
  <2> QED BY <1>5, <2>1, GoAdvances
<1>6. CASE \E result, blocker, written : Return(r, result, blocker, written)
  BY <1>1, <1>6, BlockAdvances
<1> QED BY <1>2, <1>4, <1>5, <1>6

LEMMA ValidationAdvances ==
    ASSUME SafeInv, NEW r \in Requests,
           \/ StructuredValidation(r) \/ FirstValidation(r) \/ LastValidation(r)
    PROVE  Advances(r)
<1>1. req[r] \in ReqType
  BY RequestFacts
<1>2. CASE StructuredValidation(r)
  <2>1. PICK verdict, report : req' = [req EXCEPT ![r] = Ended(r, "done", verdict, report)]
    BY <1>2 DEF StructuredValidation
  <2>2. req[r].pc = "validate"
    BY <1>2 DEF StructuredValidation
  <2> QED BY <2>1, <2>2, EndAdvances
<1>3. CASE FirstValidation(r)
  <2>1. PICK verdict, timedOut :
            req' = [req EXCEPT ![r] = [@ EXCEPT !.pc = "askRepair", !.mode = "openai",
                                !.failedOnce = verdict = "error", !.timedOut = timedOut]]
    BY <1>3 DEF FirstValidation
  <2> DEFINE q == [req[r] EXCEPT !.pc = "askRepair", !.mode = "openai",
                                 !.failedOnce = verdict = "error", !.timedOut = timedOut]
  <2>2. req' = [req EXCEPT ![r] = q]
    BY <2>1
  <2>3. q.pc = "askRepair" /\ q.mode = "openai"
    BY <1>1 DEF ReqType
  <2> HIDE DEF q
  <2>4. ModesLeft(q.mode) = 1 /\ req[r].pc = "firstValidation"
    BY <1>3, <2>3, ModesLeftValues DEF FirstValidation
  <2>5. StepsLeft(q) \in Nat /\ StepsLeft(q) < StepsLeft(req[r])
    BY <2>3, <2>4, StepsLeftValues
  <2> QED BY <2>2, <2>5, GoAdvances
<1>4. CASE LastValidation(r)
  <2>1. PICK verdict : req' = [req EXCEPT ![r].pc = "ledger", ![r].ran = verdict]
    BY <1>4 DEF LastValidation
  <2> DEFINE q == [req[r] EXCEPT !.pc = "ledger", !.ran = verdict]
  <2>2. req' = [req EXCEPT ![r] = q]
    BY <2>1
  <2>3. q.pc = "ledger"
    BY <1>1 DEF ReqType
  <2> HIDE DEF q
  <2>4. StepsLeft(q) \in Nat /\ StepsLeft(q) < StepsLeft(req[r])
    BY <1>4, <2>3, StepsLeftValues DEF LastValidation
  <2> QED BY <2>2, <2>4, GoAdvances
<1> QED BY <1>2, <1>3, <1>4

LEMMA RepairAdvances ==
    ASSUME SafeInv, NEW r \in Requests, Repair(r) \/ ReadRepair(r) \/ Ledger(r)
    PROVE  Advances(r)
<1>1. req[r] \in ReqType
  BY RequestFacts
<1>2. CASE Repair(r)
  <2> DEFINE q == [req[r] EXCEPT !.pc = "readRepair"]
  <2>1. req' = [req EXCEPT ![r] = q]
    BY <1>2 DEF Repair, Goto
  <2>2. q.pc = "readRepair"
    BY <1>1 DEF ReqType
  <2> HIDE DEF q
  <2>3. StepsLeft(q) \in Nat /\ StepsLeft(q) < StepsLeft(req[r])
    BY <1>2, <2>2, StepsLeftValues DEF Repair
  <2> QED BY <2>1, <2>3, GoAdvances
<1>3. CASE ReadRepair(r)
  <2> DEFINE repaired == disk["safe.ts"].text = req[r].proposal[1].text
             q == [req[r] EXCEPT !.pc = "lastValidation", !.proposal = <<>>,
                                 !.repaired = repaired]
  <2>1. req' = [req EXCEPT ![r] = q]
    BY <1>3 DEF ReadRepair
  <2> HIDE DEF repaired
  <2>2. q.pc = "lastValidation"
    BY <1>1 DEF ReqType
  <2> HIDE DEF q
  <2>3. StepsLeft(q) \in Nat /\ StepsLeft(q) < StepsLeft(req[r])
    BY <1>3, <2>2, StepsLeftValues DEF ReadRepair
  <2> QED BY <2>1, <2>3, GoAdvances
<1>4. CASE Ledger(r)
  <2>1. req[r].pc = "ledger" /\ \E result, written : Return(r, result, "none", written)
    BY <1>4 DEF Ledger
  <2> QED BY <2>1, BlockAdvances
<1> QED BY <1>2, <1>3, <1>4

LEMMA RequestAdvances ==
    ASSUME SafeInv, NEW r \in Requests, Step(r)
    PROVE  Advances(r)
<1>1. CASE Begin(r)
  BY <1>1, BeginAdvances
<1>2. CASE Unreachable(r) \/ Harmless(r) \/ WriteFails(r)
  <2>1. req[r].pc \notin {"done", "rejected"}
    BY <1>2 DEF Unreachable, Harmless, Asking, WriteFails, Writing
  <2>2. \/ Reject(r) \/ Block(r, "unavailable") \/ Block(r, "notVerified")
        \/ Return(r, "ok", "none", {})
    BY <1>2 DEF Unreachable, Harmless, WriteFails, WriteFailed
  <2> QED BY <2>1, <2>2, BlockAdvances
<1>3. CASE SafetyBlocked(r) \/ TimedOut(r) \/ Unavailable(r)
  BY <1>3, AskAdvances DEF SafetyBlocked, TimedOut, Unavailable
<1>4. CASE \E answer : Answered(r, answer)
  BY <1>4, AnsweredAdvances
<1>5. CASE Health(r) \/ Cleanup(r) \/ Write(r) \/ Read(r)
  BY <1>5, HealthAdvances, CleanupAdvances, WriteAdvances, ReadAdvances
<1>6. CASE StructuredValidation(r) \/ FirstValidation(r) \/ LastValidation(r)
  BY <1>6, ValidationAdvances
<1>7. CASE Repair(r) \/ ReadRepair(r) \/ Ledger(r)
  BY <1>7, RepairAdvances
<1> QED BY <1>1, <1>2, <1>3, <1>4, <1>5, <1>6, <1>7 DEF Step, Host, Sidecar

\* No request asks, writes or validates for ever: each of its at most thirty steps leaves
\* fewer, whatever the sidecar answers and whatever the other requests do.
THEOREM RequestsFinite == Spec => RequestsAdvance
<1>1. ASSUME SafeInv, Next, NEW r \in Requests
      PROVE  /\ Step(r) => StepsLeft(req'[r]) \in Nat /\ StepsLeft(req'[r]) < StepsLeft(req[r])
             /\ Step(r) \/ req'[r] = req[r]
  <2>1. Step(r) => StepsLeft(req'[r]) \in Nat /\ StepsLeft(req'[r]) < StepsLeft(req[r])
    BY <1>1, RequestAdvances DEF Advances
  <2>2. PICK s \in Requests : Step(s)
    BY <1>1 DEF Next, Step
  <2>3. CASE s = r
    BY <2>1, <2>2, <2>3
  <2>4. CASE s # r
    BY <1>1, <2>1, <2>2, <2>4, RequestAdvances DEF Advances
  <2> QED BY <2>3, <2>4
<1>2. SafeInv /\ [Next]_vars => [\A r \in Requests :
            /\ Step(r) => StepsLeft(req'[r]) \in Nat /\ StepsLeft(req'[r]) < StepsLeft(req[r])
            /\ Step(r) \/ req'[r] = req[r]]_vars
  BY <1>1
<1> QED BY <1>2, SafetyCorrect, PTL DEF Spec, RequestsAdvance
----------------------------------------------------------------------------
(* Calls of a model *)

CallPcs == {"idle", "discover", "connect", "body", "read", "top", "trace", "ended"}
\* Nothing of an answer arrived.
Fresh(c) ==
    /\ c.sent = <<>> /\ c.collected = <<>> /\ c.shown = <<>>
    /\ ~c.closed /\ ~c.done

\* The places of each provider, and the attempts made at each place.
PlaceInv ==
    /\ call.pc \in CallPcs
    /\ At("body") => provider = "gateway"
    /\ At("read") => provider # "gateway"
    /\ At("top") => provider = "ollama"
    /\ At("trace") => provider = "sidecar"
    /\ call.pc \in {"idle", "discover"} => call.attempt = 0
    /\ call.pc \in {"connect", "body", "read", "top", "trace"} => call.attempt \in 1..3
    /\ call.pc \in {"body", "read", "top", "trace"} => call.attempt < 3
    /\ call.outcome = "content" => At("ended")

\* What has been read of an answer: all that was sent, and all of it is shown.  An attempt
\* whose diagnostics say that nothing arrived has read and shown nothing.
AnswerInv ==
    /\ call.pc \in {"idle", "discover", "connect", "body"} => Fresh(call)
    /\ call.pc \in {"idle", "discover", "connect", "body"} => diag = NoDiag
    /\ call.pc \in {"read", "top", "trace"} => call.shown = call.collected
    /\ call.pc \in {"read", "top"} => call.collected = call.sent /\ ~call.closed /\ ~call.done
    /\ At("read") /\ ~diag.some => Fresh(call)
    /\ ~At("ended") => ~diag.completed

CallShape == DOMAIN call = DOMAIN NoCall /\ DOMAIN diag = DOMAIN NoDiag /\ last.call \in Nat

CallInv ==
    /\ CallShape /\ CallTypeOK /\ call.n \in Nat /\ PlaceInv /\ AnswerInv
    /\ ShownIsReturned /\ CompletedIsWhole /\ DiagnosticsOfCall

USE DEF At, Active

LEMMA NoCallFields ==
    /\ NoCall.n = 0 /\ NoCall.pc = "idle" /\ NoCall.attempt = 0 /\ NoCall.abort = "no"
    /\ Fresh(NoCall) /\ NoCall.outcome = "none"
    /\ NoDiag.reason = "none" /\ ~NoDiag.completed /\ NoLast.call = 0
BY DEF NoCall, NoDiag, NoLast, Fresh

LEMMA CallInvInit == CallInit => CallInv
<1> SUFFICES ASSUME CallInit PROVE CallInv
  OBVIOUS
<1>1. provider \in Providers /\ call = NoCall /\ user = FALSE /\ diag = NoDiag /\ last = NoLast
  BY DEF CallInit
<1>2. CallShape /\ CallTypeOK /\ call.n \in Nat
  <2>1. 0 <= MaxCalls
    BY ModelCallAssumption
  <2>2. CallShape /\ call.n \in Nat
    BY <1>1, NoCallFields DEF CallShape
  <2>3. call.n = 0 /\ call.attempt = 0 /\ call.abort = "no" /\ diag.reason = "none" /\ last.call = 0
    BY <1>1, NoCallFields
  <2>4. user \in BOOLEAN /\ provider \in Providers
    BY <1>1
  <2> QED BY <2>1, <2>2, <2>3, <2>4 DEF CallTypeOK, Reasons
<1>3. PlaceInv /\ AnswerInv
  BY <1>1, NoCallFields DEF PlaceInv, AnswerInv, CallPcs
<1>4. ShownIsReturned /\ CompletedIsWhole /\ DiagnosticsOfCall
  BY <1>1, NoCallFields DEF ShownIsReturned, CompletedIsWhole, DiagnosticsOfCall
<1> QED BY <1>2, <1>3, <1>4 DEF CallInv

\* The record a handler leaves of an attempt it makes, and its diagnostics.
Attempted(c, d) ==
    /\ DOMAIN c = DOMAIN NoCall /\ DOMAIN d = DOMAIN NoDiag
    /\ c.n = call.n /\ c.attempt = call.attempt /\ c.caller = call.caller
    /\ c.abort = call.abort /\ c.outcome = call.outcome
    /\ c.attempt \in 1..3 /\ d.reason \in Reasons

\* How an attempt may end.  A call that returns has shown what it read, and is complete only
\* if it is whole; one that throws has shown nothing; one that is retried has read nothing.
LEMMA ReturnsKeeps ==
    ASSUME CallInv, NEW c, NEW d, Attempted(c, d), Returns(c, d),
           provider' = provider, user' = user,
           provider # "gateway" => c.shown = IF c.attempt = 3 THEN <<>> ELSE c.collected,
           d.completed /\ provider = "ollama" /\ c.attempt < 3 =>
               (c.done /\ c.collected = c.sent) \/ c.closed
    PROVE  CallInv'
<1>1. /\ DOMAIN call' = DOMAIN NoCall /\ call'.pc = "ended" /\ call'.outcome = "content"
      /\ call'.text = c.collected /\ call'.n = call.n /\ call'.attempt = call.attempt
      /\ call'.caller = call.caller /\ call'.abort = call.abort /\ call'.shown = c.shown
      /\ call'.done = c.done /\ call'.closed = c.closed /\ call'.sent = c.sent
  BY DEF Returns, Attempted, NoCall
<1>2. diag' = d /\ last' = Recorded
  BY DEF Returns
<1>3. CallShape' /\ CallTypeOK' /\ call'.n \in Nat
  BY <1>1, <1>2 DEF CallInv, CallShape, CallTypeOK, Attempted, Recorded
<1>4. PlaceInv' /\ AnswerInv'
  BY <1>1, <1>2 DEF PlaceInv, AnswerInv, CallPcs
<1>5. ShownIsReturned' /\ CompletedIsWhole' /\ DiagnosticsOfCall'
  BY <1>1, <1>2 DEF ShownIsReturned, CompletedIsWhole, DiagnosticsOfCall, Attempted, Recorded
<1> QED BY <1>3, <1>4, <1>5 DEF CallInv

LEMMA ThrowsKeeps ==
    ASSUME CallInv, NEW c, NEW d, NEW code, Attempted(c, d), Throws(c, d, code),
           provider' = provider, user' = user,
           provider = "ollama" => Blank(c.shown), code # "content"
    PROVE  CallInv'
<1>1. /\ DOMAIN call' = DOMAIN NoCall /\ call'.pc = "ended" /\ call'.outcome # "content"
      /\ call'.n = call.n /\ call'.attempt = call.attempt
      /\ call'.caller = call.caller /\ call'.abort = call.abort /\ call'.shown = c.shown
  BY DEF Throws, Attempted, NoCall
<1>2. diag' = d /\ last' = IF provider = "ollama" THEN Recorded ELSE last
  BY DEF Throws
<1>3. CallShape' /\ CallTypeOK' /\ call'.n \in Nat
  BY <1>1, <1>2 DEF CallInv, CallShape, CallTypeOK, Attempted, Recorded
<1>4. PlaceInv' /\ AnswerInv'
  BY <1>1, <1>2 DEF PlaceInv, AnswerInv, CallPcs
<1>5. ShownIsReturned' /\ CompletedIsWhole' /\ DiagnosticsOfCall'
  BY <1>1, <1>2 DEF ShownIsReturned, CompletedIsWhole, DiagnosticsOfCall, Attempted, Recorded, Blank
<1> QED BY <1>3, <1>4, <1>5 DEF CallInv

\* A fresh attempt, the first or a retry.
LEMMA AttemptKeeps ==
    ASSUME CallInv, NEW c, NEW k \in 1..3, DOMAIN c = DOMAIN NoCall,
           c.shown = <<>>, ~c.closed, ~c.done, c.n = call.n, c.caller = call.caller,
           c.outcome # "content",
           k > 1 => provider = "ollama", k = 3 => c.caller.diagnostic,
           call' = Attempting(c, k), diag' = NoDiag, UNCHANGED <<provider, user, last>>
    PROVE  CallInv'
<1>1. /\ DOMAIN call' = DOMAIN NoCall /\ call'.pc = "connect" /\ call'.outcome # "content"
      /\ call'.n = call.n /\ call'.attempt = k /\ call'.caller = call.caller
      /\ call'.abort \in {"no", "cancelled"} /\ Fresh(call')
  BY DEF Attempting, NoCall, Fresh
<1>3. CallShape' /\ CallTypeOK' /\ call'.n \in Nat
  BY <1>1 DEF CallInv, CallShape, CallTypeOK, NoDiag, Reasons
<1>4. PlaceInv' /\ AnswerInv'
  BY <1>1 DEF PlaceInv, AnswerInv, CallPcs, NoDiag, CallInv, Fresh
<1>5. ShownIsReturned' /\ CompletedIsWhole' /\ DiagnosticsOfCall'
  BY <1>1 DEF ShownIsReturned, CompletedIsWhole, DiagnosticsOfCall
<1> QED BY <1>3, <1>4, <1>5 DEF CallInv

LEMMA FailsKeeps ==
    ASSUME CallInv, NEW c, NEW d, NEW code, Attempted(c, d), Fails(c, d, code),
           provider' = provider, user' = user, c.outcome # "content",
           provider = "ollama" => Blank(c.shown), code # "content",
           provider = "ollama" /\ CanRetry(c, d) => c.shown = <<>> /\ ~c.closed /\ ~c.done
    PROVE  CallInv'
<1>1. CASE Throws(c, d, code)
  BY <1>1, ThrowsKeeps
<1>2. CASE ~Throws(c, d, code)
  <2>1. /\ provider = "ollama" /\ CanRetry(c, d)
        /\ c.attempt = 1 \/ (c.attempt = 2 /\ c.caller.diagnostic)
        /\ call' = Attempting(c, c.attempt + 1) /\ diag' = NoDiag /\ UNCHANGED last
    BY <1>2 DEF Fails
  <2>2. c.attempt + 1 \in 1..3 /\ (c.attempt + 1 = 3 => c.caller.diagnostic)
    BY <2>1
  <2> QED BY <2>1, <2>2, AttemptKeeps DEF Attempted
<1> QED BY <1>1, <1>2

LEMMA PartialOrKeeps ==
    ASSUME CallInv, NEW c, NEW d, NEW code, Attempted(c, d), PartialOr(c, d, code),
           provider' = provider, user' = user, c.outcome # "content", c.attempt < 3,
           c.shown = c.collected, ~d.completed, code # "content",
           provider = "ollama" /\ CanRetry(c, d) => c.shown = <<>> /\ ~c.closed /\ ~c.done
    PROVE  CallInv'
<1>1. CASE Blank(c.collected)
  BY <1>1, FailsKeeps DEF PartialOr
<1>2. CASE ~Blank(c.collected)
  <2>1. Returns(c, d)
    BY <1>2 DEF PartialOr
  <2> QED BY <2>1, ReturnsKeeps
<1> QED BY <1>1, <1>2

LEMMA StartKeeps ==
    ASSUME CallInv, NEW caller \in Callers, Start(caller)
    PROVE  CallInv'
<1>1. /\ ~Active /\ call.n < MaxCalls /\ user' = FALSE /\ diag' = NoDiag /\ provider' = provider
      /\ last' = NoLast \/ last' = last
  BY DEF Start
<1>2. /\ DOMAIN call' = DOMAIN NoCall /\ call'.n = call.n + 1 /\ call'.abort = "no"
      /\ Fresh(call') /\ call'.outcome = "none"
      /\ \/ call'.pc = "discover" /\ call'.attempt = 0
         \/ call'.pc = "connect" /\ call'.attempt = 1
  <2> DEFINE c == [NoCall EXCEPT !.n = call.n + 1, !.caller = caller,
                                 !.asked = caller.requested]
  <2>1. /\ DOMAIN c = DOMAIN NoCall /\ c.n = call.n + 1 /\ c.abort = "no"
        /\ Fresh(c) /\ c.outcome = "none" /\ c.attempt = 0
    BY DEF NoCall, Fresh
  <2>2. \/ call' = [c EXCEPT !.pc = "discover"]
        \/ call' = [c EXCEPT !.pc = "connect", !.attempt = 1]
    BY DEF Start
  <2> HIDE DEF c
  <2> QED BY <2>1, <2>2 DEF NoCall, Fresh
<1>3. last'.call \in Nat /\ last'.call <= call.n
  BY <1>1 DEF CallInv, CallShape, CallTypeOK, NoLast
<1>4. CallShape' /\ CallTypeOK' /\ call'.n \in Nat
  <2>1. call.n + 1 <= MaxCalls /\ call.n + 1 \in Nat /\ last'.call <= call.n + 1
    BY <1>1, <1>3, ModelCallAssumption DEF CallInv
  <2>2. diag'.reason = "none" /\ DOMAIN diag' = DOMAIN NoDiag /\ call'.attempt \in 0..1
    BY <1>1, <1>2 DEF NoDiag
  <2>3. CallShape' /\ call'.n \in Nat
    BY <1>1, <1>2, <1>3, <2>1, <2>2 DEF CallShape
  <2>4. CallTypeOK'
    <3>1. provider' \in Providers /\ user' \in BOOLEAN
      BY <1>1 DEF CallInv, CallTypeOK
    <3> QED BY <1>1, <1>2, <1>3, <2>1, <2>2, <3>1 DEF CallTypeOK, Reasons
  <2> QED BY <2>3, <2>4
<1>5. PlaceInv' /\ AnswerInv'
  BY <1>1, <1>2 DEF PlaceInv, AnswerInv, CallPcs, NoDiag
<1>6. ShownIsReturned' /\ CompletedIsWhole' /\ DiagnosticsOfCall'
  BY <1>2 DEF ShownIsReturned, CompletedIsWhole, DiagnosticsOfCall
<1> QED BY <1>4, <1>5, <1>6 DEF CallInv

\* The abort of a signal and a user's cancellation change nothing else.
LEMMA AbortKeeps ==
    ASSUME CallInv, NEW abort \in {"no", "timeout", "cancelled"},
           call' = [call EXCEPT !.abort = abort], UNCHANGED <<provider, diag, last>>,
           user' \in BOOLEAN
    PROVE  CallInv'
<1>1. /\ DOMAIN call' = DOMAIN NoCall /\ call'.abort = abort
      /\ \A f \in DOMAIN NoCall \ {"abort"} : call'[f] = call[f]
  BY DEF CallInv, CallShape, NoCall
<1>2. /\ call'.n = call.n /\ call'.pc = call.pc /\ call'.attempt = call.attempt
      /\ call'.caller = call.caller /\ call'.sent = call.sent
      /\ call'.collected = call.collected /\ call'.shown = call.shown
      /\ call'.closed = call.closed /\ call'.done = call.done
      /\ call'.outcome = call.outcome /\ call'.text = call.text
  BY <1>1 DEF NoCall
<1>3. CallShape' /\ CallTypeOK' /\ call'.n \in Nat
  BY <1>1, <1>2 DEF CallInv, CallShape, CallTypeOK
<1>4. PlaceInv' /\ AnswerInv'
  BY <1>2 DEF PlaceInv, AnswerInv, CallInv, Fresh
<1>5. ShownIsReturned' /\ CompletedIsWhole' /\ DiagnosticsOfCall'
  BY <1>2 DEF ShownIsReturned, CompletedIsWhole, DiagnosticsOfCall, CallInv, Blank
<1> QED BY <1>3, <1>4, <1>5 DEF CallInv

LEMMA TimerKeeps == CallInv /\ Timer => CallInv'
<1> SUFFICES ASSUME CallInv, Timer PROVE CallInv'
  OBVIOUS
<1>1. call' = [call EXCEPT !.abort = "timeout"] /\ UNCHANGED <<provider, user, diag, last>>
  BY DEF Timer
<1>2. user' \in BOOLEAN
  BY <1>1 DEF CallInv, CallTypeOK
<1> QED BY <1>1, <1>2, AbortKeeps

LEMMA CancelKeeps == CallInv /\ Cancel => CallInv'
<1> SUFFICES ASSUME CallInv, Cancel PROVE CallInv'
  OBVIOUS
<1> DEFINE abort == IF call.abort = "no" /\ call.caller.signal /\ provider # "gateway"
                    THEN "cancelled" ELSE call.abort
<1>1. call' = [call EXCEPT !.abort = abort] /\ user' = TRUE /\ UNCHANGED <<provider, diag, last>>
  BY DEF Cancel
<1>2. abort \in {"no", "timeout", "cancelled"}
  BY DEF CallInv, CallTypeOK
<1> HIDE DEF abort
<1> QED BY <1>1, <1>2, AbortKeeps

LEMMA DiscoversKeeps == CallInv /\ Discovers => CallInv'
<1> SUFFICES ASSUME CallInv, Discovers PROVE CallInv'
  OBVIOUS
<1>1. PICK tags \in EndpointAnswers, models \in EndpointAnswers, installed \in Listings :
        LET listed == Listed(tags, models) = "models"
        IN  call' = IF user THEN [call EXCEPT !.pc = "ended", !.outcome = "nothing"]
                    ELSE [Attempting(call, 1) EXCEPT !.listed = listed,
                            !.asked = IF listed THEN Resolve(call.caller.requested, installed)
                                      ELSE call.caller.requested]
  BY DEF Discovers
<1>2. At("discover") /\ UNCHANGED <<provider, user, diag, last>>
  BY DEF Discovers
<1>3. /\ DOMAIN call' = DOMAIN NoCall /\ call'.n = call.n /\ Fresh(call')
      /\ call'.caller = call.caller /\ call'.abort \in {"no", "timeout", "cancelled"}
      /\ \/ call'.pc = "ended" /\ call'.attempt = 0 /\ call'.outcome = "nothing"
         \/ call'.pc = "connect" /\ call'.attempt = 1 /\ call'.outcome # "content"
  BY <1>1, <1>2 DEF CallInv, CallShape, CallTypeOK, AnswerInv, PlaceInv, Fresh, Attempting, NoCall
<1>4. CallShape' /\ CallTypeOK' /\ call'.n \in Nat
  BY <1>2, <1>3 DEF CallInv, CallShape, CallTypeOK
<1>5. PlaceInv' /\ AnswerInv'
  BY <1>2, <1>3 DEF PlaceInv, AnswerInv, CallPcs, CallInv
<1>6. ShownIsReturned' /\ CompletedIsWhole' /\ DiagnosticsOfCall'
  BY <1>3 DEF ShownIsReturned, CompletedIsWhole, DiagnosticsOfCall, Fresh, Blank
<1> QED BY <1>4, <1>5, <1>6 DEF CallInv
LEMMA ConnectsKeeps == CallInv /\ Connects => CallInv'
<1> SUFFICES ASSUME CallInv, Connects PROVE CallInv'
  OBVIOUS
<1>1. At("connect") /\ call.attempt < 3 /\ UNCHANGED <<provider, user>>
  BY DEF Connects
<1>2. Attempted(call, diag) /\ call.outcome # "content" /\ Fresh(call) /\ diag = NoDiag
  BY <1>1 DEF Attempted, CallInv, CallShape, CallTypeOK, PlaceInv, AnswerInv
<1>3. Blank(call.shown)
  BY <1>2 DEF Fresh, Blank
<1>4. CASE Throws(call, diag, "SIDECAR_SAFETY_BLOCKED")
  BY <1>1, <1>2, <1>3, <1>4, ThrowsKeeps
<1>5. ASSUME NEW d, NEW code, DOMAIN d = DOMAIN NoDiag, d.reason \in Reasons, code # "content",
             Fails(call, d, code)
      PROVE  CallInv'
  <2>1. Attempted(call, d)
    BY <1>2, <1>5 DEF Attempted
  <2> QED BY <1>1, <1>2, <1>3, <1>5, <2>1, FailsKeeps DEF Fresh
<1>6. CASE \E code, cancelled, timeout : \E reason \in Reasons :
              /\ code # "content"
              /\ Fails(call, [diag EXCEPT !.cancelled = cancelled, !.timeout = timeout,
                                          !.reason = reason], code)
  <2>0. PICK code, cancelled, timeout : \E reason \in Reasons :
              /\ code # "content"
              /\ Fails(call, [diag EXCEPT !.cancelled = cancelled, !.timeout = timeout,
                                          !.reason = reason], code)
    BY <1>6
  <2>1. PICK reason \in Reasons :
              /\ code # "content"
              /\ Fails(call, [diag EXCEPT !.cancelled = cancelled, !.timeout = timeout,
                                          !.reason = reason], code)
    BY <2>0
  <2> DEFINE d == [diag EXCEPT !.cancelled = cancelled, !.timeout = timeout, !.reason = reason]
  <2>2. DOMAIN d = DOMAIN NoDiag /\ d.reason \in Reasons
    BY <1>2 DEF NoDiag
  <2> HIDE DEF d
  <2> QED BY <1>5, <2>1, <2>2 DEF d
<1>7. CASE \E code : \E reason \in Reasons :
              code # "content" /\ Fails(call, [diag EXCEPT !.reason = reason], code)
  <2>0. PICK code : \E reason \in Reasons :
              code # "content" /\ Fails(call, [diag EXCEPT !.reason = reason], code)
    BY <1>7
  <2>1. PICK reason \in Reasons :
              code # "content" /\ Fails(call, [diag EXCEPT !.reason = reason], code)
    BY <2>0
  <2> DEFINE d == [diag EXCEPT !.reason = reason]
  <2>2. DOMAIN d = DOMAIN NoDiag /\ d.reason \in Reasons
    BY <1>2 DEF NoDiag
  <2> HIDE DEF d
  <2> QED BY <1>5, <2>1, <2>2 DEF d
<1>8. CASE call' = [call EXCEPT !.pc = IF provider = "gateway" THEN "body" ELSE "read"]
           /\ UNCHANGED <<diag, last>>
  <2>1. /\ DOMAIN call' = DOMAIN NoCall /\ Fresh(call')
        /\ call'.pc = IF provider = "gateway" THEN "body" ELSE "read"
        /\ call'.n = call.n /\ call'.attempt = call.attempt /\ call'.caller = call.caller
        /\ call'.abort = call.abort /\ call'.outcome = call.outcome
    BY <1>2, <1>8 DEF CallInv, CallShape, NoCall, Fresh
  <2>2. CallShape' /\ CallTypeOK' /\ call'.n \in Nat
    BY <1>1, <1>8, <2>1 DEF CallInv, CallShape, CallTypeOK
  <2>3. PlaceInv'
    BY <1>1, <1>2, <2>1 DEF CallInv, PlaceInv, CallPcs
  <2>4. AnswerInv'
    BY <1>1, <1>2, <1>8, <2>1 DEF CallInv, AnswerInv, Fresh
  <2>5. ShownIsReturned' /\ CompletedIsWhole' /\ DiagnosticsOfCall'
    BY <1>2, <2>1 DEF ShownIsReturned, CompletedIsWhole, DiagnosticsOfCall
  <2> QED BY <2>2, <2>3, <2>4, <2>5 DEF CallInv
<1> QED BY <1>4, <1>6, <1>7, <1>8 DEF Connects, Reasons
\* An answer in one piece.
LEMMA PieceKeeps ==
    ASSUME CallInv, call.pc \in {"connect", "body"}, At("body") \/ call.attempt = 3,
           UNCHANGED <<provider, user>>, NEW d, DOMAIN d = DOMAIN NoDiag, d.reason \in Reasons,
           Returns([call EXCEPT !.collected = <<"word">>, !.sent = <<"word">>], d)
    PROVE  CallInv'
<1> DEFINE c == [call EXCEPT !.collected = <<"word">>, !.sent = <<"word">>]
<1>1. /\ DOMAIN c = DOMAIN NoCall /\ c.shown = <<>> /\ ~c.closed /\ ~c.done /\ c.n = call.n
      /\ c.attempt = call.attempt /\ c.caller = call.caller /\ c.abort = call.abort
      /\ c.outcome = call.outcome
  BY DEF CallInv, CallShape, AnswerInv, Fresh, NoCall
<1>2. Returns(c, d)
  OBVIOUS
<1> HIDE DEF c
<1>3. Attempted(c, d)
  BY <1>1 DEF Attempted, CallInv, PlaceInv
<1>4. provider # "gateway" => c.shown = IF c.attempt = 3 THEN <<>> ELSE c.collected
  BY <1>1 DEF CallInv, PlaceInv
<1>5. ~(provider = "ollama" /\ c.attempt < 3)
  BY <1>1 DEF CallInv, PlaceInv
<1> QED BY <1>2, <1>3, <1>4, <1>5, ReturnsKeeps

LEMMA BodyKeeps == CallInv /\ Body => CallInv'
<1> SUFFICES ASSUME CallInv, Body PROVE CallInv'
  OBVIOUS
<1>1. At("body") /\ UNCHANGED <<provider, user>> /\ provider = "gateway"
  BY DEF Body, CallInv, PlaceInv
<1>2. CASE Returns([call EXCEPT !.collected = <<"word">>, !.sent = <<"word">>],
                   [diag EXCEPT !.completed = TRUE])
  <2> DEFINE d == [diag EXCEPT !.completed = TRUE]
  <2>1. DOMAIN d = DOMAIN NoDiag /\ d.reason \in Reasons
    BY DEF CallInv, CallShape, CallTypeOK, NoDiag
  <2>2. Returns([call EXCEPT !.collected = <<"word">>, !.sent = <<"word">>], d)
    BY <1>2
  <2> HIDE DEF d
  <2> QED BY <1>1, <2>1, <2>2, PieceKeeps
<1>3. CASE Throws(call, diag, "invalid_json")
  <2>1. Attempted(call, diag)
    BY <1>1 DEF Attempted, CallInv, CallShape, CallTypeOK, PlaceInv
  <2> QED BY <1>1, <1>3, <2>1, ThrowsKeeps
<1> QED BY <1>2, <1>3 DEF Body

LEMMA NonStreamKeeps == CallInv /\ NonStream => CallInv'
<1> SUFFICES ASSUME CallInv, NonStream PROVE CallInv'
  OBVIOUS
<1>1. At("connect") /\ call.attempt = 3 /\ UNCHANGED <<provider, user>>
  BY DEF NonStream
<1>2. DOMAIN diag = DOMAIN NoDiag /\ Fresh(call) /\ Blank(call.shown)
  BY <1>1 DEF CallInv, CallShape, AnswerInv, Fresh, Blank
<1>3. CASE Returns([call EXCEPT !.collected = <<"word">>, !.sent = <<"word">>],
                   [diag EXCEPT !.completed = TRUE, !.first = TRUE])
  <2> DEFINE d == [diag EXCEPT !.completed = TRUE, !.first = TRUE]
  <2>1. DOMAIN d = DOMAIN NoDiag /\ d.reason \in Reasons
    BY DEF CallInv, CallShape, CallTypeOK, NoDiag
  <2>2. Returns([call EXCEPT !.collected = <<"word">>, !.sent = <<"word">>], d)
    BY <1>3
  <2> HIDE DEF d
  <2> QED BY <1>1, <2>1, <2>2, PieceKeeps
<1>4. ASSUME NEW d, NEW code, DOMAIN d = DOMAIN NoDiag, d.reason \in Reasons, code # "content",
             Throws(call, d, code)
      PROVE  CallInv'
  <2>1. Attempted(call, d)
    BY <1>1, <1>4 DEF Attempted, CallInv, CallShape, PlaceInv
  <2> QED BY <1>1, <1>2, <1>4, <2>1, ThrowsKeeps
<1>5. CASE Throws(call, [diag EXCEPT !.completed = TRUE, !.reason = "EMPTY_CONTENT"],
                  "MODEL_RESPONSE_INVALID")
  <2> DEFINE d == [diag EXCEPT !.completed = TRUE, !.reason = "EMPTY_CONTENT"]
  <2>1. DOMAIN d = DOMAIN NoDiag /\ d.reason \in Reasons
    BY <1>2 DEF NoDiag, Reasons
  <2>2. Throws(call, d, "MODEL_RESPONSE_INVALID")
    BY <1>5
  <2> HIDE DEF d
  <2> QED BY <1>4, <2>1, <2>2
<1>6. CASE \E code \in {"MODEL_NOT_FOUND", "OLLAMA_UNAVAILABLE"} :
              Throws(call, [diag EXCEPT !.reason = "HTTP"], code)
  <2> DEFINE d == [diag EXCEPT !.reason = "HTTP"]
  <2>1. DOMAIN d = DOMAIN NoDiag /\ d.reason \in Reasons
    BY <1>2 DEF NoDiag, Reasons
  <2>2. PICK code \in {"MODEL_NOT_FOUND", "OLLAMA_UNAVAILABLE"} : Throws(call, d, code)
    BY <1>6
  <2> HIDE DEF d
  <2> QED BY <1>4, <2>1, <2>2
<1>7. CASE Throws(call, [diag EXCEPT !.timeout = TimerFired,
                          !.reason = IF TimerFired THEN "TIMEOUT" ELSE "NON_STREAM_FAILED"],
                  "STREAM_INTERRUPTED")
  <2> DEFINE d == [diag EXCEPT !.timeout = TimerFired,
                          !.reason = IF TimerFired THEN "TIMEOUT" ELSE "NON_STREAM_FAILED"]
  <2>1. DOMAIN d = DOMAIN NoDiag /\ d.reason \in Reasons
    BY <1>2 DEF NoDiag, Reasons
  <2>2. Throws(call, d, "STREAM_INTERRUPTED")
    BY <1>7
  <2> HIDE DEF d
  <2> QED BY <1>4, <2>1, <2>2
<1> QED BY <1>3, <1>5, <1>6, <1>7 DEF NonStream
LEMMA TopKeeps == CallInv /\ Top => CallInv'
<1> SUFFICES ASSUME CallInv, Top PROVE CallInv'
  OBVIOUS
<1> DEFINE d == [diag EXCEPT !.cancelled = TRUE, !.timeout = TimerFired,
                             !.reason = IF TimerFired THEN "TIMEOUT" ELSE "CANCELLED"]
<1>1. At("top") /\ UNCHANGED <<provider, user>> /\ PartialOr(call, d, "OLLAMA_STREAM_CANCELLED")
  BY DEF Top
<1>2. /\ DOMAIN d = DOMAIN NoDiag /\ d.reason \in Reasons /\ ~d.completed /\ d.cancelled
  BY <1>1 DEF CallInv, CallShape, AnswerInv, NoDiag, Reasons
<1> HIDE DEF d
<1>3. Attempted(call, d) /\ ~CanRetry(call, d)
  BY <1>1, <1>2 DEF Attempted, CallInv, CallShape, PlaceInv, CanRetry
<1>4. call.outcome # "content" /\ call.attempt < 3 /\ call.shown = call.collected
  BY <1>1 DEF CallInv, PlaceInv, AnswerInv
<1> QED BY <1>1, <1>2, <1>3, <1>4, PartialOrKeeps

LEMMA ReadFailsKeeps == CallInv /\ ReadFails => CallInv'
<1> SUFFICES ASSUME CallInv, ReadFails PROVE CallInv'
  OBVIOUS
<1>1. At("read") /\ UNCHANGED <<provider, user>>
  BY DEF ReadFails
<1>2. /\ call.outcome # "content" /\ call.attempt < 3 /\ call.shown = call.collected
      /\ DOMAIN diag = DOMAIN NoDiag
  BY <1>1 DEF CallInv, PlaceInv, AnswerInv, CallShape
<1>3. CASE provider = "sidecar"
  <2> DEFINE d == [diag EXCEPT !.reason = IF TimerFired THEN "TIMEOUT" ELSE "TRANSPORT_ERROR"]
  <2>1. DOMAIN d = DOMAIN NoDiag /\ d.reason \in Reasons
    BY <1>2 DEF NoDiag, Reasons
  <2>2. Throws(call, d, "SIDECAR_UNAVAILABLE")
    BY <1>3 DEF ReadFails
  <2> HIDE DEF d
  <2>3. Attempted(call, d)
    BY <1>1, <2>1 DEF Attempted, CallInv, CallShape, PlaceInv
  <2> QED BY <1>1, <1>3, <2>2, <2>3, ThrowsKeeps
<1>4. CASE provider # "sidecar"
  <2> DEFINE d == [diag EXCEPT !.timeout = TimerFired,
                               !.reason = IF TimerFired THEN "TIMEOUT" ELSE "READER_READ_FAILED"]
  <2>1. /\ DOMAIN d = DOMAIN NoDiag /\ d.reason \in Reasons /\ ~d.completed /\ d.some = diag.some
    BY <1>1, <1>2 DEF CallInv, AnswerInv, NoDiag, Reasons
  <2>2. PartialOr(call, d, "STREAM_INTERRUPTED")
    BY <1>4 DEF ReadFails, Break
  <2> HIDE DEF d
  <2>3. Attempted(call, d)
    BY <1>1, <2>1 DEF Attempted, CallInv, CallShape, PlaceInv
  <2>4. CanRetry(call, d) => call.shown = <<>> /\ ~call.closed /\ ~call.done
    BY <1>1, <2>1 DEF CanRetry, CallInv, AnswerInv, Fresh
  <2> QED BY <1>1, <1>2, <2>1, <2>2, <2>3, <2>4, PartialOrKeeps
<1> QED BY <1>3, <1>4

LEMMA TraceKeeps == CallInv /\ Trace => CallInv'
<1> SUFFICES ASSUME CallInv, Trace PROVE CallInv'
  OBVIOUS
<1> DEFINE d == [diag EXCEPT !.completed = TRUE]
<1>1. At("trace") /\ UNCHANGED <<provider, user>> /\ Returns(call, d)
  BY DEF Trace
<1>2. DOMAIN d = DOMAIN NoDiag /\ d.reason \in Reasons
  BY <1>1 DEF CallInv, CallShape, CallTypeOK, NoDiag
<1> HIDE DEF d
<1>3. Attempted(call, d) /\ provider = "sidecar" /\ call.attempt < 3
  BY <1>1, <1>2 DEF Attempted, CallInv, CallShape, PlaceInv
<1>4. call.shown = call.collected
  BY <1>1 DEF CallInv, AnswerInv
<1> QED BY <1>1, <1>2, <1>3, <1>4, ReturnsKeeps

LEMMA CloseKeeps ==
    ASSUME CallInv, NEW cut \in BOOLEAN, Close(cut)
    PROVE  CallInv'
<1> DEFINE c == [call EXCEPT !.closed = TRUE, !.sent = IF cut THEN Append(@, "word") ELSE @]
<1>1. At("read") /\ UNCHANGED <<provider, user>>
  BY DEF Close
<1>2. /\ call.outcome # "content" /\ call.attempt < 3 /\ call.shown = call.collected
      /\ DOMAIN diag = DOMAIN NoDiag /\ diag.reason \in Reasons
  BY <1>1 DEF CallInv, PlaceInv, AnswerInv, CallShape, CallTypeOK
<1>3. /\ DOMAIN c = DOMAIN NoCall /\ c.closed /\ c.shown = c.collected
      /\ \A f \in DOMAIN NoCall \ {"closed", "sent"} : c[f] = call[f]
      /\ c.n = call.n /\ c.attempt = call.attempt /\ c.caller = call.caller
      /\ c.abort = call.abort /\ c.outcome = call.outcome /\ c.collected = call.collected
      /\ c.text = call.text /\ c.done = call.done
  BY <1>2 DEF CallInv, CallShape, NoCall
<1>4. \/ /\ Blank(c.collected)
         /\ Fails(c, [diag EXCEPT !.reason = "EMPTY_CONTENT", !.some = @ \/ cut],
                  IF provider = "ollama" THEN "MODEL_RESPONSE_INVALID" ELSE "STREAM_INTERRUPTED")
      \/ /\ provider = "sidecar"
         /\ call' = [c EXCEPT !.pc = "trace"] /\ diag' = diag /\ UNCHANGED last
      \/ Returns(c, [diag EXCEPT !.completed = TRUE, !.some = @ \/ cut])
  BY DEF Close
<1> HIDE DEF c
<1>5. ASSUME NEW d, DOMAIN d = DOMAIN NoDiag, d.reason \in Reasons
      PROVE  Attempted(c, d)
  BY <1>1, <1>3, <1>5 DEF Attempted, CallInv, PlaceInv
<1>6. CASE /\ Blank(c.collected)
           /\ Fails(c, [diag EXCEPT !.reason = "EMPTY_CONTENT", !.some = @ \/ cut],
                  IF provider = "ollama" THEN "MODEL_RESPONSE_INVALID" ELSE "STREAM_INTERRUPTED")
  <2> DEFINE d == [diag EXCEPT !.reason = "EMPTY_CONTENT", !.some = @ \/ cut]
             code == IF provider = "ollama" THEN "MODEL_RESPONSE_INVALID" ELSE "STREAM_INTERRUPTED"
  <2>1. DOMAIN d = DOMAIN NoDiag /\ d.reason = "EMPTY_CONTENT"
    BY <1>2 DEF NoDiag
  <2>2. Fails(c, d, code) /\ code # "content"
    BY <1>6
  <2> HIDE DEF d, code
  <2>3. ~CanRetry(c, d) /\ Attempted(c, d)
    BY <1>5, <2>1 DEF CanRetry, Reasons
  <2> QED BY <1>1, <1>2, <1>3, <1>6, <2>2, <2>3, FailsKeeps
<1>7. CASE /\ provider = "sidecar"
           /\ call' = [c EXCEPT !.pc = "trace"] /\ diag' = diag /\ UNCHANGED last
  <2>1. /\ DOMAIN call' = DOMAIN NoCall /\ call'.pc = "trace" /\ call'.n = call.n
        /\ call'.attempt = call.attempt /\ call'.caller = call.caller /\ call'.abort = call.abort
        /\ call'.outcome = call.outcome /\ call'.shown = call'.collected
    BY <1>3, <1>7 DEF NoCall
  <2>2. CallShape' /\ CallTypeOK' /\ call'.n \in Nat
    BY <1>1, <1>7, <2>1 DEF CallInv, CallShape, CallTypeOK
  <2>3. PlaceInv' /\ AnswerInv'
    BY <1>1, <1>2, <1>7, <2>1 DEF CallInv, PlaceInv, AnswerInv, CallPcs
  <2>4. ShownIsReturned' /\ CompletedIsWhole' /\ DiagnosticsOfCall'
    BY <1>2, <2>1 DEF ShownIsReturned, CompletedIsWhole, DiagnosticsOfCall
  <2> QED BY <2>2, <2>3, <2>4 DEF CallInv
<1>8. CASE Returns(c, [diag EXCEPT !.completed = TRUE, !.some = @ \/ cut])
  <2> DEFINE d == [diag EXCEPT !.completed = TRUE, !.some = @ \/ cut]
  <2>1. DOMAIN d = DOMAIN NoDiag /\ d.reason \in Reasons
    BY <1>2 DEF NoDiag
  <2>2. Returns(c, d)
    BY <1>8
  <2> HIDE DEF d
  <2> QED BY <1>1, <1>2, <1>3, <1>5, <2>1, <2>2, ReturnsKeeps
<1> QED BY <1>4, <1>6, <1>7, <1>8
----------------------------------------------------------------------------
\* A set of natural numbers that is not empty has a least element.
LEMMA LeastNatural ==
    ASSUME NEW T, T \subseteq Nat, T # {}
    PROVE  \E x \in T : \A y \in T : x <= y
<1> DEFINE R == {p \in Nat \X Nat : p[1] < p[2]}
<1>1. IsWellFoundedOn(R, Nat)
  BY NatLessThanWellFounded DEF OpToRel
<1>2. \A x, y \in Nat : <<y, x>> \in R <=> y < x
  OBVIOUS
<1> HIDE DEF R
<1>3. PICK x \in T : \A y \in T : <<y, x>> \notin R
  BY <1>1, WFMin
<1>4. \A y \in T : ~(y < x)
  BY <1>2, <1>3
<1> QED BY <1>4

LEMMA LeastIsMin ==
    ASSUME NEW T, T \subseteq Nat, T # {}
    PROVE  Min(T) \in T /\ \A y \in T : Min(T) <= y
BY LeastNatural DEF Min

\* Where a chunk has no line at which reading stops, all of it is read; where the first
\* such line is the last of the stream, what is read is the answer.
LEMMA NoStopIsAll ==
    ASSUME NEW lines, StopAt(lines) = 0, lines \in Seq(Lines)
    PROVE  /\ ReadOf(lines) = lines /\ AnswerOf(lines) = lines
           /\ provider = "ollama" => ~Contains(ReadOf(lines), "done")
<1> DEFINE I == {i \in 1..Len(lines) : lines[i] \in Stops}
           D == {i \in 1..Len(lines) : lines[i] \in Stops \cap {"done"}}
<1>1. StopAt(lines) = IF I # {} THEN Min(I) ELSE 0
  BY DEF StopAt, SelectInSeq
<1>2. I = {}
  <2>1. I \subseteq Nat /\ 0 \notin I
    OBVIOUS
  <2> HIDE DEF I
  <2> QED BY <1>1, <2>1, LeastIsMin
<1>3. D = {}
  BY <1>2
<1>4. SelectInSeq(lines, LAMBDA line : line \in Stops \cap {"done"}) = 0
  BY <1>3 DEF SelectInSeq
<1>5. ReadOf(lines) = lines /\ AnswerOf(lines) = lines
  BY <1>4 DEF ReadOf, AnswerOf
<1>6. provider = "ollama" => ~Contains(lines, "done")
  BY <1>2 DEF Contains, Stops
<1> QED BY <1>5, <1>6

LEMMA StopIsLine ==
    ASSUME NEW lines, lines \in Seq(Lines), StopAt(lines) # 0
    PROVE  lines[StopAt(lines)] \in Lines
<1> DEFINE I == {i \in 1..Len(lines) : lines[i] \in Stops}
<1>1. StopAt(lines) = IF I # {} THEN Min(I) ELSE 0
  BY DEF StopAt, SelectInSeq
<1>2. StopAt(lines) \in I
  <2>1. I \subseteq Nat
    OBVIOUS
  <2> HIDE DEF I
  <2> QED BY <1>1, <2>1, LeastIsMin
<1> QED BY <1>2

LEMMA DoneIsAnswer ==
    ASSUME NEW lines, lines \in Seq(Lines), StopAt(lines) # 0, lines[StopAt(lines)] = "done"
    PROVE  ReadOf(lines) = AnswerOf(lines) /\ Contains(ReadOf(lines), "done")
<1> DEFINE I == {i \in 1..Len(lines) : lines[i] \in Stops}
           D == {i \in 1..Len(lines) : lines[i] \in Stops \cap {"done"}}
           k == StopAt(lines)
           m == SelectInSeq(lines, LAMBDA line : line \in Stops \cap {"done"})
<1>1. k = (IF I # {} THEN Min(I) ELSE 0) /\ m = IF D # {} THEN Min(D) ELSE 0
  BY DEF StopAt, SelectInSeq
<1>2. I \subseteq Nat \ {0} /\ D \subseteq I
  OBVIOUS
<1>3. I # {} /\ k \in I /\ \A i \in I : k <= i
  <2> HIDE DEF I, D, m
  <2> QED BY <1>1, <1>2, LeastIsMin
<1>4. k \in D
  BY <1>3
<1>5. m \in D /\ \A i \in D : m <= i
  <2> HIDE DEF I, D, k
  <2> QED BY <1>1, <1>2, <1>4, LeastIsMin
<1>6. m = k /\ m # 0
  <2> HIDE DEF I, D, k, m
  <2> QED BY <1>2, <1>3, <1>4, <1>5
<1>7. ReadOf(lines) = SubSeq(lines, 1, k) /\ AnswerOf(lines) = SubSeq(lines, 1, m)
  BY <1>6 DEF ReadOf, AnswerOf
<1>8. k \in 1..Len(lines) /\ lines[k] = "done"
  BY <1>4
<1>9. Contains(SubSeq(lines, 1, k), "done")
  <2> HIDE DEF k
  <2>1. Len(SubSeq(lines, 1, k)) = k /\ SubSeq(lines, 1, k)[k] = "done"
    BY <1>8
  <2> QED BY <1>8, <2>1 DEF Contains
<1> QED BY <1>6, <1>7, <1>9

LEMMA ChunkKeeps ==
    ASSUME CallInv, NEW lines \in Chunks, Chunk(lines)
    PROVE  CallInv'
<1> DEFINE read == SelectSeq(ReadOf(lines), IsPiece)
           answer == SelectSeq(AnswerOf(lines), IsPiece)
           done == provider = "ollama" /\ Contains(ReadOf(lines), "done")
           c == [call EXCEPT !.sent = @ \o answer, !.collected = @ \o read,
                             !.shown = @ \o read, !.done = done]
           first == IF provider = "ollama" THEN ReadOf(lines) \notin {<<>>, <<"garbage">>}
                    ELSE read # <<>>
           d == [diag EXCEPT !.some = TRUE, !.first = @ \/ first]
           stop == IF StopAt(lines) = 0 THEN "none" ELSE lines[StopAt(lines)]
<1>1. At("read") /\ UNCHANGED <<provider, user>> /\ lines \in Seq(Lines)
  BY ModelCallAssumption DEF Chunk
<1>2. /\ call.outcome # "content" /\ call.attempt < 3 /\ call.attempt \in 1..3
      /\ call.shown = call.collected /\ call.collected = call.sent /\ ~call.closed
      /\ ~diag.completed /\ provider # "gateway"
      /\ DOMAIN call = DOMAIN NoCall /\ DOMAIN diag = DOMAIN NoDiag /\ diag.reason \in Reasons
  BY <1>1 DEF CallInv, PlaceInv, AnswerInv, CallShape, CallTypeOK
<1>3. \/ /\ stop = "none"
         /\ call' = [c EXCEPT !.pc = IF c.abort = "no" \/ provider = "sidecar" THEN "read"
                                     ELSE "top"]
         /\ diag' = d /\ UNCHANGED last
      \/ stop = "done" /\ Returns(c, [d EXCEPT !.completed = TRUE])
      \/ /\ stop \notin {"none", "done"} /\ provider = "ollama"
         /\ PartialOr(c, [d EXCEPT !.reason = "JSON_PARSE_FAILED"], "STREAM_INTERRUPTED")
      \/ /\ stop \notin {"none", "done"} /\ provider # "ollama"
         /\ Throws(c, [d EXCEPT !.reason = "JSON_PARSE_FAILED"], "STREAM_INTERRUPTED")
  BY DEF Chunk
<1>4. /\ DOMAIN c = DOMAIN NoCall /\ c.n = call.n /\ c.pc = call.pc /\ c.caller = call.caller
      /\ c.attempt = call.attempt /\ c.abort = call.abort /\ c.outcome = call.outcome
      /\ c.closed = call.closed /\ c.sent = call.sent \o answer
      /\ c.collected = call.collected \o read /\ c.shown = call.shown \o read /\ c.done = done
  BY <1>2 DEF NoCall
<1>5. /\ DOMAIN d = DOMAIN NoDiag /\ d.some /\ d.reason = diag.reason
      /\ ~d.completed
  BY <1>2 DEF NoDiag
<1>6. stop = "none" => read = answer /\ ~done
  <2>1. SUFFICES ASSUME stop = "none" PROVE read = answer /\ ~done
    OBVIOUS
  <2>2. StopAt(lines) = 0
    BY <1>1, <2>1, StopIsLine DEF Lines, Pieces
  <2> QED BY <1>1, <2>2, NoStopIsAll
<1>7. stop = "done" => read = answer /\ (provider = "ollama" => done)
  <2>1. SUFFICES ASSUME stop = "done" PROVE read = answer /\ (provider = "ollama" => done)
    OBVIOUS
  <2>2. StopAt(lines) # 0 /\ lines[StopAt(lines)] = "done"
    BY <2>1
  <2> QED BY <1>1, <2>2, DoneIsAnswer
<1> HIDE DEF read, answer, done, first, stop
<1>8. CASE /\ stop = "none"
           /\ call' = [c EXCEPT !.pc = IF c.abort = "no" \/ provider = "sidecar" THEN "read"
                                       ELSE "top"]
           /\ diag' = d /\ UNCHANGED last
  <2> HIDE DEF c, d
  <2>1. /\ DOMAIN call' = DOMAIN NoCall
        /\ call'.pc = IF c.abort = "no" \/ provider = "sidecar" THEN "read" ELSE "top"
        /\ call'.n = call.n /\ call'.caller = call.caller /\ call'.attempt = call.attempt
        /\ call'.abort = call.abort /\ call'.outcome = call.outcome /\ call'.closed = c.closed
        /\ call'.sent = c.sent /\ call'.collected = c.collected /\ call'.shown = c.shown
        /\ call'.done = c.done
    BY <1>4, <1>8 DEF NoCall
  <2>2. CallShape' /\ CallTypeOK' /\ call'.n \in Nat
    BY <1>1, <1>2, <1>5, <1>8, <2>1 DEF CallInv, CallShape, CallTypeOK
  <2>3. call'.pc = "read" \/ (call'.pc = "top" /\ provider = "ollama")
    BY <1>2, <2>1 DEF CallInv, CallTypeOK, Providers
  <2>4. PlaceInv'
    BY <1>1, <1>2, <2>1, <2>3 DEF PlaceInv, CallPcs
  <2>6. /\ call'.shown = call'.collected /\ call'.collected = call'.sent
        /\ ~call'.closed /\ ~call'.done
    BY <1>2, <1>4, <1>6, <1>8, <2>1
  <2>7. AnswerInv'
    BY <1>5, <1>8, <2>3, <2>6 DEF AnswerInv
  <2>5. ShownIsReturned' /\ CompletedIsWhole' /\ DiagnosticsOfCall'
    BY <1>2, <2>1 DEF ShownIsReturned, CompletedIsWhole, DiagnosticsOfCall
  <2> QED BY <2>2, <2>4, <2>5, <2>7 DEF CallInv
<1>9. ASSUME NEW e, DOMAIN e = DOMAIN NoDiag, e.reason \in Reasons
      PROVE  Attempted(c, e)
  <2> HIDE DEF c
  <2> QED BY <1>2, <1>4, <1>9 DEF Attempted
<1>10. CASE stop = "done" /\ Returns(c, [d EXCEPT !.completed = TRUE])
  <2> HIDE DEF c, d
  <2> DEFINE e == [d EXCEPT !.completed = TRUE]
  <2>1. DOMAIN e = DOMAIN NoDiag /\ e.reason \in Reasons
    BY <1>2, <1>5 DEF NoDiag
  <2>2. Returns(c, e)
    BY <1>10
  <2> HIDE DEF e
  <2>3. Attempted(c, e)
    BY <1>9, <2>1
  <2>4. c.shown = c.collected /\ c.attempt < 3 /\ c.collected = c.sent
    BY <1>2, <1>4, <1>7, <1>10
  <2>5. provider = "ollama" => c.done
    BY <1>4, <1>7, <1>10
  <2> QED BY <1>1, <2>2, <2>3, <2>4, <2>5, ReturnsKeeps
<1>11. ASSUME NEW e, e = [d EXCEPT !.reason = "JSON_PARSE_FAILED"]
       PROVE  /\ Attempted(c, e) /\ ~e.completed /\ ~CanRetry(c, e)
              /\ c.shown = c.collected /\ c.attempt < 3 /\ c.outcome # "content"
  <2> HIDE DEF c, d
  <2>1. DOMAIN e = DOMAIN NoDiag /\ e.reason = "JSON_PARSE_FAILED" /\ ~e.completed
    BY <1>5, <1>11 DEF NoDiag
  <2>2. Attempted(c, e) /\ ~CanRetry(c, e)
    BY <1>9, <2>1 DEF CanRetry, Reasons
  <2> QED BY <1>2, <1>4, <2>1, <2>2
<1>12. CASE /\ provider = "ollama"
            /\ PartialOr(c, [d EXCEPT !.reason = "JSON_PARSE_FAILED"], "STREAM_INTERRUPTED")
  <2> HIDE DEF c, d
  <2> QED BY <1>1, <1>11, <1>12, PartialOrKeeps
<1>13. CASE /\ provider # "ollama"
            /\ Throws(c, [d EXCEPT !.reason = "JSON_PARSE_FAILED"], "STREAM_INTERRUPTED")
  <2> HIDE DEF c, d
  <2> QED BY <1>1, <1>11, <1>13, ThrowsKeeps
<1> QED BY <1>3, <1>8, <1>10, <1>12, <1>13

LEMMA CallInvNext == CallInv /\ [CallNext]_callVars => CallInv'
<1> SUFFICES ASSUME CallInv, [CallNext]_callVars PROVE CallInv'
  OBVIOUS
<1>1. ASSUME NEW caller \in Callers, Start(caller) PROVE CallInv'
  BY <1>1, StartKeeps
<1>2. ASSUME NEW lines \in Chunks, Chunk(lines) PROVE CallInv'
  BY <1>2, ChunkKeeps
<1>3. ASSUME NEW cut \in BOOLEAN, Close(cut) PROVE CallInv'
  BY <1>3, CloseKeeps
<1>4. CASE UNCHANGED callVars
  BY <1>4 DEF callVars, CallInv, CallShape, CallTypeOK, PlaceInv, AnswerInv, ShownIsReturned,
     CompletedIsWhole, DiagnosticsOfCall, Blank
<1> QED BY <1>1, <1>2, <1>3, <1>4, CancelKeeps, TimerKeeps, DiscoversKeeps, ConnectsKeeps,
           BodyKeeps, NonStreamKeeps, TopKeeps, ReadFailsKeeps, TraceKeeps
        DEF CallNext, Caller, Server, Client

\* A call is well formed: two streams at most, only of Ollama, a third request only in
\* diagnostic mode, and a reason for every attempt that ended without content.
THEOREM CallsTyped == CallSpec => []CallTypeOK
<1>1. CallInv => CallTypeOK
  BY DEF CallInv
<1> QED BY CallInvInit, CallInvNext, <1>1, PTL DEF CallSpec

\* What was passed to onToken is what the call returns: a retry never shows a piece twice
\* (ollamaProvider.ts, canRetry), and an Ollama call that fails showed no text.
THEOREM ShownReturned == CallSpec => []ShownIsReturned
<1>1. CallInv => ShownIsReturned
  BY DEF CallInv
<1> QED BY CallInvInit, CallInvNext, <1>1, PTL DEF CallSpec

\* An answer of Ollama that is said to be completed is all that was sent before the last
\* line, whatever arrives together with that line, or the server closed the stream.
THEOREM CompletedWhole == CallSpec => []CompletedIsWhole
<1>1. CallInv => CompletedIsWhole
  BY DEF CallInv
<1> QED BY CallInvInit, CallInvNext, <1>1, PTL DEF CallSpec

\* The diagnostics an Ollama provider keeps are those of the last attempt of the last call.
THEOREM DiagnosticsFollow == CallSpec => []DiagnosticsOfCall
<1>1. CallInv => DiagnosticsOfCall
  BY DEF CallInv
<1> QED BY CallInvInit, CallInvNext, <1>1, PTL DEF CallSpec
----------------------------------------------------------------------------
(* A call only takes so many steps *)

PlacesLeft(pc) ==
    CASE pc = "connect" -> 3
      [] pc \in {"body", "read"} -> 2
      [] pc \in {"discover", "top", "trace"} -> 1
      [] OTHER -> 0
\* Of an attempt: its places, the abort of its signal and the cancellation of the caller.
AttemptLeft(pc, abort, cancelled) ==
    2 * PlacesLeft(pc) + (IF abort = "no" THEN 1 ELSE 0) + (IF cancelled THEN 0 ELSE 1)
LeftAt(pc, attempt, abort, cancelled) ==
    IF pc \in {"idle", "ended"} THEN 0
    ELSE 8 * (3 - attempt) + AttemptLeft(pc, abort, cancelled)
CallLeft == LeftAt(call.pc, call.attempt, call.abort, user)

\* What the provider does, the timer, the cancellation and the end of a stream each leave
\* fewer steps to a call: a retry costs an attempt, and three are all there are.  What the
\* server sends gives it none back, so only a stream that never ends keeps a call going.
CallsAdvance ==
    [][/\ CallLeft \in 0..28
       /\ Client \/ Timer \/ Cancel \/ (\E cut \in BOOLEAN : Close(cut)) =>
              CallLeft' < CallLeft
       /\ (\E lines \in Chunks : Chunk(lines)) => CallLeft' <= CallLeft]_callVars

LEMMA PlacesLeftValues ==
    /\ PlacesLeft("connect") = 3 /\ PlacesLeft("body") = 2 /\ PlacesLeft("read") = 2
    /\ PlacesLeft("discover") = 1 /\ PlacesLeft("top") = 1 /\ PlacesLeft("trace") = 1
BY DEF PlacesLeft

LEMMA AttemptLeftRange ==
    ASSUME NEW pc \in CallPcs \ {"idle", "ended"}, NEW abort, NEW cancelled
    PROVE  /\ AttemptLeft(pc, abort, cancelled) \in Int
           /\ AttemptLeft(pc, abort, cancelled) >= 2 + (IF cancelled THEN 0 ELSE 1)
           /\ AttemptLeft(pc, abort, cancelled) <= 7 + (IF cancelled THEN 0 ELSE 1)
           /\ pc = "discover" => AttemptLeft(pc, abort, cancelled) <= 4
BY PlacesLeftValues DEF AttemptLeft, CallPcs

LEMMA CallLeftRange == CallInv => CallLeft \in 0..28 /\ (Active => CallLeft > 0)
<1> SUFFICES ASSUME CallInv PROVE CallLeft \in 0..28 /\ (Active => CallLeft > 0)
  OBVIOUS
<1>1. CASE ~Active
  BY <1>1 DEF CallLeft, LeftAt
<1>2. CASE Active
  <2>1. /\ call.pc \in CallPcs \ {"idle", "ended"} /\ call.attempt \in 0..3
        /\ call.attempt = 0 => call.pc = "discover"
    BY <1>2 DEF CallInv, CallTypeOK, PlaceInv, CallPcs
  <2>2. CallLeft = 8 * (3 - call.attempt) + AttemptLeft(call.pc, call.abort, user)
    BY <1>2 DEF CallLeft, LeftAt
  <2> DEFINE a == AttemptLeft(call.pc, call.abort, user)
  <2>3. a \in Int /\ a >= 2 /\ a <= 8 /\ (call.pc = "discover" => a <= 4)
    BY <2>1, AttemptLeftRange
  <2> HIDE DEF a
  <2> QED BY <2>1, <2>2, <2>3 DEF a
<1> QED BY <1>1, <1>2

\* The ways a step leaves fewer: the call ends, it goes on to a later place of its attempt,
\* or it makes the next attempt.
LEMMA EndingAdvances ==
    ASSUME CallInv, Active, call'.pc = "ended"
    PROVE  CallLeft' < CallLeft
<1>1. CallLeft' = 0
  BY DEF CallLeft, LeftAt
<1> QED BY <1>1, CallLeftRange

LEMMA MovingAdvances ==
    ASSUME CallInv, Active, call'.pc \notin {"idle", "ended"}, call'.attempt = call.attempt,
           call'.abort = call.abort, user' = user, PlacesLeft(call'.pc) \in Int,
           PlacesLeft(call.pc) \in Int, PlacesLeft(call'.pc) < PlacesLeft(call.pc)
    PROVE  CallLeft' < CallLeft
<1>1. call.attempt \in 0..3
  BY DEF CallInv, CallTypeOK
<1>2. /\ CallLeft' = 8 * (3 - call.attempt) + AttemptLeft(call'.pc, call.abort, user)
      /\ CallLeft = 8 * (3 - call.attempt) + AttemptLeft(call.pc, call.abort, user)
  BY DEF CallLeft, LeftAt
<1> QED BY <1>1, <1>2 DEF AttemptLeft

LEMMA RetryAdvances ==
    ASSUME CallInv, Active, NEW k \in 1..3, call.attempt < k,
           call'.pc = "connect", call'.attempt = k, user' = user
    PROVE  CallLeft' < CallLeft
<1>1. call.pc \in CallPcs \ {"idle", "ended"} /\ call.attempt \in 0..3
  BY DEF CallInv, CallTypeOK, PlaceInv
<1> DEFINE now == AttemptLeft(call.pc, call.abort, user)
           next == AttemptLeft("connect", call'.abort, user)
           open == IF user THEN 0 ELSE 1
<1>2. /\ CallLeft = 8 * (3 - call.attempt) + now
      /\ CallLeft' = 8 * (3 - k) + next
  BY DEF CallLeft, LeftAt
<1>3. now \in Int /\ next \in Int /\ open \in Int /\ now >= 2 + open /\ next <= 7 + open
  BY <1>1, AttemptLeftRange DEF CallPcs
<1> HIDE DEF now, next, open
<1> QED BY <1>1, <1>2, <1>3

LEMMA FailsAdvances ==
    ASSUME CallInv, Active, NEW c, NEW d, NEW code, DOMAIN c = DOMAIN NoCall,
           c.attempt = call.attempt, c.attempt \in 1..3, user' = user,
           Fails(c, d, code) \/ PartialOr(c, d, code) \/ Returns(c, d) \/ Throws(c, d, code)
    PROVE  CallLeft' < CallLeft
<1>1. CASE Returns(c, d) \/ Throws(c, d, code)
  <2>1. call'.pc = "ended"
    BY <1>1 DEF Returns, Throws, NoCall
  <2> QED BY <2>1, EndingAdvances
<1>2. CASE c.attempt \in 1..2 /\ call' = Attempting(c, c.attempt + 1)
  <2>1. call'.pc = "connect" /\ call'.attempt = call.attempt + 1
    BY <1>2 DEF Attempting, NoCall
  <2> QED BY <1>2, <2>1, RetryAdvances
<1> QED BY <1>1, <1>2 DEF Fails, PartialOr

LEMMA DiscoversAdvances == CallInv /\ Discovers => CallLeft' < CallLeft
<1> SUFFICES ASSUME CallInv, Discovers PROVE CallLeft' < CallLeft
  OBVIOUS
<1>1. At("discover") /\ user' = user /\ DOMAIN call = DOMAIN NoCall /\ call.attempt = 0
  BY DEF Discovers, CallInv, CallShape, PlaceInv
<1>2. call'.pc = "ended" \/ (call'.pc = "connect" /\ call'.attempt = 1)
  BY <1>1 DEF Discovers, Attempting, NoCall
<1> QED BY <1>1, <1>2, EndingAdvances, RetryAdvances

\* What an attempt awaits, but for the end of its stream.
LEMMA AttemptAdvances ==
    CallInv /\ (Connects \/ Body \/ NonStream \/ Top \/ ReadFails \/ Trace) =>
        CallLeft' < CallLeft
<1> SUFFICES ASSUME CallInv, Connects \/ Body \/ NonStream \/ Top \/ ReadFails \/ Trace
             PROVE  CallLeft' < CallLeft
  OBVIOUS
<1>1. /\ Active /\ user' = user /\ DOMAIN call = DOMAIN NoCall
      /\ call.attempt \in 1..3 /\ call.pc \in {"connect", "body", "read", "top", "trace"}
  BY DEF Connects, Body, NonStream, Top, ReadFails, Trace, CallInv, CallShape, PlaceInv
<1>2. CASE Connects
  <2>1. CASE \E d, code : Fails(call, d, code) \/ Throws(call, d, code)
    BY <1>1, <2>1, FailsAdvances
  <2>2. CASE call' = [call EXCEPT !.pc = IF provider = "gateway" THEN "body" ELSE "read"]
    <3>1. /\ call'.pc \in {"body", "read"} /\ call'.attempt = call.attempt
          /\ call'.abort = call.abort /\ At("connect")
      BY <1>1, <1>2, <2>2 DEF Connects, NoCall
    <3>2. PlacesLeft(call'.pc) = 2 /\ PlacesLeft(call.pc) = 3
      BY <3>1, PlacesLeftValues
    <3> QED BY <1>1, <3>1, <3>2, MovingAdvances
  <2> QED BY <1>2, <2>1, <2>2 DEF Connects
<1>3. CASE Body \/ NonStream
  <2> DEFINE c == [call EXCEPT !.collected = <<"word">>, !.sent = <<"word">>]
  <2>1. DOMAIN c = DOMAIN NoCall /\ c.attempt = call.attempt
    BY <1>1 DEF NoCall
  <2>2. \E d, code : Returns(c, d) \/ Throws(call, d, code)
    BY <1>3 DEF Body, NonStream
  <2> HIDE DEF c
  <2> QED BY <1>1, <2>1, <2>2, FailsAdvances
<1>4. CASE Top
  <2>1. \E d, code : PartialOr(call, d, code)
    BY <1>4 DEF Top
  <2> QED BY <1>1, <2>1, FailsAdvances
<1>5. CASE ReadFails
  <2>1. \E d, code : PartialOr(call, d, code) \/ Throws(call, d, code)
    BY <1>5 DEF ReadFails
  <2> QED BY <1>1, <2>1, FailsAdvances
<1>6. CASE Trace
  <2>1. \E d : Returns(call, d)
    BY <1>6 DEF Trace
  <2> QED BY <1>1, <2>1, FailsAdvances
<1> QED BY <1>2, <1>3, <1>4, <1>5, <1>6

LEMMA CloseAdvances ==
    ASSUME CallInv, NEW cut \in BOOLEAN, Close(cut)
    PROVE  CallLeft' < CallLeft
<1> DEFINE c == [call EXCEPT !.closed = TRUE, !.sent = IF cut THEN Append(@, "word") ELSE @]
<1>1. /\ At("read") /\ user' = user /\ DOMAIN call = DOMAIN NoCall /\ call.attempt \in 1..3
  BY DEF Close, CallInv, CallShape, PlaceInv
<1>2. DOMAIN c = DOMAIN NoCall /\ c.attempt = call.attempt /\ c.abort = call.abort
  BY <1>1 DEF NoCall
<1>3. \/ \E d, code : Fails(c, d, code) \/ Returns(c, d)
      \/ call' = [c EXCEPT !.pc = "trace"]
  BY DEF Close
<1> HIDE DEF c
<1>4. CASE \E d, code : Fails(c, d, code) \/ Returns(c, d)
  BY <1>1, <1>2, <1>4, FailsAdvances
<1>5. CASE call' = [c EXCEPT !.pc = "trace"]
  <2>1. call'.pc = "trace" /\ call'.attempt = call.attempt /\ call'.abort = call.abort
    BY <1>2, <1>5 DEF NoCall
  <2>2. PlacesLeft(call'.pc) = 1 /\ PlacesLeft(call.pc) = 2
    BY <1>1, <2>1, PlacesLeftValues
  <2> QED BY <1>1, <2>1, <2>2, MovingAdvances
<1> QED BY <1>3, <1>4, <1>5

\* An abort and a cancellation happen once in an attempt and a call.
LEMMA AbortAdvances == CallInv /\ (Timer \/ Cancel) => CallLeft' < CallLeft
<1> SUFFICES ASSUME CallInv, Timer \/ Cancel PROVE CallLeft' < CallLeft
  OBVIOUS
<1>1. /\ Active /\ DOMAIN call = DOMAIN NoCall /\ call.attempt \in 0..3
      /\ call.pc \in CallPcs \ {"idle", "ended"}
  BY DEF Timer, Cancel, CallInv, CallShape, CallTypeOK, PlaceInv
<1>2. /\ call'.pc = call.pc /\ call'.attempt = call.attempt
      /\ \/ call.abort = "no" /\ call'.abort # "no" /\ user' = user
         \/ (call.abort = "no" \/ call'.abort # "no") /\ ~user /\ user'
  BY <1>1 DEF Timer, Cancel, NoCall
<1>3. PlacesLeft(call.pc) \in Int
  BY <1>1, PlacesLeftValues DEF CallPcs
<1>4. /\ CallLeft = 8 * (3 - call.attempt) + AttemptLeft(call.pc, call.abort, user)
      /\ CallLeft' = 8 * (3 - call.attempt) + AttemptLeft(call.pc, call'.abort, user')
  BY <1>1, <1>2 DEF CallLeft, LeftAt
<1>5. AttemptLeft(call.pc, call'.abort, user') < AttemptLeft(call.pc, call.abort, user)
  BY <1>2, <1>3 DEF AttemptLeft
<1>6. /\ AttemptLeft(call.pc, call'.abort, user') \in Int
      /\ AttemptLeft(call.pc, call.abort, user) \in Int
  BY <1>3 DEF AttemptLeft
<1> QED BY <1>1, <1>4, <1>5, <1>6

CallLeftTyped == CallLeft \in Int

LEMMA CallLeftNext == CallInv /\ [CallNext]_callVars => CallLeft' \in Int
<1>1. CallInv => CallLeftTyped
  BY CallLeftRange DEF CallLeftTyped
<1>2. CallInv /\ [CallNext]_callVars => CallLeftTyped'
  BY <1>1, CallInvNext, PTL
<1> QED BY <1>2 DEF CallLeftTyped

LEMMA ChunkAdvances ==
    ASSUME CallInv, NEW lines \in Chunks, Chunk(lines)
    PROVE  CallLeft' <= CallLeft
<1>1. /\ At("read") /\ user' = user /\ DOMAIN call = DOMAIN NoCall /\ call.attempt \in 1..3
  BY DEF Chunk, CallInv, CallShape, PlaceInv
<1> DEFINE read == SelectSeq(ReadOf(lines), IsPiece)
           c == [call EXCEPT !.sent = @ \o SelectSeq(AnswerOf(lines), IsPiece),
                             !.collected = @ \o read, !.shown = @ \o read,
                             !.done = provider = "ollama" /\ Contains(ReadOf(lines), "done")]
<1>2. DOMAIN c = DOMAIN NoCall /\ c.attempt = call.attempt /\ c.abort = call.abort
  BY <1>1 DEF NoCall
<1>3. \/ \E d, code : PartialOr(c, d, code) \/ Throws(c, d, code) \/ Returns(c, d)
      \/ call' = [c EXCEPT !.pc = IF c.abort = "no" \/ provider = "sidecar" THEN "read"
                                  ELSE "top"]
  BY DEF Chunk
<1> HIDE DEF c
<1>4. CallLeft \in Int
  BY CallLeftRange
<1>5. CASE \E d, code : PartialOr(c, d, code) \/ Throws(c, d, code) \/ Returns(c, d)
  <2>1. CallLeft' < CallLeft
    BY <1>1, <1>2, <1>5, FailsAdvances
  <2>2. CallLeft' \in Int
    BY CallLeftNext DEF CallNext, Server
  <2> QED BY <1>4, <2>1, <2>2
<1>6. CASE call' = [c EXCEPT !.pc = IF c.abort = "no" \/ provider = "sidecar" THEN "read"
                                    ELSE "top"]
  <2>1. call'.pc \in {"read", "top"} /\ call'.attempt = call.attempt /\ call'.abort = call.abort
    BY <1>2, <1>6 DEF NoCall
  <2>2. CASE call'.pc = "read"
    BY <1>1, <1>4, <2>1, <2>2 DEF CallLeft
  <2>3. CASE call'.pc = "top"
    <3>1. PlacesLeft(call'.pc) = 1 /\ PlacesLeft(call.pc) = 2
      BY <1>1, <2>3, PlacesLeftValues
    <3>2. CallLeft' < CallLeft
      BY <1>1, <2>1, <2>3, <3>1, MovingAdvances
    <3>3. CallLeft' \in Int
      BY CallLeftNext DEF CallNext, Server
    <3> QED BY <1>4, <3>2, <3>3
  <2> QED BY <2>1, <2>2, <2>3
<1> QED BY <1>3, <1>5, <1>6

\* No provider asks, retries or waits for ever by itself: a call has at most 28 steps that
\* are not the arrival of another chunk, however often its stream breaks off
\* (ollamaProvider.ts, generate; its retries and the request in one piece).
THEOREM CallsFinite == CallSpec => CallsAdvance
<1>1. ASSUME CallInv, Client \/ Timer \/ Cancel \/ (\E cut \in BOOLEAN : Close(cut))
      PROVE  CallLeft' < CallLeft
  BY <1>1, DiscoversAdvances, AttemptAdvances, CloseAdvances, AbortAdvances DEF Client
<1>2. ASSUME CallInv, NEW lines \in Chunks, Chunk(lines) PROVE CallLeft' <= CallLeft
  BY <1>2, ChunkAdvances
<1>3. CallInv /\ [CallNext]_callVars =>
        [/\ CallLeft \in 0..28
         /\ Client \/ Timer \/ Cancel \/ (\E cut \in BOOLEAN : Close(cut)) =>
                CallLeft' < CallLeft
         /\ (\E lines \in Chunks : Chunk(lines)) => CallLeft' <= CallLeft]_callVars
  BY <1>1, <1>2, CallLeftRange
<1> QED BY <1>3, CallInvInit, CallInvNext, PTL DEF CallSpec, CallsAdvance
=============================================================================
