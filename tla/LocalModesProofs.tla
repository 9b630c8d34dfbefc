-------------------------- MODULE LocalModesProofs --------------------------
(***************************************************************************)
(* Proofs about LocalModes, for any number of requests and any prompts,     *)
(* answers, steps of the user and faults: a reported commit is what the     *)
(* tests passed on, a report without a commit is of a run that made none,   *)
(* and code reported as passed compiled without violations.                 *)
(*                                                                         *)
(* The inductive invariant says of every request how far it has come        *)
(* (SeqInv), and of one that nobody disturbed what the repository           *)
(* (TargetInv) and the scratch files (ScratchInv) still hold for it.  What  *)
(* another actor changes is covered by disturbed: a step either leaves what *)
(* a request relies on alone or puts the request there.                     *)
(***************************************************************************)
EXTENDS LocalModes, TLAPS

EngineerPcs == {"planner", "self", "read", "write", "test", "add", "commit", "revParse", "report"}
ScratchPcs == {"prepare", "generate", "generateTests", "save", "saveTests", "compile", "runTests"}
Pcs == {"idle", "done", "rejected"} \cup EngineerPcs \cup ScratchPcs

Texts == File \cup {NoFile}
CommitType == [text : Texts, other : BOOLEAN]
Picks == Parts \cup {"none"}
Written == Codes \cup {"absent"}
Shas == Requests \cup {"others", "unknown", "none"}
ReqType ==
    [pc : Pcs, prompt : PromptType, seen : Texts, pick : Picks, wrote : BOOLEAN,
     passed : Nat, tested : Texts, commit : CommitType, late : BOOLEAN,
     code : Written, test : Written, compiles : BOOLEAN,
     attempts : Nat, verdict : Verdicts, sha : Shas]

\* What the requests share.
SharedType ==
    /\ file \in Texts /\ index \in Texts /\ staged \in BOOLEAN
    /\ head \in [text : Texts, by : Requests \cup {"others"}]
    /\ scratch \in ScratchFiles /\ setting \in {start.setting : start \in Starts}
    /\ disturbed \subseteq Requests /\ user \in 0..setting.user /\ faults \in 0..MaxFaults

Limit(q) == IF q.prompt.kind = "workflow" THEN 3 ELSE 2

\* How far a request has come.
SeqInv(q) ==
    /\ q.verdict # "none" <=> q.pc = "done"
    /\ q.pc \in EngineerPcs => q.prompt.kind = "engineer" /\ q.prompt.tests > 0
    /\ q.pc \in {"planner", "self", "read", "write"} => q.passed = 0 /\ ~q.wrote
    /\ q.pc = "planner" => q.prompt.front = "planner"
    /\ q.pc \in {"self", "read"} => q.prompt.front = "self"
    /\ q.pc = "write" => q.prompt.scoped /\ q.seen # NoFile
    /\ q.pc = "read" \/ (q.pc = "write" /\ q.prompt.front # "planner") =>
        q.prompt.scoped /\ q.pick \in Parts
    /\ q.wrote => q.prompt.scoped /\ (q.prompt.front = "self" /\ q.pc \in EngineerPcs => q.pick \in Parts)
    /\ q.passed <= q.prompt.tests
    /\ q.pc = "test" => q.passed < q.prompt.tests
    /\ q.pc \in {"add", "commit", "revParse"} => q.wrote
    /\ q.pc = "report" \/ q.verdict = "noChanges" => ~q.wrote
    /\ q.commit # NoCommit => q.pc = "revParse" \/ q.verdict = "committed" \/ q.late
    /\ q.late => q.pc = "done"
    /\ q.pc \in {"save", "compile"} => q.prompt.kind \in {"workflow", "exam"}
    /\ q.pc \in {"generateTests", "saveTests", "runTests"} => q.prompt.kind = "workflow"
    /\ q.pc = "prepare" => q.prompt.kind \in {"workflow", "exam"}
    /\ q.pc = "generate" => q.prompt.kind # "engineer"
    /\ q.pc \in {"save", "saveTests", "compile", "runTests"} => q.code # "absent"
    /\ q.verdict = "passed" => q.prompt.kind = "exam" /\ q.code # "absent"
    /\ q.attempts < Limit(q)

HasChange(q, text) == q.prompt.front = "self" => text[q.pick] = "new"
\* What the target, the index and HEAD hold for an engineer that nobody disturbed.
TargetInv(q, r, target, staging, last) ==
    /\ q.pc = "test" /\ q.wrote => HasChange(q, target)
    /\ q.pc = "add" => target = q.tested /\ HasChange(q, target)
    /\ q.pc = "commit" => staging = q.tested /\ HasChange(q, staging)
    /\ q.pc \in {"add", "commit", "revParse"} => q.passed = q.prompt.tests
    /\ q.pc = "revParse" => q.commit.text = q.tested /\ HasChange(q, q.tested) /\ last.by = r
    /\ q.verdict = "committed" =>
        /\ q.passed = q.prompt.tests /\ q.commit.text = q.tested
        /\ HasChange(q, q.commit.text) /\ q.sha \in {r, "unknown"}

Compilable(files) == files["exam"] \notin {"absent", "untyped"}
\* What the scratch files hold for an exam that nobody disturbed.
ScratchInv(q, files, where) ==
    /\ q.pc = "compile" /\ q.prompt.kind = "exam" => files["exam"] = q.code
    /\ q.verdict = "passed" =>
        /\ q.code # "violates"
        /\ IF where.same THEN q.code = "clean" ELSE Compilable(where.found)

ReqInv(q, r, away, target, staging, last, files, where) ==
    /\ SeqInv(q)
    /\ ~away => TargetInv(q, r, target, staging, last) /\ ScratchInv(q, files, where)

LocalInv ==
    /\ SharedType
    /\ req \in [Requests -> ReqType]
    /\ \A r \in Requests :
          ReqInv(req[r], r, r \in disturbed, file, index, head, scratch, setting)----------------------------------------------------------------------------
(* The requests a step does not carry out *)

\* The step leaves alone what the other requests rely on, or disturbs them.
Kept(r) ==
    \A s \in Requests \ {r} : s \notin disturbed' =>
        /\ s \notin disturbed
        /\ TargetInv(req[s], s, file', index', head')
        /\ ScratchInv(req[s], scratch', setting)

\* What one request may become by a step of its own.
Next1(r, q) ==
    /\ SharedType' /\ setting' = setting
    /\ q \in ReqType /\ SeqInv(q)
    /\ r \notin disturbed' =>
        TargetInv(q, r, file', index', head') /\ ScratchInv(q, scratch', setting)

LEMMA Combine ==
    ASSUME LocalInv, NEW r \in Requests, NEW q,
           req' = [req EXCEPT ![r] = q], Next1(r, q), Kept(r)
    PROVE  LocalInv'
<1>1. req' \in [Requests -> ReqType]
  BY DEF LocalInv, Next1
<1>2. ASSUME NEW s \in Requests
      PROVE  ReqInv(req[s], s, s \in disturbed, file, index, head, scratch, setting)'
  <2>1. CASE s = r
    BY <2>1 DEF LocalInv, Next1, ReqInv
  <2>2. CASE s # r
    <3>1. req'[s] = req[s]
      BY <2>2 DEF LocalInv
    <3>2. SeqInv(req[s])
      BY DEF LocalInv, ReqInv
    <3> QED BY <2>2, <3>1, <3>2 DEF Next1, Kept, ReqInv
  <2> QED BY <2>1, <2>2
<1> QED BY <1>1, <1>2 DEF LocalInv, Next1

LEMMA KeptQuiet ==
    ASSUME LocalInv, NEW r \in Requests, UNCHANGED <<repo, scratch, setting, disturbed>>
    PROVE  Kept(r)
  BY DEF LocalInv, ReqInv, Kept, repo

LEMMA KeptDisturbed ==
    ASSUME LocalInv, NEW r, NEW others,
           \A s \in Requests \ {r} : req[s].pc \in EngineerPcs => s \in others,
           Disturb(others), UNCHANGED <<scratch, setting>>
    PROVE  Kept(r)
<1> SUFFICES ASSUME NEW s \in Requests \ {r}, s \notin disturbed'
             PROVE  /\ s \notin disturbed
                    /\ TargetInv(req[s], s, file', index', head')
                    /\ ScratchInv(req[s], scratch', setting)
  BY DEF Kept
<1>1. s \notin disturbed /\ ~(s \in others /\ Running(s))
  BY DEF Disturb
<1>2. TargetInv(req[s], s, file, index, head) /\ ScratchInv(req[s], scratch, setting)
      /\ req[s] \in ReqType /\ SeqInv(req[s])
  BY <1>1 DEF LocalInv, ReqInv
<1>3. req[s].pc \notin EngineerPcs
  BY <1>1 DEF Running, EngineerPcs
<1>4. TargetInv(req[s], s, file', index', head')
  BY <1>2, <1>3 DEF TargetInv, EngineerPcs
<1> QED BY <1>1, <1>2, <1>4

LEMMA KeptScratch ==
    ASSUME LocalInv, NEW r \in Requests, NEW k \in Scratch, NEW code,
           scratch' = [scratch EXCEPT ![k] = code],
           Disturb(Sharing(IF k = "exam" THEN {"exam"} ELSE {"workflow"}) \ {r}),
           UNCHANGED <<repo, setting>>
    PROVE  Kept(r)
<1> SUFFICES ASSUME NEW s \in Requests \ {r}, s \notin disturbed'
             PROVE  /\ s \notin disturbed
                    /\ TargetInv(req[s], s, file', index', head')
                    /\ ScratchInv(req[s], scratch', setting)
  BY DEF Kept
<1>1. s \notin disturbed
  BY DEF Disturb
<1>2. TargetInv(req[s], s, file, index, head) /\ ScratchInv(req[s], scratch, setting)
  BY <1>1 DEF LocalInv, ReqInv
<1>3. k = "exam" /\ req[s].prompt.kind = "exam" => req[s].pc # "compile"
  BY DEF Disturb, Sharing, Running, Kind
<1>4. k # "exam" => scratch'["exam"] = scratch["exam"]
  BY DEF LocalInv, SharedType, ScratchFiles, Scratch
<1> QED BY <1>1, <1>2, <1>3, <1>4 DEF ScratchInv, repo----------------------------------------------------------------------------
(* How a request ends *)

\* The reports a request may end with.
MayEnd(q, pc, verdict) ==
    \/ pc = "done" /\ verdict \in {"blocked", "ready", "failed"}
    \/ pc = "rejected" /\ verdict = "none"
    \/ pc = "done" /\ verdict = "noChanges" /\ ~q.wrote
    \/ pc = "done" /\ verdict = "passed" /\ q.prompt.kind = "exam" /\ q.code # "absent"

Busy(q) == q.pc \notin {"idle", "done", "rejected", "revParse"}

LEMMA EndedOk ==
    ASSUME NEW q \in ReqType, SeqInv(q), Busy(q), NEW pc, NEW verdict, MayEnd(q, pc, verdict)
    PROVE  /\ Ended(q, pc, verdict) \in ReqType
           /\ SeqInv(Ended(q, pc, verdict))
<1> DEFINE e == Ended(q, pc, verdict)
<1>1. /\ e.pc = pc /\ e.verdict = verdict /\ e.passed = 0 /\ e.attempts = 0 /\ e.pick = "none"
      /\ e.prompt = q.prompt /\ e.wrote = q.wrote /\ e.commit = q.commit /\ e.late = q.late
      /\ e.code = IF verdict \in {"passed", "failed"} THEN q.code ELSE "absent"
  BY DEF Ended, ReqType
<1>2. e \in ReqType
  <2>1. pc \in Pcs /\ verdict \in Verdicts /\ NoFile \in Texts
    BY DEF MayEnd, Verdicts, Pcs, Texts
  <2> DEFINE code == IF verdict \in {"passed", "failed"} THEN q.code ELSE "absent"
             test == IF verdict = "failed" THEN q.test ELSE "absent"
  <2>2. code \in Written /\ test \in Written
    BY DEF ReqType, Written
  <2>3. "none" \in Picks
    BY DEF Picks
  <2>4. e = [q EXCEPT !.pc = pc, !.verdict = verdict, !.seen = NoFile, !.pick = "none",
                      !.passed = 0, !.tested = NoFile, !.compiles = FALSE, !.attempts = 0,
                      !.code = code, !.test = test]
    BY DEF Ended
  <2> HIDE DEF e, code, test
  <2> QED BY <2>1, <2>2, <2>3, <2>4 DEF ReqType
<1>3. q.commit = NoCommit /\ ~q.late
  BY DEF SeqInv, Busy, EngineerPcs
<1> HIDE DEF e
<1>4. pc \notin EngineerPcs \cup ScratchPcs
  BY DEF MayEnd, EngineerPcs, ScratchPcs
<1>5. q.prompt.tests \in Nat
  BY DEF ReqType, PromptType
<1>6. SeqInv(e)
  BY <1>1, <1>3, <1>4, <1>5 DEF SeqInv, MayEnd, EngineerPcs, ScratchPcs, Limit
<1> QED BY <1>2, <1>6 DEF e

LEMMA Ending ==
    ASSUME LocalInv, NEW r \in Requests, Busy(req[r]), NEW pc, NEW verdict,
           MayEnd(req[r], pc, verdict), End(r, pc, verdict),
           verdict = "passed" /\ r \notin disturbed' =>
               /\ req[r].code # "violates"
               /\ IF setting.same THEN req[r].code = "clean" ELSE Compilable(setting.found),
           SharedType', setting' = setting, Kept(r)
    PROVE  LocalInv'
<1> DEFINE q == req[r]
           e == Ended(q, pc, verdict)
<1>1. q \in ReqType /\ SeqInv(q)
  BY DEF LocalInv, ReqInv
<1>2. e \in ReqType /\ SeqInv(e)
  BY <1>1, EndedOk
<1>3. /\ e.pc = pc /\ e.verdict = verdict
      /\ verdict = "passed" => e.code = q.code
  BY <1>1 DEF Ended, ReqType
<1>4. req' = [req EXCEPT ![r] = e]
  BY DEF End
<1> HIDE DEF e
<1>5. TargetInv(e, r, file', index', head')
  BY <1>3 DEF TargetInv, MayEnd
<1>6. r \notin disturbed' => ScratchInv(e, scratch', setting)
  BY <1>3 DEF ScratchInv, MayEnd
<1>7. Next1(r, e)
  BY <1>2, <1>5, <1>6 DEF Next1
<1> QED BY <1>4, <1>7, Combine
----------------------------------------------------------------------------
(* Starting, and the engineer's fronts *)

LEMMA Mine ==
    ASSUME LocalInv, NEW r \in Requests
    PROVE  /\ req[r] \in ReqType /\ SeqInv(req[r])
           /\ r \notin disturbed => /\ TargetInv(req[r], r, file, index, head)
                                    /\ ScratchInv(req[r], scratch, setting)
           /\ req[r].prompt \in PromptType /\ SharedType /\ req \in [Requests -> ReqType]
  BY DEF LocalInv, ReqInv, ReqType

LEMMA SharedQuiet ==
    ASSUME LocalInv, UNCHANGED <<repo, scratch, setting, disturbed, user>>,
           UNCHANGED faults \/ Fault
    PROVE  SharedType'
  BY LocalAssumption DEF LocalInv, SharedType, repo, Fault

\* A request that ends in a step that changes nothing else.
LEMMA QuietEnd ==
    ASSUME LocalInv, NEW r \in Requests, Busy(req[r]), NEW pc, NEW verdict,
           MayEnd(req[r], pc, verdict), verdict # "passed", End(r, pc, verdict),
           UNCHANGED <<repo, scratch, setting, disturbed, user>>, UNCHANGED faults \/ Fault
    PROVE  LocalInv'
<1>1. SharedType' /\ Kept(r)
  BY SharedQuiet, KeptQuiet
<1> QED BY <1>1, Ending

LEMMA BeginOk ==
    ASSUME LocalInv, NEW r \in Requests, NEW prompt \in setting.prompts, Begin(r, prompt)
    PROVE  LocalInv'
<1> DEFINE q == [Idle EXCEPT !.prompt = prompt]
           pc == IF Refused(prompt) THEN "done"
                 ELSE IF prompt.kind = "engineer" THEN prompt.front
                 ELSE IF prompt.kind = "chatExam" THEN "generate" ELSE "prepare"
           verdict == IF Refused(prompt) THEN "refused" ELSE "none"
           nq == [q EXCEPT !.pc = pc, !.verdict = verdict]
<1>1. prompt \in PromptType
  BY LocalAssumption DEF LocalInv, SharedType
<1>2. req' = [req EXCEPT ![r] = nq]
  <2>1. CASE Refused(prompt)
    BY <2>1 DEF Begin
  <2>2. CASE ~Refused(prompt)
    <3>1. req' = [req EXCEPT ![r] = [q EXCEPT !.pc = pc]]
      BY <2>2 DEF Begin
    <3>2. q.verdict = "none"
      BY DEF Idle
    <3>3. [q EXCEPT !.pc = pc] = nq
      BY ZenonT(30), <2>2, <3>2 DEF Idle
    <3> QED BY <3>1, <3>3
  <2> QED BY <2>1, <2>2
<1>3. /\ prompt.kind = "engineer" /\ ~Refused(prompt) =>
            prompt.front \in {"planner", "self"} /\ prompt.tests > 0
      /\ prompt.kind \in Kinds /\ prompt.tests \in Nat
  BY <1>1 DEF Refused, PromptType
<1>4. pc \in Pcs /\ verdict \in Verdicts
  BY <1>3 DEF Pcs, EngineerPcs, ScratchPcs, Verdicts, Kinds
<1>5. /\ NoFile \in Texts /\ "none" \in Picks /\ NoCommit \in CommitType
      /\ "absent" \in Written /\ "none" \in Shas
  BY DEF Texts, Picks, CommitType, NoCommit, Written, Shas
<1>6. /\ (verdict # "none" <=> pc = "done")
      /\ pc \in {"done", "planner", "self", "generate", "prepare"}
      /\ pc \in {"planner", "self"} => prompt.kind = "engineer" /\ prompt.tests > 0 /\ pc = prompt.front
      /\ pc = "generate" => prompt.kind = "chatExam"
      /\ pc = "prepare" => prompt.kind \in {"workflow", "exam"}
      /\ verdict \in {"none", "refused"}
  BY <1>3 DEF Kinds
<1> HIDE DEF pc, verdict
<1>7. /\ nq.pc = pc /\ nq.prompt = prompt /\ nq.wrote = FALSE /\ nq.passed = 0
      /\ nq.commit = NoCommit /\ nq.late = FALSE /\ nq.attempts = 0 /\ nq.verdict = verdict
  BY DEF Idle
<1>8. nq \in ReqType
  <2>1. Idle \in ReqType
    <3>1. NoPrompt \in PromptType /\ "idle" \in Pcs /\ "none" \in Verdicts
      BY DEF NoPrompt, PromptType, Kinds, Pcs, Verdicts
    <3> QED BY <1>5, <3>1 DEF Idle, ReqType
  <2> QED BY <1>1, <1>4, <2>1 DEF ReqType
<1> HIDE DEF nq
<1>9. SeqInv(nq)
  BY <1>3, <1>6, <1>7 DEF SeqInv, EngineerPcs, ScratchPcs, Limit
<1>10. /\ TargetInv(nq, r, file', index', head')
       /\ ScratchInv(nq, scratch', setting)
  BY <1>6, <1>7 DEF TargetInv, ScratchInv
<1>11. UNCHANGED <<repo, scratch, setting, disturbed, user, faults>>
  BY DEF Begin
<1>12. SharedType' /\ Kept(r)
  BY <1>11, SharedQuiet, KeptQuiet
<1>13. Next1(r, nq)
  BY <1>8, <1>9, <1>10, <1>11, <1>12 DEF Next1
<1> QED BY <1>2, <1>12, <1>13, Combine

\* A request that goes on in a step that changes nothing else.
LEMMA QuietStep ==
    ASSUME LocalInv, NEW r \in Requests, NEW q,
           req' = [req EXCEPT ![r] = q], q \in ReqType, SeqInv(q),
           r \notin disturbed => /\ TargetInv(q, r, file, index, head)
                                 /\ ScratchInv(q, scratch, setting),
           UNCHANGED <<repo, scratch, setting, disturbed, user>>, UNCHANGED faults \/ Fault
    PROVE  LocalInv'
<1>1. SharedType' /\ Kept(r)
  BY SharedQuiet, KeptQuiet
<1>2. UNCHANGED <<file, index, head, scratch, disturbed, setting>>
  BY DEF repo
<1>3. Next1(r, q)
  BY <1>1, <1>2 DEF Next1
<1> QED BY <1>1, <1>3, Combine

\* The first steps of an engineer: nothing is written or tested yet.
Front(r, seen, pick, pc) ==
    /\ req[r].pc \in {"planner", "self", "read"} /\ pc \in {"read", "write", "test"}
    /\ seen \in Texts /\ pick \in Picks
    /\ req' = [req EXCEPT ![r] = [req[r] EXCEPT !.seen = seen, !.pick = pick, !.pc = pc]]
    /\ pc = "read" => req[r].pc = "self" /\ req[r].prompt.scoped /\ pick \in Parts
    /\ pc = "write" => req[r].prompt.scoped /\ seen # NoFile
    /\ pc = "write" /\ req[r].prompt.front # "planner" => pick \in Parts
    /\ UNCHANGED <<repo, scratch, setting, disturbed, user, faults>>

LEMMA FrontStep ==
    ASSUME LocalInv, NEW r \in Requests, NEW seen, NEW pick, NEW pc, Front(r, seen, pick, pc)
    PROVE  LocalInv'
<1> USE DEF Front
<1> DEFINE q == req[r]
           nq == [q EXCEPT !.seen = seen, !.pick = pick, !.pc = pc]
<1>0. /\ q \in ReqType /\ SeqInv(q) /\ q.prompt.tests \in Nat
  BY Mine DEF PromptType
<1>1. nq \in ReqType
  BY <1>0 DEF ReqType, Pcs, EngineerPcs
<1>2. /\ nq.pc = pc /\ nq.pick = pick /\ nq.seen = seen /\ nq.prompt = q.prompt /\ nq.wrote = q.wrote
      /\ nq.passed = q.passed /\ nq.commit = q.commit /\ nq.late = q.late
      /\ nq.verdict = q.verdict /\ nq.attempts = q.attempts /\ nq.code = q.code
  BY <1>0 DEF ReqType
<1> HIDE DEF nq
<1>3. SeqInv(nq)
  BY <1>0, <1>2 DEF SeqInv, EngineerPcs, ScratchPcs, Limit
<1>4. TargetInv(nq, r, file, index, head) /\ ScratchInv(nq, scratch, setting)
  BY <1>0, <1>2 DEF TargetInv, ScratchInv, SeqInv, EngineerPcs
<1> QED BY <1>1, <1>3, <1>4, QuietStep DEF nq

LEMMA PlannerReadsOk ==
    ASSUME LocalInv, NEW r \in Requests, PlannerReads(r)
    PROVE  LocalInv'
<1> DEFINE q == req[r]
<1>0. /\ q \in ReqType /\ SeqInv(q) /\ q.pc = "planner" /\ q.prompt.front = "planner"
      /\ Busy(q) /\ file \in Texts /\ req \in [Requests -> ReqType]
      /\ UNCHANGED <<repo, scratch, setting, disturbed, user, faults>>
  BY Mine DEF PlannerReads, At, SeqInv, Busy, SharedType
<1>1. CASE ~q.prompt.scoped
  BY <1>0, <1>1, QuietEnd DEF PlannerReads, Report, MayEnd
<1>2. CASE q.prompt.scoped /\ file = NoFile
  BY <1>0, <1>2, QuietEnd DEF PlannerReads, Reject, MayEnd
<1>3. CASE q.prompt.scoped /\ file # NoFile
  <2> DEFINE pc == IF Patched(file) = file THEN "test" ELSE "write"
  <2>1. req' = [req EXCEPT ![r].seen = file, ![r].pc = pc]
    BY <1>3 DEF PlannerReads
  <2> HIDE DEF pc
  <2>2. q.pick \in Picks /\ pc \in {"write", "test"}
    BY <1>0 DEF ReqType, pc
  <2>3. req' = [req EXCEPT ![r] = [req[r] EXCEPT !.seen = file, !.pick = q.pick, !.pc = pc]]
    BY <1>0, <2>1 DEF ReqType
  <2>4. Front(r, file, q.pick, pc)
    BY <1>0, <1>3, <2>2, <2>3 DEF Front
  <2> QED BY <2>4, FrontStep
<1> QED BY <1>1, <1>2, <1>3

\* The candidate a front picks is one of the target's snippets.
LEMMA FirstPendingIs ==
    ASSUME NEW text, Pending(text) # {}
    PROVE  FirstPending(text) \in Parts
<1>1. Pending(text) \subseteq 1..3
  BY DEF Pending, Candidates
<1>2. \E i \in Pending(text) : \A j \in Pending(text) : i <= j
  BY <1>1
<1>3. PICK i \in DOMAIN Candidates : FirstPending(text) = Candidates[i]
  BY <1>2 DEF FirstPending, Pending
<1> QED BY <1>3 DEF Parts

LEMMA InspectsOk ==
    ASSUME LocalInv, NEW r \in Requests, Inspects(r)
    PROVE  LocalInv'
<1> DEFINE q == req[r]
<1>0. /\ q \in ReqType /\ SeqInv(q) /\ q.pc = "self" /\ Busy(q)
      /\ q.pick \in Picks /\ q.seen \in Texts /\ req \in [Requests -> ReqType]
      /\ UNCHANGED <<repo, scratch, setting, disturbed, user>>
  BY Mine DEF Inspects, At, Busy, ReqType
<1>1. CASE Fault /\ Reject(r)
  BY <1>0, <1>1, QuietEnd DEF Reject, MayEnd
<1>2. CASE UNCHANGED faults /\ Goto(r, "test")
  <2>1. req' = [req EXCEPT ![r] = [req[r] EXCEPT !.seen = q.seen, !.pick = q.pick, !.pc = "test"]]
    BY <1>0, <1>2 DEF ReqType, Goto
  <2>2. Front(r, q.seen, q.pick, "test")
    BY <1>0, <1>2, <2>1 DEF Front
  <2> QED BY <2>2, FrontStep
<1>3. CASE /\ UNCHANGED faults /\ q.prompt.scoped /\ file # NoFile /\ Pending(file) # {}
           /\ req' = [req EXCEPT ![r].pick = FirstPending(file), ![r].pc = "read"]
  <2> DEFINE pick == FirstPending(file)
  <2>1. pick \in Parts /\ pick \in Picks
    BY <1>3, FirstPendingIs DEF Picks
  <2>2. req' = [req EXCEPT ![r].pick = pick, ![r].pc = "read"]
    BY <1>3
  <2> HIDE DEF pick
  <2>3. req' = [req EXCEPT ![r] = [req[r] EXCEPT !.seen = q.seen, !.pick = pick, !.pc = "read"]]
    BY <1>0, <2>2 DEF ReqType
  <2>4. Front(r, q.seen, pick, "read")
    BY <1>0, <1>3, <2>1, <2>3 DEF Front
  <2> QED BY <2>4, FrontStep
<1> QED BY <1>1, <1>2, <1>3 DEF Inspects

LEMMA ReadsAgainOk ==
    ASSUME LocalInv, NEW r \in Requests, ReadsAgain(r)
    PROVE  LocalInv'
<1> DEFINE q == req[r]
<1>0. /\ q \in ReqType /\ SeqInv(q) /\ q.pc = "read" /\ Busy(q) /\ q.prompt.scoped
      /\ q.pick \in Picks /\ q.pick \in Parts /\ q.seen \in Texts /\ req \in [Requests -> ReqType]
      /\ file \in Texts /\ UNCHANGED <<repo, scratch, setting, disturbed, user, faults>>
  BY Mine DEF ReadsAgain, At, Busy, ReqType, SeqInv, SharedType
<1>1. CASE file = NoFile
  BY <1>0, <1>1, QuietEnd DEF ReadsAgain, Reject, MayEnd
<1>2. CASE file # NoFile /\ file[q.pick] # "old"
  <2>1. req' = [req EXCEPT ![r] = [req[r] EXCEPT !.seen = q.seen, !.pick = q.pick, !.pc = "test"]]
    BY <1>0, <1>2 DEF ReqType, Goto, ReadsAgain
  <2>2. Front(r, q.seen, q.pick, "test")
    BY <1>0, <1>2, <2>1 DEF Front
  <2> QED BY <2>2, FrontStep
<1>3. CASE file # NoFile /\ file[q.pick] = "old"
  <2>1. req' = [req EXCEPT ![r] = [req[r] EXCEPT !.seen = file, !.pick = q.pick, !.pc = "write"]]
    BY <1>0, <1>3 DEF ReqType, ReadsAgain
  <2>2. Front(r, file, q.pick, "write")
    BY <1>0, <1>3, <2>1 DEF Front
  <2> QED BY <2>2, FrontStep
<1> QED BY <1>1, <1>2, <1>3

LEMMA WritesOk ==
    ASSUME LocalInv, NEW r \in Requests, Writes(r)
    PROVE  LocalInv'
<1> DEFINE q == req[r]
           nq == [q EXCEPT !.wrote = TRUE, !.pc = "test"]
<1>0. /\ q \in ReqType /\ SeqInv(q) /\ q.pc = "write" /\ req \in [Requests -> ReqType]
      /\ q.seen \in File /\ q.prompt.tests \in Nat /\ SharedType
      /\ q.prompt.front \in {"planner", "self", "unknown"}
      /\ q.prompt.scoped /\ (q.prompt.front # "planner" => q.pick \in Parts)
  BY Mine DEF Writes, At, ReqType, SeqInv, PromptType, Texts
<1>1. file' = IF q.prompt.front = "planner" THEN Patched(q.seen)
              ELSE [q.seen EXCEPT ![q.pick] = "new"]
  BY DEF Writes
<1>2. file' \in File
  BY <1>0, <1>1 DEF File, Patched
<1>3. q.prompt.front = "self" => file'[q.pick] = "new"
  BY <1>0, <1>1 DEF File
<1>4. req' = [req EXCEPT ![r] = nq]
  BY <1>0 DEF Writes, ReqType
<1>5. /\ Disturb(Requests \ {r})
      /\ UNCHANGED <<index, staged, head, scratch, setting, user, faults>>
  BY DEF Writes
<1>6. SharedType'
  BY <1>0, <1>2, <1>5 DEF SharedType, Texts, Disturb
<1>7. Kept(r)
  BY <1>5, KeptDisturbed
<1>8. nq \in ReqType
  BY <1>0 DEF ReqType, Pcs, EngineerPcs
<1>9. /\ nq.pc = "test" /\ nq.pick = q.pick /\ nq.prompt = q.prompt /\ nq.wrote = TRUE
      /\ nq.passed = q.passed /\ nq.commit = q.commit /\ nq.late = q.late
      /\ nq.verdict = q.verdict /\ nq.attempts = q.attempts /\ nq.code = q.code
  BY <1>0 DEF ReqType
<1> HIDE DEF nq
<1>10. SeqInv(nq)
  BY <1>0, <1>9 DEF SeqInv, EngineerPcs, ScratchPcs, Limit
<1>11. /\ TargetInv(nq, r, file', index', head')
       /\ ScratchInv(nq, scratch', setting)
  BY <1>0, <1>3, <1>9 DEF TargetInv, ScratchInv, SeqInv, HasChange
<1>12. Next1(r, nq)
  BY <1>5, <1>6, <1>8, <1>10, <1>11 DEF Next1
<1> QED BY <1>4, <1>7, <1>12, Combine

LEMMA TargetFailsOk ==
    ASSUME LocalInv, NEW r \in Requests, TargetFails(r)
    PROVE  LocalInv'
<1>0. /\ Busy(req[r]) /\ SharedType /\ Fault /\ Reject(r)
      /\ UNCHANGED <<index, staged, head, scratch, setting, user>>
  BY Mine DEF TargetFails, At, Busy
<1>1. MayEnd(req[r], "rejected", "none") /\ End(r, "rejected", "none")
  BY <1>0 DEF Reject, MayEnd
<1>2. CASE UNCHANGED <<file, disturbed>>
  <2>1. UNCHANGED <<repo, scratch, setting, disturbed, user>>
    BY <1>0, <1>2 DEF repo
  <2> QED BY <1>0, <1>1, <2>1, QuietEnd
<1>3. CASE file' = Emptied /\ Disturb(Requests \ {r})
  <2>1. Emptied \in Texts
    BY DEF Emptied, Texts, File
  <2>2. SharedType'
    BY <1>0, <1>3, <2>1, LocalAssumption DEF SharedType, Disturb, Fault
  <2>3. Kept(r)
    BY <1>0, <1>3, KeptDisturbed
  <2> QED BY <1>0, <1>1, <2>2, <2>3, Ending
<1> QED BY <1>2, <1>3 DEF TargetFails
----------------------------------------------------------------------------
(* The engineer's commands *)

LEMMA TestsOk ==
    ASSUME LocalInv, NEW r \in Requests, Tests(r)
    PROVE  LocalInv'
<1> DEFINE q == req[r]
           passed == q.passed + 1
           pc == IF passed = q.prompt.tests THEN NextCommand(r) ELSE "test"
           nq == [q EXCEPT !.passed = passed, !.tested = file, !.pc = pc]
<1>0. /\ q \in ReqType /\ SeqInv(q) /\ q.pc = "test" /\ req \in [Requests -> ReqType]
      /\ Busy(q) /\ q.passed \in Nat /\ q.prompt.tests \in Nat /\ file \in Texts
      /\ UNCHANGED <<repo, scratch, setting, disturbed, user, faults>>
      /\ r \notin disturbed => TargetInv(q, r, file, index, head)
  BY Mine DEF Tests, At, ReqType, PromptType, Busy, SharedType
<1>1. CASE Report(r, "blocked")
  BY <1>0, <1>1, QuietEnd DEF Report, MayEnd
<1>2. CASE req' = [req EXCEPT ![r].passed = passed, ![r].tested = file, ![r].pc = pc]
  <2>1. /\ passed \in Nat /\ pc \in {"test", "add", "report"}
        /\ pc = "test" => passed # q.prompt.tests
        /\ pc # "test" => passed = q.prompt.tests
        /\ pc = "add" => q.wrote
        /\ pc = "report" => ~q.wrote
        /\ passed <= q.prompt.tests
    BY <1>0 DEF SeqInv, NextCommand
  <2> HIDE DEF passed, pc
  <2>2. req' = [req EXCEPT ![r] = nq]
    BY <1>0, <1>2 DEF ReqType
  <2>3. nq \in ReqType
    BY <1>0, <2>1 DEF ReqType, Pcs, EngineerPcs
  <2>4. /\ nq.pc = pc /\ nq.passed = passed /\ nq.tested = file
        /\ nq.pick = q.pick /\ nq.prompt = q.prompt /\ nq.wrote = q.wrote
        /\ nq.commit = q.commit /\ nq.late = q.late /\ nq.verdict = q.verdict
        /\ nq.attempts = q.attempts
    BY <1>0 DEF ReqType
  <2> HIDE DEF nq
  <2>5. SeqInv(nq)
    BY <1>0, <2>1, <2>4 DEF SeqInv, EngineerPcs, ScratchPcs, Limit
  <2>6. r \notin disturbed => TargetInv(nq, r, file, index, head)
    BY <1>0, <2>1, <2>4 DEF TargetInv, HasChange, SeqInv
  <2>7. ScratchInv(nq, scratch, setting)
    BY <1>0, <2>1, <2>4 DEF ScratchInv, SeqInv
  <2> QED BY <1>0, <2>2, <2>3, <2>5, <2>6, <2>7, QuietStep
<1> QED BY <1>1, <1>2 DEF Tests

\* A request that goes on after a command of git.
LEMMA CommandStep ==
    ASSUME LocalInv, NEW r \in Requests, NEW q,
           req' = [req EXCEPT ![r] = q], q \in ReqType, SeqInv(q),
           r \notin disturbed' => TargetInv(q, r, file', index', head'),
           ScratchInv(q, scratch, setting),
           SharedType', UNCHANGED <<scratch, setting>>, Disturb(Requests \ {r})
    PROVE  LocalInv'
<1>1. Kept(r)
  BY KeptDisturbed
<1>2. Next1(r, q)
  BY DEF Next1
<1> QED BY <1>1, <1>2, Combine

LEMMA AddsOk ==
    ASSUME LocalInv, NEW r \in Requests, Adds(r)
    PROVE  LocalInv'
<1> DEFINE q == req[r]
           nq == [q EXCEPT !.pc = "commit"]
<1>0. /\ q \in ReqType /\ SeqInv(q) /\ q.pc = "add" /\ req \in [Requests -> ReqType]
      /\ Busy(q) /\ SharedType /\ Disturb(Requests \ {r})
      /\ UNCHANGED <<file, staged, head, scratch, setting, user>>
      /\ r \notin disturbed => TargetInv(q, r, file, index, head)
      /\ index' \in {index, file} /\ (UNCHANGED faults \/ Fault)
  BY Mine DEF Adds, At, Busy
<1>1. SharedType'
  BY <1>0, LocalAssumption DEF SharedType, Disturb, Fault
<1>2. CASE Report(r, "blocked")
  <2>1. Kept(r)
    BY <1>0, KeptDisturbed
  <2>2. MayEnd(q, "done", "blocked") /\ End(r, "done", "blocked") /\ setting' = setting
    BY <1>0, <1>2 DEF Report, MayEnd
  <2> QED BY <1>0, <1>1, <2>1, <2>2, Ending
<1>3. CASE index' = file /\ Goto(r, "commit")
  <2>1. req' = [req EXCEPT ![r] = nq]
    BY <1>0, <1>3 DEF ReqType, Goto
  <2>2. nq \in ReqType
    BY <1>0 DEF ReqType, Pcs, EngineerPcs
  <2>3. /\ nq.pc = "commit" /\ nq.passed = q.passed /\ nq.tested = q.tested
        /\ nq.pick = q.pick /\ nq.prompt = q.prompt /\ nq.wrote = q.wrote
        /\ nq.commit = q.commit /\ nq.late = q.late /\ nq.verdict = q.verdict
        /\ nq.attempts = q.attempts
    BY <1>0 DEF ReqType
  <2> HIDE DEF nq
  <2>4. SeqInv(nq)
    BY <1>0, <2>3 DEF SeqInv, EngineerPcs, ScratchPcs, Limit
  <2>5. r \notin disturbed' => TargetInv(nq, r, file', index', head')
    BY <1>0, <1>3, <2>3 DEF TargetInv, HasChange, SeqInv, Disturb
  <2>6. ScratchInv(nq, scratch, setting)
    BY <1>0, <2>3 DEF ScratchInv, SeqInv
  <2>7. UNCHANGED <<scratch, setting>>
    BY <1>0
  <2> QED BY <1>0, <1>1, <2>1, <2>2, <2>4, <2>5, <2>6, <2>7, CommandStep
<1> QED BY <1>2, <1>3 DEF Adds

LEMMA CommitsOk ==
    ASSUME LocalInv, NEW r \in Requests, Commits(r)
    PROVE  LocalInv'
<1> DEFINE q == req[r]
           commit == [text |-> index, other |-> staged]
<1>0. /\ q \in ReqType /\ SeqInv(q) /\ q.pc = "commit" /\ req \in [Requests -> ReqType]
      /\ Busy(q) /\ SharedType /\ UNCHANGED <<file, index, scratch, setting, user>>
      /\ r \notin disturbed => TargetInv(q, r, file, index, head)
      /\ UNCHANGED faults \/ Fault
      /\ commit \in CommitType /\ commit.text = index /\ NoFile \in Texts
  BY Mine DEF Commits, At, Busy, SharedType, CommitType, Texts
<1> HIDE DEF commit
<1>1. CASE Report(r, "blocked") /\ UNCHANGED <<head, staged, disturbed>>
  <2>1. UNCHANGED <<repo, scratch, setting, disturbed, user>>
    BY <1>0, <1>1 DEF repo
  <2> QED BY <1>0, <1>1, <2>1, QuietEnd DEF Report, MayEnd
<1>2. CASE Committed(r) /\ Disturb(Requests \ {r})
  <2>1. SharedType'
    <3>1. head' \in [text : Texts, by : Requests \cup {"others"}] /\ staged' \in BOOLEAN
      BY <1>0, <1>2 DEF SharedType, Committed
    <3>2. disturbed' \subseteq Requests /\ faults' \in 0..MaxFaults
      BY <1>0, <1>2, LocalAssumption DEF SharedType, Disturb, Fault
    <3> QED BY <1>0, <3>1, <3>2 DEF SharedType
  <2>2. UNCHANGED <<scratch, setting>> /\ head'.by = r
    BY <1>0, <1>2 DEF Committed
  <2>3. CASE req' = [req EXCEPT ![r].commit = commit, ![r].pc = "revParse"]
    <3> DEFINE nq == [q EXCEPT !.commit = commit, !.pc = "revParse"]
    <3>1. req' = [req EXCEPT ![r] = nq]
      BY <1>0, <2>3 DEF ReqType
    <3>2. nq \in ReqType
      BY <1>0 DEF ReqType, Pcs, EngineerPcs
    <3>3. /\ nq.pc = "revParse" /\ nq.passed = q.passed /\ nq.tested = q.tested
          /\ nq.pick = q.pick /\ nq.prompt = q.prompt /\ nq.wrote = q.wrote
          /\ nq.commit = commit /\ nq.late = q.late /\ nq.verdict = q.verdict
          /\ nq.attempts = q.attempts
      BY <1>0 DEF ReqType
    <3> HIDE DEF nq
    <3>4. SeqInv(nq)
      BY <1>0, <3>3 DEF SeqInv, EngineerPcs, ScratchPcs, Limit
    <3>5. r \notin disturbed' => TargetInv(nq, r, file', index', head')
      BY <1>0, <1>2, <2>2, <3>3 DEF TargetInv, HasChange, SeqInv, Disturb
    <3>6. ScratchInv(nq, scratch, setting)
      BY <1>0, <3>3 DEF ScratchInv, SeqInv
    <3> QED BY <1>2, <2>1, <2>2, <3>1, <3>2, <3>4, <3>5, <3>6, CommandStep
  <2>4. CASE req' = [req EXCEPT ![r].commit = commit, ![r].late = TRUE, ![r].seen = NoFile,
                                ![r].pc = "done", ![r].verdict = "blocked"]
    <3> DEFINE nq == [q EXCEPT !.commit = commit, !.late = TRUE, !.seen = NoFile,
                               !.pc = "done", !.verdict = "blocked"]
    <3>1. req' = [req EXCEPT ![r] = nq]
      BY <1>0, <2>4 DEF ReqType
    <3>2. nq \in ReqType
      BY <1>0 DEF ReqType, Pcs, EngineerPcs, Verdicts
    <3>3. /\ nq.pc = "done" /\ nq.verdict = "blocked" /\ nq.passed = q.passed /\ nq.late = TRUE
          /\ nq.pick = q.pick /\ nq.prompt = q.prompt /\ nq.wrote = q.wrote
          /\ nq.attempts = q.attempts
      BY <1>0 DEF ReqType
    <3> HIDE DEF nq
    <3>4. SeqInv(nq)
      BY <1>0, <3>3 DEF SeqInv, EngineerPcs, ScratchPcs, Limit
    <3>5. TargetInv(nq, r, file', index', head')
      BY <3>3 DEF TargetInv
    <3>6. ScratchInv(nq, scratch, setting)
      BY <3>3 DEF ScratchInv
    <3> QED BY <1>2, <2>1, <2>2, <3>1, <3>2, <3>4, <3>5, <3>6, CommandStep
  <2>5. QED
    BY <1>0, <1>1, <1>2, <2>3, <2>4, Zenon DEF Commits, commit, Report, End
<1> QED BY <1>1, <1>2 DEF Commits

LEMMA RevParsesOk ==
    ASSUME LocalInv, NEW r \in Requests, RevParses(r)
    PROVE  LocalInv'
<1> DEFINE q == req[r]
<1>0. /\ q \in ReqType /\ SeqInv(q) /\ q.pc = "revParse" /\ req \in [Requests -> ReqType]
      /\ head.by \in Requests \cup {"others"} /\ NoFile \in Texts
      /\ UNCHANGED <<repo, scratch, setting, disturbed, user, faults>>
      /\ r \notin disturbed => TargetInv(q, r, file, index, head)
  BY Mine DEF RevParses, At, SharedType, Texts
<1>1. PICK sha \in {head.by, "unknown"} :
          req' = [req EXCEPT ![r].pc = "done", ![r].verdict = "committed",
                             ![r].sha = sha, ![r].seen = NoFile]
  BY DEF RevParses
<1> DEFINE nq == [q EXCEPT !.pc = "done", !.verdict = "committed", !.sha = sha, !.seen = NoFile]
<1>2. req' = [req EXCEPT ![r] = nq]
  BY <1>0, <1>1 DEF ReqType
<1>3. sha \in Shas
  BY <1>0 DEF Shas
<1>4. nq \in ReqType
  BY <1>0, <1>3 DEF ReqType, Pcs, Verdicts
<1>5. /\ nq.pc = "done" /\ nq.verdict = "committed" /\ nq.passed = q.passed /\ nq.sha = sha
      /\ nq.pick = q.pick /\ nq.prompt = q.prompt /\ nq.wrote = q.wrote
      /\ nq.attempts = q.attempts /\ nq.tested = q.tested /\ nq.commit = q.commit
      /\ nq.late = q.late
  BY <1>0 DEF ReqType
<1> HIDE DEF nq
<1>6. SeqInv(nq)
  BY <1>0, <1>5 DEF SeqInv, EngineerPcs, ScratchPcs, Limit
<1>7. r \notin disturbed => TargetInv(nq, r, file, index, head)
  BY <1>0, <1>5 DEF TargetInv, HasChange, SeqInv
<1>8. ScratchInv(nq, scratch, setting)
  BY <1>5 DEF ScratchInv
<1> QED BY <1>0, <1>2, <1>4, <1>6, <1>7, <1>8, QuietStep

LEMMA ReportsOk ==
    ASSUME LocalInv, NEW r \in Requests, Reports(r)
    PROVE  LocalInv'
<1>1. /\ req[r].pc = "report" /\ ~req[r].wrote
      /\ UNCHANGED <<repo, scratch, setting, disturbed, user, faults>>
  BY Mine DEF Reports, At, SeqInv
<1>2. MayEnd(req[r], "done", "noChanges") /\ Busy(req[r]) /\ End(r, "done", "noChanges")
  BY <1>1 DEF MayEnd, Busy, Reports, Report
<1> QED BY <1>1, <1>2, QuietEnd
----------------------------------------------------------------------------
(* The scratch files *)

\* The points of a request that generates code, and what it has by then.
Scratching(q) ==
    /\ q.pc \in ScratchPcs
    /\ q.pc = "generate" \/ q.prompt.kind \in {"workflow", "exam"}
    /\ q.prompt.kind # "engineer"
    /\ q.commit = NoCommit /\ ~q.late /\ q.verdict = "none"

LEMMA ScratchingIs ==
    ASSUME LocalInv, NEW r \in Requests, req[r].pc \in ScratchPcs
    PROVE  Scratching(req[r]) /\ Busy(req[r]) /\ req[r].attempts \in Nat
           /\ req[r].prompt.kind \in Kinds
  BY Mine DEF SeqInv, ScratchPcs, EngineerPcs, Scratching, Busy, ReqType, PromptType

\* A request goes on with its code, its test and its attempts.
Generating(r, code, test, compiles, attempts, pc) ==
    /\ req[r].pc \in ScratchPcs /\ pc \in ScratchPcs \ {"prepare"}
    /\ code \in Written /\ test \in Written /\ compiles \in BOOLEAN
    /\ attempts \in Nat /\ attempts < Limit(req[r])
    /\ pc = "generate" \/ req[r].prompt.kind \in {"workflow", "exam"}
    /\ pc \in {"generateTests", "saveTests", "runTests"} => req[r].prompt.kind = "workflow"
    /\ pc \in {"save", "saveTests", "compile", "runTests"} => code # "absent"
    /\ req' = [req EXCEPT ![r] = [req[r] EXCEPT !.code = code, !.test = test,
                    !.compiles = compiles, !.attempts = attempts, !.pc = pc]]

LEMMA GeneratingOk ==
    ASSUME LocalInv, NEW r \in Requests, NEW code, NEW test, NEW compiles, NEW attempts, NEW pc,
           Generating(r, code, test, compiles, attempts, pc),
           SharedType', UNCHANGED setting, Kept(r),
           r \notin disturbed' /\ pc = "compile" /\ req[r].prompt.kind = "exam"
               => scratch'["exam"] = code
    PROVE  LocalInv'
<1> DEFINE q == req[r]
           nq == [q EXCEPT !.code = code, !.test = test, !.compiles = compiles,
                           !.attempts = attempts, !.pc = pc]
<1> USE DEF Generating
<1>0. q \in ReqType /\ SeqInv(q) /\ Scratching(q) /\ q.prompt.kind \in Kinds
  BY Mine, ScratchingIs
<1>1. nq \in ReqType
  BY <1>0 DEF ReqType, Pcs
<1>2. /\ nq.pc = pc /\ nq.code = code /\ nq.attempts = attempts /\ nq.passed = q.passed
      /\ nq.prompt = q.prompt /\ nq.wrote = q.wrote /\ nq.commit = q.commit
      /\ nq.late = q.late /\ nq.verdict = q.verdict /\ nq.pick = q.pick
  BY <1>0 DEF ReqType
<1> HIDE DEF nq
<1>3. SeqInv(nq)
  BY <1>0, <1>2 DEF SeqInv, Scratching, EngineerPcs, ScratchPcs, Limit
<1>4. /\ TargetInv(nq, r, file', index', head')
      /\ r \notin disturbed' => ScratchInv(nq, scratch', setting)
  BY <1>0, <1>2 DEF TargetInv, ScratchInv, Scratching, ScratchPcs
<1>5. Next1(r, nq)
  BY <1>1, <1>3, <1>4 DEF Next1
<1>6. req' = [req EXCEPT ![r] = nq]
  BY DEF nq
<1> QED BY <1>5, <1>6, Combine

\* A failure of the disk or of the model ends the request.
LEMMA FailureOk ==
    ASSUME LocalInv, NEW r \in Requests, req[r].pc \in ScratchPcs, Failure(r),
           UNCHANGED <<repo, scratch, setting, disturbed, user>>, UNCHANGED faults \/ Fault
    PROVE  LocalInv'
<1>1. Busy(req[r])
  BY ScratchingIs
<1>2. CASE Report(r, "blocked")
  BY <1>1, <1>2, QuietEnd DEF Report, MayEnd
<1>3. CASE Reject(r)
  BY <1>1, <1>3, QuietEnd DEF Reject, MayEnd
<1> QED BY <1>2, <1>3 DEF Failure

LEMMA PreparesOk ==
    ASSUME LocalInv, NEW r \in Requests, Prepares(r)
    PROVE  LocalInv'
<1> DEFINE q == req[r]
<1>0. /\ q.pc = "prepare" /\ q.pc \in ScratchPcs /\ q \in ReqType /\ SeqInv(q)
      /\ UNCHANGED <<repo, scratch, setting, disturbed, user>> /\ req \in [Requests -> ReqType]
      /\ UNCHANGED faults \/ Fault
  BY Mine DEF Prepares, At, ScratchPcs
<1>1. CASE Goto(r, "generate")
  <2>1. Generating(r, q.code, q.test, q.compiles, q.attempts, "generate")
    BY <1>0, <1>1 DEF Generating, Goto, ReqType, SeqInv, ScratchPcs
  <2>2. SharedType' /\ Kept(r) /\ UNCHANGED setting
    BY <1>0, SharedQuiet, KeptQuiet
  <2> QED BY <2>1, <2>2, GeneratingOk
<1>2. CASE Failure(r)
  BY <1>0, <1>2, FailureOk
<1> QED BY <1>1, <1>2 DEF Prepares

LEMMA AnswersAre ==
    ASSUME NEW s \in Scratch, NEW code \in Answers[s]
    PROVE  code \in Written /\ code # "absent"
  BY LocalAssumption DEF Written, Codes

LEMMA GeneratesOk ==
    ASSUME LocalInv, NEW r \in Requests, Generates(r)
    PROVE  LocalInv'
<1> DEFINE q == req[r]
<1>0. /\ q.pc = "generate" /\ q.pc \in ScratchPcs /\ q \in ReqType /\ SeqInv(q)
      /\ UNCHANGED <<repo, scratch, setting, disturbed, user, faults>>
      /\ req \in [Requests -> ReqType] /\ Busy(q) /\ Scratching(q) /\ q.prompt.kind \in Kinds
  BY Mine, ScratchingIs DEF Generates, At, ScratchPcs
<1>1. CASE Report(r, "ready")
  BY <1>0, <1>1, QuietEnd DEF Report, MayEnd
<1>2. CASE Reject(r)
  BY <1>0, <1>2, QuietEnd DEF Reject, MayEnd
<1>3. CASE Failure(r)
  BY <1>0, <1>3, FailureOk
<1>4. ASSUME q.prompt.kind \in {"workflow", "exam"}, NEW code \in Answers[q.prompt.kind],
             req' = [req EXCEPT ![r].code = code,
                       ![r].pc = IF Kind(r) = "workflow" THEN "generateTests" ELSE "save"]
      PROVE  LocalInv'
  <2> DEFINE pc == IF q.prompt.kind = "workflow" THEN "generateTests" ELSE "save"
  <2>1. code \in Written /\ code # "absent"
    BY <1>4, AnswersAre DEF Scratch
  <2>2. req' = [req EXCEPT ![r].code = code, ![r].pc = pc]
    BY <1>4 DEF Kind
  <2>3. pc \in {"generateTests", "save"} /\ (pc = "generateTests" => q.prompt.kind = "workflow")
    OBVIOUS
  <2> HIDE DEF pc
  <2>4. Generating(r, code, q.test, q.compiles, q.attempts, pc)
    BY <1>0, <1>4, <2>1, <2>2, <2>3 DEF Generating, ReqType, SeqInv, ScratchPcs
  <2>5. SharedType' /\ Kept(r) /\ UNCHANGED setting /\ pc # "compile"
    BY <1>0, <2>3, SharedQuiet, KeptQuiet
  <2> QED BY <2>4, <2>5, GeneratingOk
<1>5. q.prompt.kind = "chatExam" \/ q.prompt.kind \in {"workflow", "exam"}
  BY <1>0 DEF Scratching, Kinds
<1> QED BY <1>1, <1>2, <1>3, <1>4, <1>5 DEF Generates, Kind

LEMMA GeneratesTestsOk ==
    ASSUME LocalInv, NEW r \in Requests, GeneratesTests(r)
    PROVE  LocalInv'
<1> DEFINE q == req[r]
<1>0. /\ q.pc = "generateTests" /\ q.pc \in ScratchPcs /\ q \in ReqType /\ SeqInv(q)
      /\ UNCHANGED <<repo, scratch, setting, disturbed, user, faults>>
      /\ req \in [Requests -> ReqType]
  BY Mine DEF GeneratesTests, At, ScratchPcs
<1>1. CASE Failure(r)
  BY <1>0, <1>1, FailureOk
<1>2. ASSUME NEW test \in Answers["tests"],
             req' = [req EXCEPT ![r].test = test, ![r].pc = "save"]
      PROVE  LocalInv'
  <2>1. test \in Written
    BY AnswersAre DEF Scratch
  <2>2. Generating(r, q.code, test, q.compiles, q.attempts, "save")
    BY <1>0, <1>2, <2>1 DEF Generating, ReqType, SeqInv, ScratchPcs
  <2>3. SharedType' /\ Kept(r) /\ UNCHANGED setting
    BY <1>0, SharedQuiet, KeptQuiet
  <2> QED BY <2>2, <2>3, GeneratingOk
<1> QED BY <1>1, <1>2 DEF GeneratesTests

LEMMA SavesOk ==
    ASSUME LocalInv, NEW r \in Requests, Saves(r)
    PROVE  LocalInv'
<1> DEFINE q == req[r]
           k == q.prompt.kind
<1>0. /\ q.pc = "save" /\ q.pc \in ScratchPcs /\ q \in ReqType /\ SeqInv(q)
      /\ UNCHANGED <<repo, setting, user>> /\ req \in [Requests -> ReqType] /\ SharedType
      /\ k \in {"workflow", "exam"} /\ q.code \in Written /\ q.code # "absent"
  BY Mine DEF Saves, At, ScratchPcs, SeqInv, ReqType
<1>1. CASE Fault /\ Failure(r) /\ UNCHANGED <<scratch, disturbed>>
  BY <1>0, <1>1, FailureOk
<1>2. CASE /\ scratch' = [scratch EXCEPT ![k] = q.code]
           /\ Goto(r, IF k = "workflow" THEN "saveTests" ELSE "compile")
           /\ Disturb(Sharing({k}) \ {r}) /\ UNCHANGED faults
  <2>1. k \in Scratch
    BY <1>0 DEF Scratch
  <2>2. Sharing({k}) = Sharing(IF k = "exam" THEN {"exam"} ELSE {"workflow"})
    BY <1>0
  <2>3. Kept(r)
    BY <1>0, <1>2, <2>1, <2>2, KeptScratch
  <2>4. scratch' \in ScratchFiles /\ scratch'[k] = q.code
    BY <1>0, <1>2, <2>1 DEF SharedType, ScratchFiles, Written
  <2>5. SharedType'
    BY <1>0, <1>2, <2>4 DEF SharedType, Disturb, Sharing, repo
  <2> DEFINE pc == IF k = "workflow" THEN "saveTests" ELSE "compile"
  <2>6. pc \in {"saveTests", "compile"} /\ (pc = "saveTests" => k = "workflow")
    OBVIOUS
  <2>7. Goto(r, pc)
    BY <1>2
  <2> HIDE DEF pc
  <2>8. Generating(r, q.code, q.test, q.compiles, q.attempts, pc)
    BY <1>0, <2>6, <2>7 DEF Generating, Goto, ReqType, SeqInv, ScratchPcs
  <2>9. UNCHANGED setting /\ (k = "exam" => scratch'["exam"] = q.code)
    BY <1>0, <2>4
  <2> QED BY <2>3, <2>5, <2>8, <2>9, GeneratingOk
<1> QED BY <1>1, <1>2 DEF Saves, Kind

LEMMA SavesTestsOk ==
    ASSUME LocalInv, NEW r \in Requests, SavesTests(r)
    PROVE  LocalInv'
<1> DEFINE q == req[r]
<1>0. /\ q.pc = "saveTests" /\ q.pc \in ScratchPcs /\ q \in ReqType /\ SeqInv(q)
      /\ UNCHANGED <<repo, setting, user>> /\ req \in [Requests -> ReqType] /\ SharedType
      /\ q.prompt.kind = "workflow" /\ q.test \in Written
  BY Mine DEF SavesTests, At, ScratchPcs, SeqInv, ReqType
<1>1. CASE Fault /\ Failure(r) /\ UNCHANGED <<scratch, disturbed>>
  BY <1>0, <1>1, FailureOk
<1>2. CASE /\ scratch' = [scratch EXCEPT !["tests"] = q.test]
           /\ Goto(r, "compile") /\ Disturb(Sharing({"workflow"}) \ {r}) /\ UNCHANGED faults
  <2>1. Kept(r)
    BY <1>0, <1>2, KeptScratch DEF Scratch
  <2>2. scratch' \in ScratchFiles
    BY <1>0, <1>2 DEF SharedType, ScratchFiles, Written, Scratch
  <2>3. SharedType'
    BY <1>0, <1>2, <2>2 DEF SharedType, Disturb, Sharing, repo
  <2>4. Generating(r, q.code, q.test, q.compiles, q.attempts, "compile")
    BY <1>0, <1>2 DEF Generating, Goto, ReqType, SeqInv, ScratchPcs
  <2> QED BY <1>0, <2>1, <2>3, <2>4, GeneratingOk
<1> QED BY <1>1, <1>2 DEF SavesTests

\* What a pass says: the code of an exam that compiled, without a violation.
LEMMA JudgeOk ==
    ASSUME LocalInv, NEW r \in Requests, NEW compiles \in BOOLEAN, NEW passes \in BOOLEAN,
           req[r].pc \in {"compile", "runTests"}, Judge(r, compiles, passes),
           passes => req[r].pc = "compile" /\ req[r].prompt.kind = "exam",
           compiles /\ req[r].prompt.kind = "exam" => Compilable(Compiled),
           UNCHANGED <<repo, scratch, setting, disturbed, user>>, UNCHANGED faults \/ Fault
    PROVE  LocalInv'
<1> DEFINE q == req[r]
<1>0. /\ q.pc \in ScratchPcs /\ q \in ReqType /\ SeqInv(q) /\ Busy(q) /\ q.attempts \in Nat
      /\ req \in [Requests -> ReqType] /\ q.code # "absent" /\ q.code \in Written
      /\ r \notin disturbed => ScratchInv(q, scratch, setting)
  BY Mine, ScratchingIs DEF ScratchPcs, ReqType, SeqInv
<1>1. SharedType' /\ Kept(r)
  BY SharedQuiet, KeptQuiet
<1>2. CASE Clean(r, compiles, passes)
  <2>1. /\ q.prompt.kind = "exam" /\ q.pc = "compile" /\ q.code # "violates"
        /\ Compilable(Compiled)
    BY <1>2 DEF Clean
  <2>2. r \notin disturbed =>
            IF setting.same THEN q.code = "clean" ELSE Compilable(setting.found)
    BY <1>0, <2>1 DEF ScratchInv, Compilable, Compiled, Written, Codes
  <2>3. MayEnd(q, "done", "passed") /\ End(r, "done", "passed")
    BY <1>0, <1>2, <2>1 DEF MayEnd, Judge, Report
  <2> QED BY <1>0, <1>1, <2>1, <2>2, <2>3, Ending
<1>3. CASE ~Clean(r, compiles, passes) /\ q.attempts + 1 = Attempts(r)
  BY <1>0, <1>3, QuietEnd DEF MayEnd, Judge, Report
<1>4. CASE ~Clean(r, compiles, passes) /\ q.attempts + 1 # Attempts(r)
  <2> DEFINE next == q.attempts + 1
  <2>1. next \in Nat /\ next < Limit(q)
    BY <1>0, <1>4 DEF SeqInv, Limit, Attempts, Kind
  <2>2. req' = [req EXCEPT ![r].attempts = next, ![r].pc = "generate", ![r].compiles = FALSE,
                           ![r].code = "absent", ![r].test = "absent"]
    BY <1>0, <1>4 DEF Judge, ReqType
  <2> HIDE DEF next
  <2>3. Generating(r, "absent", "absent", FALSE, next, "generate")
    BY <1>0, <2>1, <2>2 DEF Generating, ReqType, ScratchPcs, Written
  <2> QED BY <1>1, <2>3, GeneratingOk
<1> QED BY <1>2, <1>3, <1>4

LEMMA CompileRunsOk ==
    ASSUME LocalInv, NEW r \in Requests, CompileRuns(r)
    PROVE  LocalInv'
<1> DEFINE q == req[r]
<1>0. /\ q.pc = "compile" /\ q.pc \in ScratchPcs /\ q \in ReqType /\ SeqInv(q)
      /\ UNCHANGED <<repo, scratch, setting, disturbed, user>>
      /\ req \in [Requests -> ReqType] /\ q.prompt.kind \in {"workflow", "exam"}
      /\ q.code # "absent"
  BY Mine DEF CompileRuns, At, ScratchPcs, SeqInv
<1>1. PICK killed \in BOOLEAN :
          /\ IF killed THEN Fault ELSE UNCHANGED faults
          /\ LET compiles == ~killed /\ Compiles(Kind(r))
             IN  IF Kind(r) = "workflow"
                 THEN req' = [req EXCEPT ![r].compiles = compiles, ![r].pc = "runTests"]
                 ELSE Judge(r, compiles, TRUE)
  BY DEF CompileRuns
<1> DEFINE compiles == ~killed /\ Compiles(q.prompt.kind)
<1>2. UNCHANGED faults \/ Fault
  BY <1>1
<1>3. compiles \in BOOLEAN
  BY DEF Compiles
<1>4. compiles /\ q.prompt.kind = "exam" => Compilable(Compiled)
  BY DEF Compiles, Compilable
<1>5. IF q.prompt.kind = "workflow"
      THEN req' = [req EXCEPT ![r].compiles = compiles, ![r].pc = "runTests"]
      ELSE Judge(r, compiles, TRUE)
  BY <1>1 DEF Kind
<1> HIDE DEF compiles
<1>6. CASE q.prompt.kind = "workflow"
  <2>1. Generating(r, q.code, q.test, compiles, q.attempts, "runTests")
    BY <1>0, <1>3, <1>5, <1>6 DEF Generating, ReqType, SeqInv, ScratchPcs
  <2>2. SharedType' /\ Kept(r)
    BY <1>0, <1>2, SharedQuiet, KeptQuiet
  <2> QED BY <1>0, <2>1, <2>2, GeneratingOk
<1>7. CASE q.prompt.kind = "exam"
  <2> DEFINE passes == TRUE
  <2>1. passes \in BOOLEAN /\ (passes => q.pc = "compile" /\ q.prompt.kind = "exam")
    BY <1>0, <1>7
  <2>2. Judge(r, compiles, passes)
    BY <1>5, <1>7
  <2> HIDE DEF passes
  <2> QED BY <1>0, <1>2, <1>3, <1>4, <2>1, <2>2, JudgeOk
<1> QED BY <1>0, <1>6, <1>7

LEMMA TestsRunOk ==
    ASSUME LocalInv, NEW r \in Requests, TestsRun(r)
    PROVE  LocalInv'
<1> DEFINE q == req[r]
           compiles == q.compiles
           passes == TestsPass
<1>0. /\ q.pc = "runTests" /\ q \in ReqType /\ SeqInv(q) /\ q.prompt.kind = "workflow"
      /\ UNCHANGED <<repo, scratch, setting, disturbed, user, faults>>
      /\ compiles \in BOOLEAN
  BY Mine DEF TestsRun, At, SeqInv, ReqType
<1>1. ~passes /\ passes \in BOOLEAN
  BY DEF TestsPass, RunnerParses
<1>2. Judge(r, compiles, passes)
  BY DEF TestsRun
<1> HIDE DEF compiles, passes
<1> QED BY <1>0, <1>1, <1>2, JudgeOk
----------------------------------------------------------------------------
(* The user, and the theorems *)

LEMMA UserOk ==
    ASSUME LocalInv, UserStep
    PROVE  LocalInv'
<1>0. SharedType /\ req \in [Requests -> ReqType]
  BY DEF LocalInv
<1>1. Disturb(Sharing({"engineer"})) /\ UNCHANGED <<scratch, setting, req, faults>>
  BY DEF UserStep
<1>2. file' \in Texts
  <2>1. "note" \in Parts /\ Edited \subseteq Parts
    BY LocalAssumption DEF Parts
  <2>2. CASE file # NoFile
    BY <1>0, <2>1, <2>2 DEF UserStep, SharedType, Texts, File
  <2>3. CASE file = NoFile
    BY <1>0, <2>3 DEF UserStep, SharedType
  <2> QED BY <2>2, <2>3
<1>3. index' \in Texts /\ staged' \in BOOLEAN /\ user' \in 0..setting.user
  <2>1. setting.user \in Nat
    BY <1>0, LocalAssumption DEF SharedType
  <2>2. user' \in 0..setting.user
    BY <1>0, <2>1 DEF UserStep, SharedType
  <2>3. index' \in Texts
    BY <1>0 DEF UserStep, SharedType
  <2>4. staged' \in BOOLEAN
    BY <1>0 DEF UserStep, SharedType, Committed
  <2> QED BY <2>2, <2>3, <2>4
<1>4. head' \in [text : Texts, by : Requests \cup {"others"}]
  BY <1>0 DEF UserStep, SharedType, Committed
<1>5. SharedType'
  BY <1>0, <1>1, <1>2, <1>3, <1>4 DEF SharedType, Disturb, Sharing
<1>6. ASSUME NEW s \in Requests
      PROVE  ReqInv(req[s], s, s \in disturbed, file, index, head, scratch, setting)'
  <2>1. SeqInv(req[s])
    BY DEF LocalInv, ReqInv
  <2>2. ASSUME s \notin disturbed'
        PROVE  TargetInv(req[s], s, file', index', head') /\ ScratchInv(req[s], scratch, setting)
    <3>1. s \notin disturbed /\ ~(s \in Sharing({"engineer"}) /\ Running(s))
      BY <1>1, <2>2 DEF Disturb
    <3>2. TargetInv(req[s], s, file, index, head) /\ ScratchInv(req[s], scratch, setting)
      BY <3>1 DEF LocalInv, ReqInv
    <3>3. req[s].pc \notin EngineerPcs
      BY <2>1, <3>1 DEF Running, Sharing, Kind, EngineerPcs, SeqInv
    <3> QED BY <3>2, <3>3 DEF TargetInv, EngineerPcs
  <2> QED BY <1>1, <2>1, <2>2 DEF ReqInv
<1> QED BY <1>0, <1>1, <1>5, <1>6 DEF LocalInv

LEMMA InitLocal == Init => LocalInv
<1> SUFFICES ASSUME Init PROVE LocalInv
  OBVIOUS
<1>1. PICK start \in Starts :
          file = start.file /\ staged = start.staged /\ setting = start.setting
  BY DEF Init
<1>2. SharedType
  <2>1. file \in Texts /\ staged \in BOOLEAN /\ setting.user \in Nat
    BY <1>1, LocalAssumption DEF Texts
  <2>2. index \in Texts /\ head \in [text : Texts, by : Requests \cup {"others"}]
    BY <2>1 DEF Init
  <2>3. scratch \in ScratchFiles
    BY DEF Init, ScratchFiles
  <2> QED BY <1>1, <2>1, <2>2, <2>3, LocalAssumption DEF SharedType, Init
<1>3. req = [r \in Requests |-> Idle]
  BY DEF Init
<1>4. Idle \in ReqType
  <2>1. /\ NoFile \in Texts /\ "none" \in Picks /\ NoCommit \in CommitType
        /\ "absent" \in Written /\ "none" \in Shas
    BY DEF Texts, Picks, CommitType, NoCommit, Written, Shas
  <2>2. NoPrompt \in PromptType /\ "idle" \in Pcs /\ "none" \in Verdicts
    BY DEF NoPrompt, PromptType, Kinds, Pcs, Verdicts
  <2> QED BY <2>1, <2>2 DEF Idle, ReqType
<1>5. /\ SeqInv(Idle) /\ ScratchInv(Idle, scratch, setting)
  BY DEF SeqInv, ScratchInv, Idle, NoPrompt, NoCommit, EngineerPcs, Limit
<1>6. \A r \in Requests : TargetInv(Idle, r, file, index, head)
  BY DEF TargetInv, Idle
<1> QED BY <1>2, <1>3, <1>4, <1>5, <1>6 DEF LocalInv, ReqInv

LEMMA NextLocal == LocalInv /\ [Next]_vars => LocalInv'
<1> SUFFICES ASSUME LocalInv, [Next]_vars PROVE LocalInv'
  OBVIOUS
<1>1. ASSUME NEW r \in Requests, Engineers(r) PROVE LocalInv'
  BY <1>1, PlannerReadsOk, InspectsOk, ReadsAgainOk, WritesOk, TargetFailsOk, TestsOk, AddsOk,
     CommitsOk, RevParsesOk, ReportsOk DEF Engineers
<1>2. ASSUME NEW r \in Requests, Scratches(r) PROVE LocalInv'
  BY <1>2, PreparesOk, GeneratesOk, GeneratesTestsOk, SavesOk, SavesTestsOk, CompileRunsOk,
     TestsRunOk DEF Scratches
<1>3. ASSUME NEW r \in Requests, NEW prompt \in setting.prompts, Begin(r, prompt)
      PROVE  LocalInv'
  BY <1>3, BeginOk
<1>4. CASE UserStep
  BY <1>4, UserOk
<1>5. CASE UNCHANGED vars
  BY <1>5 DEF vars, repo, LocalInv, SharedType, ReqInv
<1> QED BY <1>1, <1>2, <1>3, <1>4, <1>5 DEF Next, Step

LEMMA LocalAlways == Spec => []LocalInv
  BY InitLocal, NextLocal, PTL DEF Spec

\* A request that resolved has a report and the others have none; the tests counted as
\* passed are no more than were asked for, and code is repaired no more often than allowed.
THEOREM ModesTyped == Spec => []TypeOK
<1>1. LocalInv => TypeOK
  BY DEF LocalInv, SharedType, TypeOK, ReqInv, ReqType, SeqInv, Texts, At, Attempts, Limit, Kind
<1> QED BY <1>1, LocalAlways, PTL

\* A reported commit is what all the tests passed on, with the change in it, for any
\* number of requests and whatever the user does.
THEOREM CommitTested == Spec => []CommittedIsTested
<1>1. LocalInv => CommittedIsTested
  BY DEF LocalInv, ReqInv, TargetInv, HasChange, CommittedIsTested
<1> QED BY <1>1, LocalAlways, PTL

\* A report without a commit is of a run that made none, and a run writes only in scope.
THEOREM ReportOfRun == Spec => []ReportIsOfRun
<1>1. LocalInv => ReportIsOfRun
  BY DEF LocalInv, ReqInv, SeqInv, ReportIsOfRun, At
<1> QED BY <1>1, LocalAlways, PTL

\* Code reported as passed compiled without violations, or something else compiled in its
\* place where the commands run on other files.
THEOREM PassClean == Spec => []PassedIsClean
<1>1. LocalInv => PassedIsClean
  BY DEF LocalInv, ReqInv, SeqInv, ScratchInv, PassedIsClean, Compiles, Compiled, Compilable, Kind
<1> QED BY <1>1, LocalAlways, PTL
----------------------------------------------------------------------------
(* A request only takes so many steps *)

\* The tests an engineer has still to run, and six steps for each attempt that is left.
TestsLeft(q) == q.prompt.tests - q.passed
AttemptsLeft(q) == 6 * (Limit(q) - q.attempts)
\* The steps ahead of a request that has begun.
StepsLeft(q) ==
    CASE q.pc \in {"planner", "self"} -> 6 + TestsLeft(q)
      [] q.pc = "read" -> 5 + TestsLeft(q)
      [] q.pc = "write" -> 4 + TestsLeft(q)
      [] q.pc = "test" -> 3 + TestsLeft(q)
      [] q.pc = "add" -> 3
      [] q.pc = "commit" -> 2
      [] q.pc \in {"revParse", "report"} -> 1
      [] q.pc = "prepare" -> 1 + AttemptsLeft(q)
      [] q.pc = "generate" -> AttemptsLeft(q)
      [] q.pc = "generateTests" -> AttemptsLeft(q) - 1
      [] q.pc = "save" -> AttemptsLeft(q) - 2
      [] q.pc = "saveTests" -> AttemptsLeft(q) - 3
      [] q.pc = "compile" -> AttemptsLeft(q) - 4
      [] q.pc = "runTests" -> AttemptsLeft(q) - 5
      [] OTHER -> 0

\* Every step of a request leaves fewer ahead of it, whatever the models answer, the
\* commands do and the files hold by then; nothing that other requests or the user do
\* to the files they share gives it more to do.
RequestsAdvance ==
    [][\A r \in Requests : Running(r) =>
        /\ Step(r) => StepsLeft(req'[r]) \in Nat /\ StepsLeft(req'[r]) < StepsLeft(req[r])
        /\ Step(r) \/ req'[r] = req[r]]_vars

\* A step within a front or an attempt.
Onward(p, n) ==
    \/ p \in {"planner", "self", "read"} /\ n \in {"read", "write", "test"} /\ p # n
    \/ p = "write" /\ n = "test"
    \/ p = "add" /\ n = "commit"
    \/ p = "commit" /\ n = "revParse"
    \/ p = "prepare" /\ n = "generate"
    \/ p = "generate" /\ n \in {"generateTests", "save"}
    \/ p = "generateTests" /\ n = "save"
    \/ p = "save" /\ n \in {"saveTests", "compile"}
    \/ p = "saveTests" /\ n = "compile"
    \/ p = "compile" /\ n = "runTests"
\* What a step makes of a request.
Edge(q, n) ==
    /\ q.pc \notin {"idle", "done", "rejected"}
    /\ \/ n.pc \in {"done", "rejected"}
       \/ /\ Onward(q.pc, n.pc)
          /\ n.prompt = q.prompt /\ n.passed = q.passed /\ n.attempts = q.attempts
       \/ /\ q.pc = "test" /\ n.pc = "test"
          /\ n.prompt = q.prompt /\ n.passed = q.passed + 1
       \/ q.pc = "test" /\ n.pc \in {"add", "report"}
       \/ /\ q.pc \in {"compile", "runTests"} /\ n.pc = "generate"
          /\ n.prompt = q.prompt /\ n.attempts = q.attempts + 1

LEMMA LeftOf ==
    ASSUME NEW q \in ReqType, SeqInv(q)
    PROVE  /\ TestsLeft(q) \in Nat /\ AttemptsLeft(q) \in Nat /\ AttemptsLeft(q) >= 6
           /\ q.pc = "test" => TestsLeft(q) > 0
<1>1. q.prompt.tests \in Nat /\ q.passed \in Nat /\ q.attempts \in Nat
  BY DEF ReqType, PromptType
<1>2. q.passed <= q.prompt.tests /\ (q.pc = "test" => q.passed < q.prompt.tests)
  BY DEF SeqInv
<1>3. Limit(q) \in {2, 3} /\ q.attempts < Limit(q)
  BY DEF SeqInv, Limit
<1>4. Limit(q) - q.attempts \in Nat /\ Limit(q) - q.attempts >= 1
  BY <1>1, <1>3
<1> QED BY <1>1, <1>2, <1>4 DEF TestsLeft, AttemptsLeft

LEMMA StepsLeftType ==
    ASSUME NEW q \in ReqType, SeqInv(q)
    PROVE  /\ StepsLeft(q) \in Nat
           /\ q.pc \notin {"idle", "done", "rejected"} => StepsLeft(q) > 0
<1>1. q.pc \in Pcs
  BY DEF ReqType
<1> QED BY <1>1, LeftOf DEF StepsLeft, Pcs, EngineerPcs, ScratchPcs

LEMMA EdgeAdvances ==
    ASSUME NEW q \in ReqType, NEW n \in ReqType, SeqInv(q), SeqInv(n), Edge(q, n)
    PROVE  StepsLeft(n) < StepsLeft(q)
<1>1. /\ TestsLeft(q) \in Nat /\ AttemptsLeft(q) \in Nat /\ AttemptsLeft(q) >= 6
      /\ q.pc = "test" => TestsLeft(q) > 0
  BY LeftOf
<1>2. CASE n.pc \in {"done", "rejected"}
  <2>1. StepsLeft(n) = 0
    BY <1>2 DEF StepsLeft
  <2> QED BY <2>1, StepsLeftType DEF Edge
<1>3. CASE Onward(q.pc, n.pc) /\ n.prompt = q.prompt /\ n.passed = q.passed /\ n.attempts = q.attempts
  <2>1. TestsLeft(n) = TestsLeft(q) /\ AttemptsLeft(n) = AttemptsLeft(q)
    BY <1>3 DEF TestsLeft, AttemptsLeft, Limit
  <2> QED BY <1>1, <1>3, <2>1 DEF Onward, StepsLeft
<1>4. CASE q.pc = "test" /\ n.pc = "test" /\ n.prompt = q.prompt /\ n.passed = q.passed + 1
  <2>1. TestsLeft(n) = TestsLeft(q) - 1
    BY <1>4 DEF TestsLeft, ReqType, PromptType
  <2> QED BY <1>1, <1>4, <2>1 DEF StepsLeft
<1>5. CASE q.pc = "test" /\ n.pc \in {"add", "report"}
  BY <1>1, <1>5 DEF StepsLeft
<1>6. CASE /\ q.pc \in {"compile", "runTests"} /\ n.pc = "generate"
           /\ n.prompt = q.prompt /\ n.attempts = q.attempts + 1
  <2>1. Limit(n) = Limit(q) /\ Limit(q) \in Nat /\ q.attempts \in Nat
    BY <1>6 DEF Limit, ReqType
  <2>2. AttemptsLeft(n) = AttemptsLeft(q) - 6
    BY <1>6, <2>1 DEF AttemptsLeft
  <2> QED BY <1>1, <1>6, <2>2 DEF StepsLeft
<1> QED BY <1>2, <1>3, <1>4, <1>5, <1>6 DEF Edge

LEMMA EndEdge ==
    ASSUME LocalInv, NEW r \in Requests, Running(r), NEW pc \in {"done", "rejected"},
           NEW verdict, End(r, pc, verdict)
    PROVE  Edge(req[r], req'[r])
<1>1. req'[r].pc = pc
  BY Mine DEF End, Ended, ReqType
<1> QED BY <1>1 DEF Edge, Running

LEMMA JudgeEdge ==
    ASSUME LocalInv, NEW r \in Requests, req[r].pc \in {"compile", "runTests"},
           NEW compiles, NEW passes, Judge(r, compiles, passes)
    PROVE  Edge(req[r], req'[r])
<1>1. Running(r) /\ req[r] \in ReqType /\ req \in [Requests -> ReqType]
  BY Mine DEF Running
<1>2. CASE Report(r, "passed") \/ Report(r, "failed")
  BY <1>1, <1>2, EndEdge DEF Report
<1>3. CASE req' = [req EXCEPT ![r].attempts = @ + 1, ![r].pc = "generate",
                     ![r].compiles = FALSE, ![r].code = "absent", ![r].test = "absent"]
  <2>1. /\ req'[r].pc = "generate" /\ req'[r].prompt = req[r].prompt
        /\ req'[r].attempts = req[r].attempts + 1
    BY <1>1, <1>3 DEF ReqType
  <2> QED BY <1>1, <2>1 DEF Edge, Running
<1> QED BY <1>2, <1>3 DEF Judge

LEMMA FrontEdge ==
    ASSUME LocalInv, NEW r \in Requests,
           PlannerReads(r) \/ Inspects(r) \/ ReadsAgain(r) \/ Writes(r) \/ TargetFails(r)
    PROVE  Edge(req[r], req'[r])
<1>1. /\ Running(r) /\ req[r] \in ReqType /\ req \in [Requests -> ReqType]
      /\ req[r].pc \in {"planner", "self", "read", "write"}
  BY Mine DEF Running, At, PlannerReads, Inspects, ReadsAgain, Writes, TargetFails
<1>2. CASE Reject(r) \/ Report(r, "blocked")
  BY <1>1, <1>2, EndEdge DEF Report, Reject
<1>3. ASSUME ~Reject(r), ~Report(r, "blocked")
      PROVE  /\ Onward(req[r].pc, req'[r].pc) /\ req'[r].prompt = req[r].prompt
             /\ req'[r].passed = req[r].passed /\ req'[r].attempts = req[r].attempts
  <2>1. CASE PlannerReads(r)
    BY <1>1, <1>3, <2>1 DEF PlannerReads, At, Onward, ReqType
  <2>2. CASE Inspects(r)
    BY <1>1, <1>3, <2>2 DEF Inspects, At, Goto, Onward, ReqType
  <2>3. CASE ReadsAgain(r)
    BY <1>1, <1>3, <2>3 DEF ReadsAgain, At, Goto, Onward, ReqType
  <2>4. CASE Writes(r)
    BY <1>1, <1>3, <2>4 DEF Writes, At, Onward, ReqType
  <2>5. ~TargetFails(r)
    BY <1>3 DEF TargetFails
  <2> QED BY <2>1, <2>2, <2>3, <2>4, <2>5
<1> QED BY <1>1, <1>2, <1>3 DEF Edge, Running

LEMMA CommandEdge ==
    ASSUME LocalInv, NEW r \in Requests,
           Tests(r) \/ Adds(r) \/ Commits(r) \/ RevParses(r) \/ Reports(r)
    PROVE  Edge(req[r], req'[r])
<1>1. /\ Running(r) /\ req[r] \in ReqType /\ req \in [Requests -> ReqType]
      /\ req[r].pc \in {"test", "add", "commit", "revParse", "report"}
  BY Mine DEF Running, At, Tests, Adds, Commits, RevParses, Reports
<1>2. CASE Report(r, "blocked") \/ Report(r, "noChanges")
  BY <1>1, <1>2, EndEdge DEF Report
<1>3. CASE Tests(r) /\ ~Report(r, "blocked")
  <2>1. /\ req[r].pc = "test" /\ req'[r].pc \in {"add", "report", "test"}
        /\ req'[r].prompt = req[r].prompt /\ req'[r].passed = req[r].passed + 1
    BY <1>1, <1>3 DEF Tests, At, NextCommand, ReqType
  <2> QED BY <1>1, <2>1 DEF Edge, Running
<1>4. CASE Adds(r) /\ ~Report(r, "blocked")
  <2>1. /\ req[r].pc = "add" /\ req'[r].pc = "commit" /\ req'[r].prompt = req[r].prompt
        /\ req'[r].passed = req[r].passed /\ req'[r].attempts = req[r].attempts
    BY <1>1, <1>4 DEF Adds, At, Goto, ReqType
  <2> QED BY <1>1, <2>1 DEF Edge, Onward, Running
<1>5. CASE Commits(r) /\ ~Report(r, "blocked")
  <2>1. /\ req[r].pc = "commit"
        /\ \/ req'[r].pc = "done"
           \/ /\ req'[r].pc = "revParse" /\ req'[r].prompt = req[r].prompt
              /\ req'[r].passed = req[r].passed /\ req'[r].attempts = req[r].attempts
    BY <1>1, <1>5 DEF Commits, At, ReqType
  <2> QED BY <1>1, <2>1 DEF Edge, Onward, Running
<1>6. CASE RevParses(r)
  <2>1. req'[r].pc = "done"
    BY <1>1, <1>6 DEF RevParses, ReqType
  <2> QED BY <1>1, <2>1 DEF Edge, Running
<1>7. CASE Reports(r)
  BY <1>2, <1>7 DEF Reports
<1> QED BY <1>2, <1>3, <1>4, <1>5, <1>6, <1>7

LEMMA ScratchEdge ==
    ASSUME LocalInv, NEW r \in Requests, Scratches(r)
    PROVE  Edge(req[r], req'[r])
<1>1. /\ Running(r) /\ req[r] \in ReqType /\ req \in [Requests -> ReqType]
      /\ req[r].pc \in ScratchPcs
  BY Mine DEF Running, At, Scratches, Prepares, Generates, GeneratesTests, Saves, SavesTests,
              CompileRuns, TestsRun, ScratchPcs
<1>2. CASE Failure(r) \/ Reject(r) \/ Report(r, "ready")
  BY <1>1, <1>2, EndEdge DEF Failure, Report, Reject
<1>3. ASSUME /\ Onward(req[r].pc, req'[r].pc) /\ req'[r].prompt = req[r].prompt
             /\ req'[r].passed = req[r].passed /\ req'[r].attempts = req[r].attempts
      PROVE  Edge(req[r], req'[r])
  BY <1>1, <1>3 DEF Edge, Running
<1>4. CASE Prepares(r)
  BY <1>1, <1>2, <1>3, <1>4 DEF Prepares, At, Goto, Onward, ReqType
<1>5. CASE Generates(r)
  <2>1. ASSUME NEW code, req' = [req EXCEPT ![r].code = code, ![r].pc =
                    IF Kind(r) = "workflow" THEN "generateTests" ELSE "save"]
        PROVE  Edge(req[r], req'[r])
    <3>1. /\ req'[r].pc \in {"generateTests", "save"} /\ req'[r].prompt = req[r].prompt
          /\ req'[r].passed = req[r].passed /\ req'[r].attempts = req[r].attempts
      BY <1>1, <2>1 DEF ReqType
    <3> QED BY <1>3, <1>5, <3>1 DEF Generates, At, Onward
  <2> QED BY <1>2, <1>5, <2>1 DEF Generates
<1>6. CASE GeneratesTests(r)
  <2>1. ASSUME NEW test, req' = [req EXCEPT ![r].test = test, ![r].pc = "save"]
        PROVE  Edge(req[r], req'[r])
    <3>1. /\ req'[r].pc = "save" /\ req'[r].prompt = req[r].prompt
          /\ req'[r].passed = req[r].passed /\ req'[r].attempts = req[r].attempts
      BY <1>1, <2>1 DEF ReqType
    <3> QED BY <1>3, <1>6, <3>1 DEF GeneratesTests, At, Onward
  <2> QED BY <1>2, <1>6, <2>1 DEF GeneratesTests
<1>7. CASE Saves(r)
  BY <1>1, <1>2, <1>3, <1>7 DEF Saves, At, Goto, Onward, ReqType
<1>8. CASE SavesTests(r)
  BY <1>1, <1>2, <1>3, <1>8 DEF SavesTests, At, Goto, Onward, ReqType
<1>9. CASE CompileRuns(r)
  <2>1. ASSUME NEW compiles, req' = [req EXCEPT ![r].compiles = compiles, ![r].pc = "runTests"]
        PROVE  Edge(req[r], req'[r])
    <3>1. /\ req'[r].pc = "runTests" /\ req'[r].prompt = req[r].prompt
          /\ req'[r].passed = req[r].passed /\ req'[r].attempts = req[r].attempts
      BY <1>1, <2>1 DEF ReqType
    <3> QED BY <1>3, <1>9, <3>1 DEF CompileRuns, At, Onward
  <2>2. PICK killed \in BOOLEAN :
            LET compiles == ~killed /\ Compiles(Kind(r))
            IN  IF Kind(r) = "workflow"
                THEN req' = [req EXCEPT ![r].compiles = compiles, ![r].pc = "runTests"]
                ELSE Judge(r, compiles, TRUE)
    BY <1>9 DEF CompileRuns
  <2> DEFINE compiled == ~killed /\ Compiles(Kind(r))
  <2>3. \/ req' = [req EXCEPT ![r].compiles = compiled, ![r].pc = "runTests"]
        \/ Judge(r, compiled, TRUE)
    BY <2>2
  <2>4. req[r].pc = "compile"
    BY <1>9 DEF CompileRuns, At
  <2>5. CASE Judge(r, compiled, TRUE)
    <3> HIDE DEF compiled
    <3> QED BY <2>4, <2>5, JudgeEdge
  <2>6. CASE req' = [req EXCEPT ![r].compiles = compiled, ![r].pc = "runTests"]
    <3> HIDE DEF compiled
    <3> QED BY <2>1, <2>6
  <2> QED BY <2>3, <2>5, <2>6
<1>10. CASE TestsRun(r)
  <2>1. req[r].pc = "runTests" /\ Judge(r, req[r].compiles, TestsPass)
    BY <1>10 DEF TestsRun, At
  <2> QED BY <2>1, JudgeEdge
<1> QED BY <1>4, <1>5, <1>6, <1>7, <1>8, <1>9, <1>10 DEF Scratches

\* A step of one request leaves the others as they are.
LEMMA OthersStay ==
    ASSUME LocalInv, NEW s \in Requests, NEW r \in Requests \ {s},
           Step(s) \/ \E prompt \in setting.prompts : Begin(s, prompt)
    PROVE  req'[r] = req[r]
<1>1. req \in [Requests -> ReqType]
  BY Mine
<1> USE DEF Goto, Report, Reject, End
<1>2. CASE \E prompt \in setting.prompts : Begin(s, prompt)
  BY <1>1, <1>2 DEF Begin
<1>3. CASE PlannerReads(s) \/ Inspects(s) \/ ReadsAgain(s) \/ Writes(s) \/ TargetFails(s)
  BY <1>1, <1>3 DEF PlannerReads, Inspects, ReadsAgain, Writes, TargetFails
<1>4. CASE Tests(s) \/ Adds(s) \/ Commits(s) \/ RevParses(s) \/ Reports(s)
  BY <1>1, <1>4 DEF Tests, Adds, Commits, RevParses, Reports
<1>5. CASE Prepares(s) \/ Generates(s) \/ GeneratesTests(s) \/ Saves(s) \/ SavesTests(s)
  BY <1>1, <1>5 DEF Prepares, Generates, GeneratesTests, Saves, SavesTests, Failure
<1>6. CASE CompileRuns(s) \/ TestsRun(s)
  BY <1>1, <1>6 DEF CompileRuns, TestsRun, Judge
<1> QED BY <1>2, <1>3, <1>4, <1>5, <1>6 DEF Step, Engineers, Scratches

\* No request goes on for ever: an engineer takes six steps and its tests, a procedure
\* with a model six for each of its two or three attempts.
THEOREM RequestsFinite == Spec => RequestsAdvance
<1>1. ASSUME LocalInv, LocalInv', Next, NEW r \in Requests, Running(r)
      PROVE  /\ Step(r) => StepsLeft(req'[r]) \in Nat /\ StepsLeft(req'[r]) < StepsLeft(req[r])
             /\ Step(r) \/ req'[r] = req[r]
  <2>1. /\ req[r] \in ReqType /\ SeqInv(req[r]) /\ req \in [Requests -> ReqType]
        /\ req'[r] \in ReqType /\ SeqInv(req'[r])
    BY <1>1 DEF LocalInv, ReqInv
  <2>2. Step(r) => StepsLeft(req'[r]) \in Nat /\ StepsLeft(req'[r]) < StepsLeft(req[r])
    <3>1. Step(r) => Edge(req[r], req'[r])
      BY <1>1, FrontEdge, CommandEdge, ScratchEdge DEF Step, Engineers
    <3> QED BY <2>1, <3>1, EdgeAdvances, StepsLeftType
  <2>3. Step(r) \/ req'[r] = req[r]
    <3>1. CASE UserStep
      BY <3>1 DEF UserStep
    <3>2. ASSUME NEW s \in Requests \ {r}, \/ Step(s)
                                           \/ \E prompt \in setting.prompts : Begin(s, prompt)
          PROVE  req'[r] = req[r]
      BY <1>1, <3>2, OthersStay
    <3>3. \A prompt : ~Begin(r, prompt)
      BY <1>1 DEF Running, Begin, At
    <3> QED BY <1>1, <3>1, <3>2, <3>3 DEF Next
  <2> QED BY <2>2, <2>3
<1>2. LocalInv /\ LocalInv' /\ [Next]_vars => [\A r \in Requests : Running(r) =>
        /\ Step(r) => StepsLeft(req'[r]) \in Nat /\ StepsLeft(req'[r]) < StepsLeft(req[r])
        /\ Step(r) \/ req'[r] = req[r]]_vars
  BY <1>1
<1> QED BY <1>2, LocalAlways, PTL DEF Spec, RequestsAdvance
=============================================================================
