------------------------ MODULE AdapterLifecycleProofs ------------------------
(***************************************************************************)
(* Proofs about AdapterLifecycle, for any processes, names, campaigns and   *)
(* number of runs: that the active adapter was accepted by a quality gate   *)
(* whatever the processes do to the registry under each other, and, of a    *)
(* run that no other process overlapped, that it keeps the tasks of the     *)
(* base model and that pointer, registry and report agree about it.         *)
(***************************************************************************)
EXTENDS AdapterLifecycle, FiniteSetTheorems, SequenceTheorems, TLAPS

USE LifecycleAssumption DEF Runs

\* The records processes become.
LEMMA IdleType == Idle \in ProcType /\ NoEntry \in EntryType /\ NoInput \in InputType
<1>1. <<>> \in Seq(Names) /\ <<>> \in Seq(CandidateType)
  OBVIOUS
<1>2. NoEntry \in EntryType
  BY DEF NoEntry, EntryType, Statuses
<1>3. NoInput \in InputType
  BY DEF NoInput, InputType
<1>4. QED
  BY <1>1, <1>2, <1>3 DEF Idle, ProcType, Pcs

\* An entry's status changes alone.
LEMMA EntryStatus ==
  ASSUME NEW e \in EntryType, NEW s \in Statuses
  PROVE  [e EXCEPT !.status = s] \in EntryType
  BY DEF EntryType

\* What Save makes of a process.
LEMMA SaveType ==
  ASSUME NEW r \in ProcType, NEW then \in Pcs, NEW s \in Statuses
  PROVE  [r EXCEPT !.pc = "load", !.then = then, !.entry.status = s] \in ProcType
<1>1. r.entry \in EntryType
  BY DEF ProcType
<1>2. [r.entry EXCEPT !.status = s] \in EntryType
  BY <1>1, EntryStatus
<1>3. [r EXCEPT !.pc = "load", !.then = then, !.entry.status = s]
        = [r EXCEPT !.pc = "load", !.then = then, !.entry = [r.entry EXCEPT !.status = s]]
  BY DEF ProcType
<1>4. "load" \in Pcs
  BY DEF Pcs
<1>5. QED
  BY <1>2, <1>3, <1>4 DEF ProcType

\* What Become makes of a process.
LEMMA PcType ==
  ASSUME NEW r \in ProcType, NEW pc \in Pcs
  PROVE  [r EXCEPT !.pc = pc] \in ProcType
  BY DEF ProcType

\* What End makes of a process.
LEMMA EndType ==
  ASSUME NEW pc \in Pcs
  PROVE  [Idle EXCEPT !.pc = pc] \in ProcType
  BY IdleType, PcType

\* A step that gives a process another record, and leaves the rest.
LEMMA BecomesType ==
  ASSUME TypeOK, NEW p \in Processes, NEW r \in ProcType,
         r.pc \in Working => r.name \in Names,
         proc' = [proc EXCEPT ![p] = r]
  PROVE  /\ proc' \in [Processes -> ProcType]
         /\ \A q \in Processes : proc'[q].pc \in Working => proc'[q].name \in Names
  BY DEF TypeOK
----------------------------------------------------------------------------
\* The initial state has the types.
LEMMA InitType == Init => TypeOK
  BY IdleType DEF Init, TypeOK, NoActive, NoEntry, ActiveType, EntryType, Working, Idle

\* The ways a step changes its process.
LEMMA BecomeType ==
  ASSUME TypeOK, NEW p \in Processes, NEW pc \in Pcs, Become(p, pc),
         proc[p].pc \in Working \/ pc \notin Working
  PROVE  /\ proc' \in [Processes -> ProcType]
         /\ \A q \in Processes : proc'[q].pc \in Working => proc'[q].name \in Names
<1> DEFINE r == [proc[p] EXCEPT !.pc = pc]
<1>1. proc[p] \in ProcType /\ (proc[p].pc \in Working => proc[p].name \in Names)
  BY DEF TypeOK
<1>2. r \in ProcType
  BY <1>1, PcType
<1>3. r.pc \in Working => r.name \in Names
  BY <1>1 DEF ProcType
<1>4. proc' = [proc EXCEPT ![p] = r]
  BY DEF Become, TypeOK
<1>5. QED
  BY <1>2, <1>3, <1>4, BecomesType

LEMMA EndsType ==
  ASSUME TypeOK, NEW p \in Processes, NEW pc \in Pcs \ Working, End(p, pc)
  PROVE  /\ proc' \in [Processes -> ProcType]
         /\ \A q \in Processes : proc'[q].pc \in Working => proc'[q].name \in Names
<1>1. [Idle EXCEPT !.pc = pc] \in ProcType /\ [Idle EXCEPT !.pc = pc].pc = pc
  BY EndType DEF Idle
<1>2. QED
  BY <1>1, BecomesType DEF End

LEMMA SavesType ==
  ASSUME TypeOK, NEW p \in Processes, NEW s \in Statuses, NEW then \in Pcs,
         proc[p].pc \in Working,
         proc' = [proc EXCEPT ![p].pc = "load", ![p].then = then, ![p].entry.status = s]
  PROVE  /\ proc' \in [Processes -> ProcType]
         /\ \A q \in Processes : proc'[q].pc \in Working => proc'[q].name \in Names
<1> DEFINE r == [proc[p] EXCEPT !.pc = "load", !.then = then, !.entry.status = s]
<1>1. proc[p] \in ProcType /\ proc[p].name \in Names
  BY DEF TypeOK
<1>2. r \in ProcType
  BY <1>1, SaveType
<1>3. r.name \in Names
  BY <1>1 DEF ProcType
<1>4. proc' = [proc EXCEPT ![p] = r]
  BY <1>1 DEF TypeOK, ProcType
<1>5. QED
  BY <1>2, <1>3, <1>4, BecomesType

LEMMA ThrowType ==
  ASSUME TypeOK, NEW p \in Processes, proc[p].pc \in Working, Throw(p)
  PROVE  /\ proc' \in [Processes -> ProcType]
         /\ \A q \in Processes : proc'[q].pc \in Working => proc'[q].name \in Names
<1>1. "reportBlocked" \in Pcs /\ "blocked" \in Statuses
  BY DEF Pcs, Statuses
<1>2. CASE Become(p, "reportBlocked")
  BY <1>1, <1>2, BecomeType
<1>3. CASE proc' = [proc EXCEPT ![p].pc = "load", ![p].then = "reportBlocked",
                                ![p].entry.status = "blocked"]
  BY <1>1, <1>3, SavesType
<1>4. QED
  BY <1>2, <1>3 DEF Throw
----------------------------------------------------------------------------
\* The history is of runs.
LEMMA TakesUpType ==
  ASSUME TypeOK, NEW p \in Processes, NEW run \in 0..MaxRuns, TakesUp(p, run)
  PROVE  overlapped' \subseteq 0..MaxRuns
<1>1. ASSUME NEW q \in Processes PROVE RunsOf(q) \subseteq 0..MaxRuns
  <2>1. proc[q] \in ProcType
    BY DEF TypeOK
  <2>2. proc[q].done \in Seq(CandidateType)
    BY <2>1 DEF ProcType
  <2>3. \A i \in DOMAIN proc[q].done : proc[q].done[i] \in CandidateType
    BY <2>2, ElementOfSeq
  <2>4. QED
    BY <2>1, <2>3 DEF RunsOf, CandidateType, ProcType, EntryType
<1>2. \A q \in Others(p) : RunsOf(q) \subseteq 0..MaxRuns
  BY <1>1 DEF Others
<1>3. QED
  BY <1>2 DEF TakesUp, TypeOK

\* Every step keeps the types.
LEMMA StepType ==
  ASSUME TypeOK, [Next]_vars
  PROVE  TypeOK'
<1> DEFINE ProcOK == /\ proc' \in [Processes -> ProcType]
                     /\ \A q \in Processes : proc'[q].pc \in Working => proc'[q].name \in Names
<1>a. \A p \in Processes : proc[p] \in ProcType /\ proc[p].pc \in Pcs
                          /\ proc[p].entry \in EntryType /\ proc[p].run \in 0..MaxRuns
                          /\ proc[p].loaded \in [Names -> EntryType] /\ proc[p].then \in Pcs
  BY DEF TypeOK, ProcType
<1>1. CASE UNCHANGED vars
  BY <1>1 DEF TypeOK, vars, disk
<1>2. ASSUME NEW p \in Processes, Begin(p)
      PROVE  TypeOK'
  <2>1. ASSUME NEW input \in Inputs, NEW names \in Seq(Names), NEW campaign \in BOOLEAN,
               Start(p, input, names, campaign)
        PROVE  TypeOK'
    <3> DEFINE r == [Idle EXCEPT !.pc = "next", !.campaign = campaign, !.todo = names,
                                 !.input = input]
    <3>1. r \in ProcType /\ r.pc \notin Working
      BY IdleType DEF ProcType, Idle, Pcs, Working
    <3>2. ProcOK
      BY <2>1, <3>1, BecomesType DEF Start
    <3>3. QED
      BY <2>1, <3>2 DEF Start, TypeOK, disk
  <2>2. PICK input \in Inputs : \/ \E name \in Names : Start(p, input, <<name>>, FALSE)
                                \/ \E names \in Campaigns : Start(p, input, names, TRUE)
    BY <1>2 DEF Begin
  <2>3. CASE \E name \in Names : Start(p, input, <<name>>, FALSE)
    <3>1. PICK name \in Names : Start(p, input, <<name>>, FALSE)
      BY <2>3
    <3>2. <<name>> \in Seq(Names)
      OBVIOUS
    <3>3. QED
      BY <2>1, <3>1, <3>2
  <2>4. CASE \E names \in Campaigns : Start(p, input, names, TRUE)
    BY <2>1, <2>4
  <2>5. QED
    BY <2>2, <2>3, <2>4
<1>3. ASSUME NEW p \in Processes, NextRun(p)
      PROVE  TypeOK'
  <2> DEFINE r == [proc[p] EXCEPT !.pc = "prepare", !.run = runs + 1,
                                  !.name = Head(proc[p].todo), !.todo = Tail(proc[p].todo),
                                  !.entry = NoEntry]
  <2>1. runs + 1 \in 0..MaxRuns
    BY <1>3 DEF NextRun, TypeOK
  <2>2. Head(proc[p].todo) \in Names /\ Tail(proc[p].todo) \in Seq(Names)
    BY <1>a, <1>3 DEF NextRun, ProcType
  <2>3. r \in ProcType /\ r.name \in Names
    BY <1>a, <2>1, <2>2, IdleType DEF ProcType, Pcs
  <2>4. proc' = [proc EXCEPT ![p] = r]
    BY <1>3 DEF NextRun, TypeOK
  <2>5. ProcOK
    BY <2>3, <2>4, BecomesType
  <2>6. overlapped' \subseteq 0..MaxRuns
    BY <1>3, <2>1, TakesUpType DEF NextRun
  <2>7. QED
    BY <1>3, <2>1, <2>5, <2>6 DEF NextRun, TypeOK, disk
<1>4. ASSUME NEW p \in Processes, Prepare(p)
      PROVE  TypeOK'
  <2> DEFINE r == [proc[p] EXCEPT !.pc = "load", !.then = "preflight",
                                  !.entry = [NoEntry EXCEPT !.run = proc[p].run]]
  <2>1. [NoEntry EXCEPT !.run = proc[p].run] \in EntryType
    BY <1>a, IdleType DEF EntryType
  <2>2. proc[p].name \in Names
    BY <1>4 DEF Prepare, TypeOK, Working, Pcs
  <2>3. r \in ProcType /\ r.name \in Names
    BY ZenonT(30), <1>a, <2>1, <2>2 DEF ProcType, Pcs
  <2>4. proc' = [proc EXCEPT ![p] = r]
    BY <1>4 DEF Prepare, TypeOK
  <2>5. ProcOK
    BY <2>3, <2>4, BecomesType
  <2>6. QED
    BY <1>4, <2>5 DEF Prepare, TypeOK, disk
<1>5. ASSUME NEW p \in Processes, Load(p)
      PROVE  TypeOK'
  <2> DEFINE r == [proc[p] EXCEPT !.pc = "store", !.loaded = registry]
  <2>1. proc[p].name \in Names /\ registry \in [Names -> EntryType]
    BY <1>5 DEF Load, TypeOK, Working, Pcs
  <2>2. r \in ProcType /\ r.name \in Names
    BY ZenonT(30), <1>a, <2>1 DEF ProcType, Pcs
  <2>3. proc' = [proc EXCEPT ![p] = r]
    BY <1>5 DEF Load, TypeOK
  <2>4. ProcOK
    BY <2>2, <2>3, BecomesType
  <2>5. QED
    BY <1>5, <2>4 DEF Load, TypeOK, disk
<1>6. ASSUME NEW p \in Processes, Store(p)
      PROVE  TypeOK'
  <2> DEFINE r == [proc[p] EXCEPT !.pc = proc[p].then, !.loaded = Idle.loaded]
  <2>1. proc[p].name \in Names
    BY <1>6 DEF Store, TypeOK, Working, Pcs
  <2>2. r \in ProcType /\ r.name \in Names
    BY <1>a, <2>1, IdleType DEF ProcType
  <2>3. proc' = [proc EXCEPT ![p] = r]
    BY <1>6 DEF Store, TypeOK
  <2>4. ProcOK
    BY <2>2, <2>3, BecomesType
  <2>5. registry' \in [Names -> EntryType]
    BY <1>6, <1>a DEF Store
  <2>6. QED
    BY <1>6, <2>4, <2>5 DEF Store, TypeOK
<1>7. ASSUME NEW p \in Processes, Preflight(p)
      PROVE  TypeOK'
  <2>1. proc[p].pc \in Working
    BY <1>7 DEF Preflight, Working, Pcs
  <2>2. "report" \in Pcs /\ "train" \in Pcs /\ "training" \in Statuses
    BY DEF Pcs, Statuses
  <2>3. CASE Become(p, "report")
    BY <1>7, <2>1, <2>2, <2>3, BecomeType DEF Preflight, TypeOK, disk
  <2>4. CASE Throw(p)
    BY <1>7, <2>1, <2>4, ThrowType DEF Preflight, TypeOK, disk
  <2>5. CASE Save(p, "training", "train")
    BY <1>7, <2>1, <2>2, <2>5, SavesType DEF Preflight, Save, TypeOK, disk
  <2>6. QED
    BY <1>7, <2>3, <2>4, <2>5 DEF Preflight
<1>8. ASSUME NEW p \in Processes, Train(p)
      PROVE  TypeOK'
  <2>1. proc[p].pc \in Working /\ "register" \in Pcs /\ "trained" \in Statuses
    BY <1>8 DEF Train, Working, Pcs, Statuses
  <2>2. ProcOK
    BY <1>8, <2>1, SavesType DEF Train, Save
  <2>3. passes' \in [1..MaxRuns -> SUBSET Tasks]
    <3>1. PICK tasks \in Trained : passes' = [passes EXCEPT ![proc[p].run] = tasks]
      BY <1>8 DEF Train
    <3>2. tasks \in SUBSET Tasks
      OBVIOUS
    <3>3. QED
      BY <3>1, <3>2 DEF TypeOK
  <2>4. QED
    BY <1>8, <2>2, <2>3 DEF Train, TypeOK
<1>9. ASSUME NEW p \in Processes, Register(p)
      PROVE  TypeOK'
  <2>1. proc[p].pc \in Working /\ "evaluate" \in Pcs /\ "registered" \in Statuses
    BY <1>9 DEF Register, Working, Pcs, Statuses
  <2>2. ProcOK
    BY <1>9, <2>1, SavesType, ThrowType DEF Register, Save
  <2>3. model' \in [Names -> 0..MaxRuns]
    BY <1>9, <1>a DEF Register, TypeOK
  <2>4. QED
    BY <1>9, <2>2, <2>3 DEF Register, TypeOK
<1>10. ASSUME NEW p \in Processes, NEW scored \in BOOLEAN, Evaluate(p, scored)
       PROVE  TypeOK'
  <2> DEFINE candidate == IF model[proc[p].name] = 0 THEN {} ELSE passes[model[proc[p].name]]
             accepted == QualityGate(candidate, proc[p].input.noTaskRegression, scored)
             then == IF accepted /\ proc[p].input.promote /\ ~proc[p].campaign
                     THEN "promote" ELSE "report"
             e == [proc[p].entry EXCEPT
                        !.accepted = accepted, !.score = Cardinality(candidate),
                        !.status = IF accepted THEN "accepted" ELSE "rejected"]
             r == [proc[p] EXCEPT !.pc = "load", !.then = then, !.entry = e]
  <2>1. proc[p].name \in Names
    BY <1>10 DEF Evaluate, TypeOK, Working, Pcs
  <2>2. candidate \in SUBSET Tasks
    BY <2>1 DEF TypeOK
  <2>3. Cardinality(candidate) \in Nat
    BY <2>2, FS_CardinalityType, FS_Subset
  <2>4. accepted \in BOOLEAN
    BY DEF QualityGate
  <2>5. e \in EntryType
    <3> HIDE DEF accepted, candidate
    <3> QED BY <1>a, <2>3, <2>4 DEF EntryType, Statuses
  <2>6. then \in Pcs /\ "load" \in Pcs
    BY DEF Pcs
  <2>7. r \in ProcType /\ r.name \in Names
    <3> HIDE DEF e, then
    <3> QED BY <1>a, <2>1, <2>5, <2>6 DEF ProcType
  <2>8. proc' = [proc EXCEPT ![p] = r]
    <3>1. proc' = [proc EXCEPT ![p].pc = "load", ![p].then = then, ![p].entry = e]
      BY <1>10 DEF Evaluate
    <3> HIDE DEF e, then
    <3>2. QED
      BY <3>1 DEF TypeOK
  <2>9. ProcOK
    <3> HIDE DEF r
    <3> QED BY <2>7, <2>8, BecomesType
  <2>10. QED
    BY <1>10, <2>9 DEF Evaluate, TypeOK, disk
<1>11. ASSUME NEW p \in Processes, Promote(p)
       PROVE  TypeOK'
  <2>1. proc[p].pc \in Working /\ "activate" \in Pcs /\ "promoted" \in Statuses
    BY <1>11 DEF Promote, Working, Pcs, Statuses
  <2>2. QED
    BY <1>11, <2>1, SavesType DEF Promote, Save, TypeOK, disk
<1>12. ASSUME NEW p \in Processes, Activate(p)
       PROVE  TypeOK'
  <2>1. proc[p].pc \in Working /\ "close" \in Pcs /\ "report" \in Pcs
    BY <1>12 DEF Activate, Working, Pcs
  <2>2. ProcOK
    BY <1>12, <2>1, BecomeType DEF Activate
  <2>3. active' \in ActiveType
    BY <1>12, <1>a DEF Activate, ActiveType, EntryType, ProcType
  <2>4. QED
    BY <1>12, <2>2, <2>3 DEF Activate, TypeOK
<1>13. ASSUME NEW p \in Processes, Fails(p)
       PROVE  TypeOK'
  <2>1. "rejected" \in Pcs \ Working
    BY DEF Pcs, Working
  <2>2. CASE End(p, "rejected")
    BY <1>13, <2>1, <2>2, EndsType DEF Fails, TypeOK, disk
  <2>3. CASE ~Uncaught(p) /\ Throw(p)
    <3>1. proc[p].pc \in Working
      BY <1>13, <1>a, <2>3 DEF Fails, Uncaught, Free, Working, Pcs
    <3>2. QED
      BY <1>13, <2>3, <3>1, ThrowType DEF Fails, TypeOK, disk
  <2>4. QED
    BY <1>13, <2>2, <2>3 DEF Fails
<1>14. ASSUME NEW p \in Processes, Report(p)
       PROVE  TypeOK'
  <2> DEFINE status == IF proc[p].pc = "report" THEN proc[p].entry.status ELSE "blocked"
             c == [name |-> proc[p].name, run |-> proc[p].run, status |-> status,
                   score |-> proc[p].entry.score]
             pc == IF proc[p].todo = <<>> THEN "select" ELSE "next"
             r == [proc[p] EXCEPT !.pc = pc, !.done = Append(proc[p].done, c)]
  <2>1. status \in Statuses
    BY <1>a DEF EntryType, Statuses
  <2>2. result' \in [1..MaxRuns -> Statuses \cup {"none"}]
    <3> HIDE DEF status
    <3> QED BY <1>14, <2>1 DEF Report, TypeOK, status
  <2>3. c \in CandidateType
    <3>1. proc[p].name \in Names
      BY <1>14 DEF Report, TypeOK, Working, Pcs
    <3> HIDE DEF status
    <3>2. QED
      BY <1>a, <2>1, <3>1 DEF CandidateType, EntryType
  <2>4. pc \in Pcs \ Working
    BY DEF Pcs, Working
  <2>5. r \in ProcType /\ r.pc \notin Working
    <3>1. Append(proc[p].done, c) \in Seq(CandidateType)
      <4> HIDE DEF c
      <4> QED BY <1>a, <2>3 DEF ProcType
    <3> HIDE DEF c, pc
    <3>2. QED
      BY <1>a, <2>4, <3>1 DEF ProcType
  <2>6. CASE End(p, "returned")
    <3>1. "returned" \in Pcs \ Working
      BY DEF Pcs, Working
    <3>2. ProcOK
      BY <2>6, <3>1, EndsType
    <3>3. QED
      BY <1>14, <2>2, <3>2 DEF Report, TypeOK
  <2>7. CASE proc[p].campaign
    <3>1. proc' = [proc EXCEPT ![p] = r]
      BY <1>14, <2>7 DEF Report, TypeOK
    <3>2. ProcOK
      <4> HIDE DEF r
      <4> QED BY <2>5, <3>1, BecomesType
    <3>3. QED
      BY <1>14, <2>2, <3>2 DEF Report, TypeOK
  <2>8. QED
    BY <1>14, <2>6, <2>7 DEF Report
<1>15. ASSUME NEW p \in Processes, Select(p)
       PROVE  TypeOK'
  <2>1. CASE Become(p, "close") /\ UNCHANGED overlapped
    <3>1. "close" \in Pcs /\ "close" \notin Working
      BY DEF Pcs, Working
    <3>2. QED
      BY <1>15, <2>1, <3>1, BecomeType DEF Select, TypeOK, disk
  <2>2. ASSUME NEW name \in Names,
               proc' = [proc EXCEPT
                        ![p].pc = "load", ![p].then = "activate", ![p].name = name,
                        ![p].entry = [registry[name] EXCEPT !.status = "promoted"]],
               TakesUp(p, registry[name].run)
        PROVE  TypeOK'
    <3> DEFINE r == [proc[p] EXCEPT !.pc = "load", !.then = "activate", !.name = name,
                        !.entry = [registry[name] EXCEPT !.status = "promoted"]]
    <3>1. [registry[name] EXCEPT !.status = "promoted"] \in EntryType
      BY EntryStatus DEF TypeOK, Statuses
    <3>2. r \in ProcType /\ r.name \in Names
      BY ZenonT(30), <1>a, <3>1 DEF ProcType, Pcs
    <3>3. proc' = [proc EXCEPT ![p] = r]
      BY <2>2 DEF TypeOK
    <3>4. ProcOK
      <4> HIDE DEF r
      <4> QED BY <3>2, <3>3, BecomesType
    <3>5. overlapped' \subseteq 0..MaxRuns
      <4>1. registry[name].run \in 0..MaxRuns
        BY DEF TypeOK, EntryType
      <4>2. QED
        BY <2>2, <4>1, TakesUpType
    <3>6. QED
      BY <1>15, <3>4, <3>5 DEF Select, TypeOK, disk
  <2>3. \A i \in DOMAIN proc[p].done : proc[p].done[i].name \in Names
    <3>1. proc[p].done \in Seq(CandidateType)
      BY <1>a DEF ProcType
    <3>2. \A i \in DOMAIN proc[p].done : proc[p].done[i] \in CandidateType
      BY <3>1, ElementOfSeq
    <3>3. QED
      BY <3>2 DEF CandidateType
  <2>4. QED
    BY <1>15, <2>1, <2>2, <2>3 DEF Select
<1>16. ASSUME NEW p \in Processes, Close(p) \/ Crash(p)
       PROVE  TypeOK'
  <2>1. "returned" \in Pcs \ Working /\ "crashed" \in Pcs \ Working
    BY DEF Pcs, Working
  <2>2. ProcOK
    BY <1>16, <2>1, EndsType DEF Close, Crash
  <2>3. QED
    BY <1>16, <2>2 DEF Close, Crash, TypeOK, disk
<1>17. QED
  BY <1>1, <1>2, <1>3, <1>4, <1>5, <1>6, <1>7, <1>8, <1>9, <1>10, <1>11, <1>12, <1>13,
     <1>14, <1>15, <1>16 DEF Next, Step

\* The registry, the pointer and the processes have the types the code gives them.
THEOREM TypeCorrect == Spec => []TypeOK
  BY InitType, StepType, PTL DEF Spec
----------------------------------------------------------------------------
\* What a process must keep for AcceptedInv.
Keeps(r) ==
    /\ Sound(r.entry) /\ \A n \in Names : Sound(r.loaded[n])
    /\ \/ r.pc \in {"promote", "activate"}
       \/ r.pc \in {"load", "store"} /\ r.then \in {"promote", "activate"}
       => r.entry.accepted

\* Who keeps it, and takes a step, leaves the others what they had.
LEMMA KeepsAll ==
  ASSUME TypeOK, NEW p \in Processes, NEW r, Keeps(r), proc' = [proc EXCEPT ![p] = r],
         AcceptedInv
  PROVE  \A q \in Processes :
            /\ Sound(proc'[q].entry) /\ \A n \in Names : Sound(proc'[q].loaded[n])
            /\ Promoting(q)' => proc'[q].entry.accepted
  BY DEF TypeOK, Keeps, AcceptedInv, Promoting, Sound

\* The initial state has no entry that was accepted.
LEMMA InitAccepted == Init => AcceptedInv
  BY DEF Init, AcceptedInv, ActiveWasAccepted, NoActive, NoEntry, Idle, Sound, Promoting

\* Every step keeps the invariant of acceptance.
LEMMA StepAccepted ==
  ASSUME TypeOK, AcceptedInv, [Next]_vars
  PROVE  AcceptedInv'
<1> DEFINE ProcsOK == \A q \in Processes :
            /\ Sound(proc'[q].entry) /\ \A n \in Names : Sound(proc'[q].loaded[n])
            /\ Promoting(q)' => proc'[q].entry.accepted
<1>a. \A p \in Processes : Keeps(proc[p]) /\ proc[p] \in ProcType /\ proc[p].entry \in EntryType
  BY DEF AcceptedInv, Keeps, Promoting, TypeOK, ProcType
<1>b. Sound(NoEntry) /\ \A n \in Names : Sound(Idle.loaded[n])
  BY DEF NoEntry, Idle, Sound
<1>c. ASSUME NEW p \in Processes, NEW pc \in Pcs, Become(p, pc),
             pc \in {"promote", "activate", "load", "store"} => FALSE
      PROVE  ProcsOK
  <2> DEFINE r == [proc[p] EXCEPT !.pc = pc]
  <2>1. Keeps(r)
    BY <1>a, <1>c DEF Keeps, ProcType
  <2>2. proc' = [proc EXCEPT ![p] = r]
    BY <1>c DEF Become, TypeOK
  <2>3. QED
    BY <2>1, <2>2, KeepsAll
<1>d. ASSUME NEW p \in Processes, NEW pc \in Pcs \ Working, End(p, pc)
      PROVE  ProcsOK
  <2> DEFINE r == [Idle EXCEPT !.pc = pc]
  <2>1. Keeps(r)
    BY <1>b, <1>d DEF Keeps, Idle, Pcs, Working
  <2>2. QED
    BY <2>1, <1>d, KeepsAll DEF End
<1>e. ASSUME NEW p \in Processes, NEW s \in Statuses, NEW then \in Pcs,
             s \in {"accepted", "promoted"} \/ then \in {"promote", "activate"}
                => proc[p].entry.accepted,
             Save(p, s, then)
      PROVE  ProcsOK
  <2> DEFINE e == [proc[p].entry EXCEPT !.status = s]
             r == [proc[p] EXCEPT !.pc = "load", !.then = then, !.entry = e]
  <2>1. Sound(e) /\ e.accepted = proc[p].entry.accepted
    BY <1>a, <1>e DEF EntryType, Sound
  <2>2. Keeps(r)
    <3> HIDE DEF e
    <3> QED BY <1>a, <1>e, <2>1 DEF Keeps, ProcType
  <2>3. proc' = [proc EXCEPT ![p] = r]
    BY <1>a, <1>e DEF Save, TypeOK, ProcType
  <2>4. QED
    <3> HIDE DEF r
    <3> QED BY <2>2, <2>3, KeepsAll
<1>f. ASSUME NEW p \in Processes, Throw(p)
      PROVE  ProcsOK
  <2>1. "reportBlocked" \in Pcs /\ "blocked" \in Statuses
    BY DEF Pcs, Statuses
  <2>2. CASE Become(p, "reportBlocked")
    BY <1>c, <2>1, <2>2
  <2>3. CASE proc' = [proc EXCEPT ![p].pc = "load", ![p].then = "reportBlocked",
                                  ![p].entry.status = "blocked"]
    BY <1>e, <2>1, <2>3 DEF Save
  <2>4. QED
    BY <1>f, <2>2, <2>3 DEF Throw
<1>1. CASE UNCHANGED vars
  BY <1>1 DEF AcceptedInv, ActiveWasAccepted, Promoting, vars, disk
<1>2. ASSUME NEW p \in Processes, Begin(p)
      PROVE  AcceptedInv'
  <2>1. ASSUME NEW input \in Inputs, NEW names, NEW campaign, Start(p, input, names, campaign)
        PROVE  AcceptedInv'
    <3> DEFINE r == [Idle EXCEPT !.pc = "next", !.campaign = campaign, !.todo = names,
                                 !.input = input]
    <3>1. Keeps(r)
      BY <1>b DEF Keeps, Idle
    <3>2. ProcsOK
      BY <2>1, <3>1, KeepsAll DEF Start
    <3>3. QED
      BY <2>1, <3>2 DEF Start, AcceptedInv, ActiveWasAccepted, disk
  <2>2. QED
    BY <1>2, <2>1 DEF Begin
<1>3. ASSUME NEW p \in Processes, NextRun(p)
      PROVE  AcceptedInv'
  <2> DEFINE r == [proc[p] EXCEPT !.pc = "prepare", !.run = runs + 1,
                                  !.name = Head(proc[p].todo), !.todo = Tail(proc[p].todo),
                                  !.entry = NoEntry]
  <2>1. Keeps(r)
    BY <1>a, <1>b DEF Keeps, ProcType
  <2>2. proc' = [proc EXCEPT ![p] = r]
    BY <1>3 DEF NextRun, TypeOK
  <2>3. ProcsOK
    BY <2>1, <2>2, KeepsAll
  <2>4. QED
    BY <1>3, <2>3 DEF NextRun, AcceptedInv, ActiveWasAccepted, disk
<1>4. ASSUME NEW p \in Processes, Prepare(p)
      PROVE  AcceptedInv'
  <2> DEFINE r == [proc[p] EXCEPT !.pc = "load", !.then = "preflight",
                                  !.entry = [NoEntry EXCEPT !.run = proc[p].run]]
  <2>1. Keeps(r)
    BY <1>a DEF Keeps, ProcType, NoEntry, Sound
  <2>2. proc' = [proc EXCEPT ![p] = r]
    BY <1>4 DEF Prepare, TypeOK
  <2>3. ProcsOK
    BY <2>1, <2>2, KeepsAll
  <2>4. QED
    BY <1>4, <2>3 DEF Prepare, AcceptedInv, ActiveWasAccepted, disk
<1>5. ASSUME NEW p \in Processes, Load(p)
      PROVE  AcceptedInv'
  <2> DEFINE r == [proc[p] EXCEPT !.pc = "store", !.loaded = registry]
  <2>1. Keeps(r)
    BY <1>a, <1>5 DEF Load, Keeps, ProcType, AcceptedInv
  <2>2. proc' = [proc EXCEPT ![p] = r]
    BY <1>5 DEF Load, TypeOK
  <2>3. ProcsOK
    BY <2>1, <2>2, KeepsAll
  <2>4. QED
    BY <1>5, <2>3 DEF Load, AcceptedInv, ActiveWasAccepted, disk
<1>6. ASSUME NEW p \in Processes, Store(p)
      PROVE  AcceptedInv'
  <2> DEFINE r == [proc[p] EXCEPT !.pc = proc[p].then, !.loaded = Idle.loaded]
  <2>1. Keeps(r)
    BY <1>a, <1>b, <1>6 DEF Store, Keeps, ProcType
  <2>2. proc' = [proc EXCEPT ![p] = r]
    BY <1>6 DEF Store, TypeOK
  <2>4. ProcsOK
    <3> HIDE DEF r
    <3> QED BY <2>1, <2>2, KeepsAll
  <2>5. \A n \in Names : Sound(registry'[n])
    BY <1>a, <1>6 DEF Store, Keeps, ProcType
  <2>6. QED
    BY <1>6, <2>4, <2>5 DEF Store, AcceptedInv, ActiveWasAccepted
<1>7. ASSUME NEW p \in Processes, Preflight(p)
      PROVE  AcceptedInv'
  <2>1. "report" \in Pcs /\ "train" \in Pcs /\ "training" \in Statuses
    BY DEF Pcs, Statuses
  <2>2. Become(p, "report") => ProcsOK
    BY <1>c, <2>1
  <2>3. Throw(p) => ProcsOK
    BY <1>f
  <2>4. Save(p, "training", "train") => ProcsOK
    <3>1. ASSUME Save(p, "training", "train")
          PROVE  ProcsOK
      <4> HIDE DEF ProcsOK
      <4> QED BY <3>1, <1>e, <2>1
    <3>2. QED
      BY <3>1
  <2>5. ProcsOK
    BY <1>7, <2>2, <2>3, <2>4 DEF Preflight
  <2>6. QED
    BY <1>7, <2>5 DEF Preflight, AcceptedInv, ActiveWasAccepted, disk
<1>8. ASSUME NEW p \in Processes, Train(p) \/ Register(p)
      PROVE  AcceptedInv'
  <2>1. /\ "register" \in Pcs /\ "trained" \in Statuses
        /\ "evaluate" \in Pcs /\ "registered" \in Statuses
    BY DEF Pcs, Statuses
  <2>2. Save(p, "trained", "register") => ProcsOK
    BY <1>e, <2>1
  <2>3. Save(p, "registered", "evaluate") => ProcsOK
    <3>1. ASSUME Save(p, "registered", "evaluate")
          PROVE  ProcsOK
      <4> HIDE DEF ProcsOK
      <4> QED BY <3>1, <1>e, <2>1
    <3>2. QED
      BY <3>1
  <2>4. Throw(p) => ProcsOK
    BY <1>f
  <2>5. ProcsOK
    BY <1>8, <2>2, <2>3, <2>4 DEF Train, Register
  <2>6. QED
    BY <1>8, <2>5 DEF Train, Register, AcceptedInv, ActiveWasAccepted
<1>9. ASSUME NEW p \in Processes, NEW scored \in BOOLEAN, Evaluate(p, scored)
      PROVE  AcceptedInv'
  <2> DEFINE candidate == IF model[proc[p].name] = 0 THEN {} ELSE passes[model[proc[p].name]]
             accepted == QualityGate(candidate, proc[p].input.noTaskRegression, scored)
             then == IF accepted /\ proc[p].input.promote /\ ~proc[p].campaign
                     THEN "promote" ELSE "report"
             e == [proc[p].entry EXCEPT
                        !.accepted = accepted, !.score = Cardinality(candidate),
                        !.status = IF accepted THEN "accepted" ELSE "rejected"]
             r == [proc[p] EXCEPT !.pc = "load", !.then = then, !.entry = e]
  <2>1. Sound(e) /\ (then \in {"promote", "activate"} => e.accepted)
    <3> HIDE DEF accepted, candidate
    <3> QED BY <1>a DEF EntryType, Sound
  <2>2. Keeps(r)
    <3> HIDE DEF e, then
    <3> QED BY <1>a, <2>1 DEF Keeps, ProcType
  <2>3. proc' = [proc EXCEPT ![p] = r]
    <3>1. proc' = [proc EXCEPT ![p].pc = "load", ![p].then = then, ![p].entry = e]
      BY <1>9 DEF Evaluate
    <3> HIDE DEF e, then
    <3>2. QED
      BY <3>1 DEF TypeOK
  <2>4. ProcsOK
    <3> HIDE DEF r
    <3> QED BY <2>2, <2>3, KeepsAll
  <2>5. QED
    BY <1>9, <2>4 DEF Evaluate, AcceptedInv, ActiveWasAccepted, disk
<1>10. ASSUME NEW p \in Processes, Promote(p)
       PROVE  AcceptedInv'
  <2>1. "activate" \in Pcs /\ "promoted" \in Statuses /\ proc[p].entry.accepted
    BY <1>a, <1>10 DEF Promote, Keeps, Pcs, Statuses
  <2>2. ProcsOK
    BY <1>10, <1>e, <2>1 DEF Promote
  <2>3. QED
    BY <1>10, <2>2 DEF Promote, AcceptedInv, ActiveWasAccepted, disk
<1>11. ASSUME NEW p \in Processes, Activate(p)
       PROVE  AcceptedInv'
  <2>1. "close" \in Pcs /\ "report" \in Pcs /\ proc[p].entry.accepted
    BY <1>a, <1>11 DEF Activate, Keeps, Pcs
  <2>2. ProcsOK
    BY <1>11, <1>c, <2>1 DEF Activate
  <2>3. active'.accepted
    BY <1>11, <2>1 DEF Activate
  <2>4. QED
    BY <1>11, <2>2, <2>3 DEF Activate, AcceptedInv, ActiveWasAccepted
<1>12. ASSUME NEW p \in Processes, Fails(p)
       PROVE  AcceptedInv'
  <2>1. "rejected" \in Pcs \ Working
    BY DEF Pcs, Working
  <2>2. ProcsOK
    BY <1>12, <1>d, <1>f, <2>1 DEF Fails
  <2>3. QED
    BY <1>12, <2>2 DEF Fails, AcceptedInv, ActiveWasAccepted, disk
<1>13. ASSUME NEW p \in Processes, Report(p)
       PROVE  AcceptedInv'
  <2>1. "returned" \in Pcs \ Working
    BY DEF Pcs, Working
  <2>2. ASSUME NEW pc \in {"select", "next"}, NEW done,
               proc' = [proc EXCEPT ![p].pc = pc, ![p].done = done]
        PROVE  ProcsOK
    <3> DEFINE r == [proc[p] EXCEPT !.pc = pc, !.done = done]
    <3>1. Keeps(r)
      BY <1>a DEF Keeps, ProcType
    <3>2. proc' = [proc EXCEPT ![p] = r]
      BY <2>2 DEF TypeOK
    <3>3. QED
      BY <3>1, <3>2, KeepsAll
  <2>3. ProcsOK
    BY <1>13, <1>d, <2>1, <2>2 DEF Report
  <2>4. QED
    BY <1>13, <2>3 DEF Report, AcceptedInv, ActiveWasAccepted
<1>14. ASSUME NEW p \in Processes, Select(p)
       PROVE  AcceptedInv'
  <2>1. "close" \in Pcs
    BY DEF Pcs
  <2>2. ASSUME NEW name \in Names, StillAccepted(registry[name]),
               proc' = [proc EXCEPT
                        ![p].pc = "load", ![p].then = "activate", ![p].name = name,
                        ![p].entry = [registry[name] EXCEPT !.status = "promoted"]]
        PROVE  ProcsOK
    <3> DEFINE e == [registry[name] EXCEPT !.status = "promoted"]
               r == [proc[p] EXCEPT !.pc = "load", !.then = "activate", !.name = name,
                                    !.entry = e]
    <3>1. e.accepted
      BY <2>2 DEF StillAccepted, AcceptedInv, Sound, TypeOK, EntryType
    <3>2. Keeps(r)
      <4> HIDE DEF e
      <4> QED BY <1>a, <3>1 DEF Keeps, ProcType, Sound
    <3>3. proc' = [proc EXCEPT ![p] = r]
      BY <2>2 DEF TypeOK
    <3>4. QED
      <4> HIDE DEF r
      <4> QED BY <3>2, <3>3, KeepsAll
  <2>3. \A i \in DOMAIN proc[p].done : proc[p].done[i].name \in Names
    <3>1. proc[p].done \in Seq(CandidateType)
      BY <1>a DEF ProcType
    <3>2. \A i \in DOMAIN proc[p].done : proc[p].done[i] \in CandidateType
      BY <3>1, ElementOfSeq
    <3>3. QED
      BY <3>2 DEF CandidateType
  <2>4. ProcsOK
    BY <1>14, <1>c, <2>1, <2>2, <2>3 DEF Select
  <2>5. QED
    BY <1>14, <2>4 DEF Select, AcceptedInv, ActiveWasAccepted, disk
<1>15. ASSUME NEW p \in Processes, Close(p) \/ Crash(p)
       PROVE  AcceptedInv'
  <2>1. "returned" \in Pcs \ Working /\ "crashed" \in Pcs \ Working
    BY DEF Pcs, Working
  <2>2. ProcsOK
    BY <1>15, <1>d, <2>1 DEF Close, Crash
  <2>3. QED
    BY <1>15, <2>2 DEF Close, Crash, AcceptedInv, ActiveWasAccepted, disk
<1>16. QED
  BY <1>1, <1>2, <1>3, <1>4, <1>5, <1>6, <1>7, <1>8, <1>9, <1>10, <1>11, <1>12, <1>13,
     <1>14, <1>15 DEF Next, Step

\* What active.json points to was accepted by a quality gate, however many processes
\* train, promote and write the registry at the same time.
THEOREM ActiveAccepted == Spec => []ActiveWasAccepted
<1>1. TypeOK /\ AcceptedInv /\ [Next]_vars => TypeOK' /\ AcceptedInv'
  BY StepType, StepAccepted
<1>2. Init => TypeOK /\ AcceptedInv
  BY InitType, InitAccepted
<1>3. AcceptedInv => ActiveWasAccepted
  BY DEF AcceptedInv
<1>4. QED
  BY <1>1, <1>2, <1>3, PTL DEF Spec
----------------------------------------------------------------------------
(* What runs know of each other: the inductive invariant *)

Stages == {"preflight", "train", "register", "evaluate", "promote", "activate", "report",
           "reportBlocked"}
Saving(r) == r.pc \in {"load", "store"}
\* A process at a stage, or writing the registry on its way to it.
At(r, stage) == r.pc = stage \/ (Saving(r) /\ r.then = stage)
\* A campaign that promotes the adapter it chose; any other work is that of the run.
Chosen(r) == r.campaign /\ At(r, "activate")
InRun(r) == r.pc \in Working /\ ~Chosen(r)
\* The run has no verdict yet.
Before(r) ==
    \/ r.pc = "prepare" \/ At(r, "preflight") \/ At(r, "train") \/ At(r, "register")
    \/ At(r, "evaluate")
AllRuns(r) == {r.run, r.entry.run} \cup {r.done[i].run : i \in DOMAIN r.done}

\* No input gives up the tasks the base model passes.
KeepsTasks == \A input \in Inputs : input.noTaskRegression

\* What a process knows by itself: its run, the entry of that run and its way on.
Own(r) ==
    /\ r.pc \in {"idle", "returned", "rejected", "crashed"} =>
          r.run = 0 /\ r.entry.run = 0 /\ r.done = <<>>
    /\ r.pc \in Working \cup {"select", "close"} => r.run >= 1
    /\ Saving(r) => r.then \in Stages
    /\ At(r, "promote") => ~r.campaign
    /\ r.pc = "select" => r.campaign
    /\ InRun(r) =>
        /\ r.entry.run \in {0, r.run}
        /\ r.pc = "prepare" => r.entry.run = 0
        /\ r.pc \notin {"prepare", "reportBlocked"} => r.entry.run = r.run
    /\ At(r, "activate") => r.entry.status = "promoted"
    /\ At(r, "reportBlocked") /\ r.entry.run # 0 => r.entry.status = "blocked"
    /\ KeepsTasks /\ r.pc \notin {"idle", "returned", "rejected", "crashed"} =>
          r.input.noTaskRegression

\* An accepted entry is of a run that is evaluated, and its adapter keeps the tasks unless
\* another run overlapped it.
Good(e, procs, pass, over) ==
    e.accepted =>
        /\ e.run >= 1
        /\ \A p \in Processes : Before(procs[p]) => procs[p].run # e.run
        /\ KeepsTasks /\ e.run \notin over => Base \subseteq pass[e.run]

\* An entry says what its run reported, or that it was promoted since.
Told(e, res, over) ==
    e.run \in Runs \ over /\ res[e.run] # "none" =>
        e.status = res[e.run] \/ (e.status = "promoted" /\ res[e.run] = "accepted")

\* The entry of the active adapter calls it promoted.
Pointed(e, n, act, over) ==
    act.name = n /\ e.run = act.run => e.status = "promoted" \/ act.run \in over

Document(doc, procs, pass, res, act, over) ==
    \A n \in Names : /\ Good(doc[n], procs, pass, over)
                     /\ Told(doc[n], res, over)
                     /\ Pointed(doc[n], n, act, over)

\* A run that no other overlapped finds its model, and its entry alone, where it left them.
Undisturbed(r, reg, act, mod, over) ==
    /\ InRun(r) /\ r.run \notin over =>
        /\ r.pc # "report" => act.run # r.run
        /\ At(r, "evaluate") => mod[r.name] = r.run
        /\ \A m \in Names :
            /\ reg[m].run = r.run => m = r.name /\ r.entry.run = r.run
            /\ r.pc = "store" /\ m # r.name => r.loaded[m].run # r.run
    /\ r.pc \in Stages /\ r.entry.run # 0 /\ r.entry.run \notin over =>
        (r.name \in Names /\ reg[r.name].run = r.entry.run =>
            reg[r.name].status = r.entry.status)

\* What the copies of entries a process holds say.
Holds(r, procs, pass, res, act, over) ==
    /\ Good(r.entry, procs, pass, over)
    /\ \A n \in Names : Good(r.loaded[n], procs, pass, over)
    /\ r.pc = "store" => Document(r.loaded, procs, pass, res, act, over)
    /\ Chosen(r) => Told(r.entry, res, over)

\* No run is from the future.
Known ==
    /\ \A n \in Names : registry[n].run <= runs
    /\ active.run <= runs
    /\ \A i \in Runs : i > runs => result[i] = "none"
    /\ \A p \in Processes :
        /\ \A i \in AllRuns(proc[p]) : i <= runs
        /\ \A n \in Names : proc[p].loaded[n].run <= runs

\* While a run that no other overlapped is worked on, no other is.
Alone ==
    \A p, q \in Processes :
        p # q => \A i \in AllRuns(proc[p]) \ {0} : i \notin overlapped => AllRuns(proc[q]) = {0}

Distinct ==
    \A p \in Processes : InRun(proc[p]) =>
        /\ result[proc[p].run] = "none"
        /\ \A q \in Processes \ {p} : InRun(proc[q]) => proc[q].run # proc[p].run

RunInv ==
    /\ Known /\ Alone /\ Distinct
    /\ Good(active, proc, passes, overlapped)
    /\ Document(registry, proc, passes, result, active, overlapped)
    /\ \A p \in Processes :
        /\ Own(proc[p])
        /\ Undisturbed(proc[p], registry, active, model, overlapped)
        /\ Holds(proc[p], proc, passes, result, active, overlapped)
----------------------------------------------------------------------------
(* What a step of one process leaves to the others *)

\* A process that works on no run changes nothing on disk.
LEMMA OnlyWorkersWrite ==
  ASSUME RunInv, NEW p \in Processes, Begin(p) \/ Step(p) \/ Crash(p), ~UNCHANGED disk
  PROVE  proc[p].pc \in Working /\ proc[p].run >= 1
<1>1. Own(proc[p])
  BY DEF RunInv
<1>2. proc[p].pc \in Working
  BY DEF Begin, Start, Step, NextRun, Prepare, Load, Store, Preflight, Train, Register, Evaluate,
         Promote, Activate, Fails, Report, Select, Close, Crash, Working, Pcs, disk
<1>3. QED
  BY <1>1, <1>2 DEF Own

\* Its runs are those it had, and one it takes up: then every run that is worked on at the
\* same time is overlapped.
LEMMA AloneStays ==
  ASSUME TypeOK, RunInv, NEW p \in Processes, NEW s, proc' = [proc EXCEPT ![p] = s],
         \/ AllRuns(s) \subseteq AllRuns(proc[p]) \cup {0} /\ overlapped' = overlapped
         \/ \E i : AllRuns(s) \subseteq AllRuns(proc[p]) \cup {0, i} /\ TakesUp(p, i)
  PROVE  Alone'
<1>1. \A q \in Processes : RunsOf(q) = AllRuns(proc[q])
  BY DEF RunsOf, AllRuns
<1>2. proc'[p] = s /\ \A q \in Processes \ {p} : proc'[q] = proc[q]
  BY DEF TypeOK
<1>3. s.run \in AllRuns(s)
  BY DEF AllRuns
<1>4. Alone
  BY DEF RunInv
<1>5. CASE AllRuns(s) \subseteq AllRuns(proc[p]) \cup {0} /\ overlapped' = overlapped
  <2> SUFFICES ASSUME NEW q \in Processes, NEW o \in Processes, q # o,
                      NEW i \in AllRuns(proc'[q]) \ {0}, i \notin overlapped
               PROVE  AllRuns(proc'[o]) = {0}
    BY <1>5 DEF Alone
  <2>1. CASE q = p
    BY <1>2, <1>4, <1>5, <2>1 DEF Alone
  <2>2. CASE o = p
    <3>1. AllRuns(proc[p]) = {0}
      BY <1>2, <1>4, <1>5, <2>2 DEF Alone
    <3>2. QED
      BY <1>2, <1>3, <1>5, <2>2, <3>1
  <2>3. CASE q # p /\ o # p
    BY <1>2, <1>4, <2>3 DEF Alone
  <2>4. QED
    BY <2>1, <2>2, <2>3
<1>6. ASSUME NEW i, AllRuns(s) \subseteq AllRuns(proc[p]) \cup {0, i}, TakesUp(p, i)
      PROVE  Alone'
  <2>1. /\ overlapped \subseteq overlapped'
        /\ Others(p) # {} => i \in overlapped'
        /\ \A q \in Processes \ {p} : AllRuns(proc[q]) # {0} => AllRuns(proc[q]) \subseteq overlapped'
    BY <1>1, <1>6 DEF TakesUp, Others
  <2> SUFFICES ASSUME NEW q \in Processes, NEW o \in Processes, q # o,
                      NEW j \in AllRuns(proc'[q]) \ {0}, j \notin overlapped'
               PROVE  AllRuns(proc'[o]) = {0}
    BY DEF Alone
  <2>2. CASE q = p /\ j \in AllRuns(proc[p])
    BY <1>2, <1>4, <2>1, <2>2 DEF Alone
  <2>3. CASE q = p /\ j = i
    BY <1>1, <1>2, <2>1, <2>3 DEF Others
  <2>4. CASE q # p
    <3>1. AllRuns(proc[q]) # {0}
      BY <1>2, <2>4
    <3>2. QED
      BY <1>2, <2>1, <2>4, <3>1
  <2>5. QED
    BY <1>2, <1>6, <2>2, <2>3, <2>4
<1>7. QED
  BY <1>5, <1>6

\* What was good stays good: nobody trains a run that was evaluated.
LEMMA GoodStays ==
  ASSUME TypeOK, NEW p \in Processes, NEW s, proc' = [proc EXCEPT ![p] = s],
         overlapped \subseteq overlapped',
         Before(s) => (Before(proc[p]) /\ s.run = proc[p].run) \/ s.run = runs + 1,
         \A i \in Runs : passes'[i] = passes[i] \/ (Before(proc[p]) /\ i = proc[p].run),
         NEW e, e.run \in 0..MaxRuns, e.run <= runs, Good(e, proc, passes, overlapped)
  PROVE  Good(e, proc', passes', overlapped')
<1>1. proc'[p] = s /\ \A q \in Processes \ {p} : proc'[q] = proc[q]
  BY DEF TypeOK
<1>2. runs \in Nat
  BY DEF TypeOK
<1> SUFFICES ASSUME e.accepted
             PROVE  /\ e.run >= 1
                    /\ \A q \in Processes : Before(proc'[q]) => proc'[q].run # e.run
                    /\ KeepsTasks /\ e.run \notin overlapped' => Base \subseteq passes'[e.run]
  BY DEF Good
<1>3. /\ e.run >= 1 /\ e.run \in Runs
      /\ \A q \in Processes : Before(proc[q]) => proc[q].run # e.run
      /\ KeepsTasks /\ e.run \notin overlapped => Base \subseteq passes[e.run]
  BY DEF Good
<1>4. \A q \in Processes : Before(proc'[q]) => proc'[q].run # e.run
  BY <1>1, <1>2, <1>3
<1>5. passes'[e.run] = passes[e.run]
  BY <1>3
<1>6. QED
  BY <1>3, <1>4, <1>5

\* A process that others do not let work alone holds nothing of a run nobody overlapped.
LEMMA NotAlone ==
  ASSUME RunInv, NEW p \in Processes, NEW q \in Processes \ {p},
         NEW i \in AllRuns(proc[p]) \ {0}, i \notin overlapped
  PROVE  proc[q].pc \notin Working
<1>1. AllRuns(proc[q]) = {0} /\ Own(proc[q])
  BY DEF RunInv, Alone
<1>2. proc[q].run = 0
  BY <1>1 DEF AllRuns
<1>3. QED
  BY <1>1, <1>2 DEF Own

\* What the process p leaves of the promises of another.
LEMMA OthersStay ==
  ASSUME TypeOK, RunInv, NEW p \in Processes, Begin(p) \/ Step(p) \/ Crash(p),
         NEW s, proc' = [proc EXCEPT ![p] = s], overlapped \subseteq overlapped',
         Before(s) => (Before(proc[p]) /\ s.run = proc[p].run) \/ s.run = runs + 1,
         \A i \in Runs : passes'[i] = passes[i] \/ (Before(proc[p]) /\ i = proc[p].run),
         \A i \in Runs : result'[i] = result[i] \/ i = proc[p].run,
         active' = active \/ (active'.run = proc[p].entry.run /\ proc[p].entry.run # 0),
         NEW q \in Processes \ {p}
  PROVE  /\ Own(proc'[q])
         /\ Undisturbed(proc'[q], registry', active', model', overlapped')
         /\ Holds(proc'[q], proc', passes', result', active', overlapped')
<1> DEFINE r == proc[q]
<1>1. /\ proc'[q] = r /\ Own(r) /\ r \in ProcType
      /\ Undisturbed(r, registry, active, model, overlapped)
      /\ Holds(r, proc, passes, result, active, overlapped)
      /\ r.entry \in EntryType /\ r.loaded \in [Names -> EntryType]
  BY DEF RunInv, TypeOK, ProcType
<1>2. /\ r.run \in 0..MaxRuns /\ r.entry.run \in 0..MaxRuns
      /\ \A n \in Names : r.loaded[n].run \in 0..MaxRuns
  BY <1>1 DEF ProcType, EntryType
<1>3. /\ r.entry.run <= runs
      /\ \A n \in Names : r.loaded[n].run <= runs
  BY DEF RunInv, Known, AllRuns
<1>4. r.run \in AllRuns(r) /\ r.entry.run \in AllRuns(r) /\ proc[p].run \in AllRuns(proc[p])
      /\ proc[p].entry.run \in AllRuns(proc[p])
  BY DEF AllRuns
<1>5. Good(r.entry, proc', passes', overlapped')
  BY <1>1, <1>2, <1>3, GoodStays DEF Holds
<1>6. ASSUME NEW n \in Names PROVE Good(r.loaded[n], proc', passes', overlapped')
  BY <1>1, <1>2, <1>3, GoodStays DEF Holds
<1>7. ASSUME r.pc \in Working, NEW i \in AllRuns(proc[p]) \ {0}
      PROVE  i \in overlapped
  BY <1>7, NotAlone
<1>8. ASSUME r.pc \in Working, NEW e, Told(e, result, overlapped)
      PROVE  Told(e, result', overlapped')
  <2> SUFFICES ASSUME e.run \in Runs \ overlapped', result'[e.run] # "none"
               PROVE  e.status = result'[e.run] \/ (e.status = "promoted" /\ result'[e.run] = "accepted")
    BY DEF Told
  <2>1. result'[e.run] = result[e.run]
    <3>1. CASE e.run = proc[p].run
      BY <1>4, <1>7, <1>8, <3>1
    <3>2. QED
      BY <3>1
  <2>2. QED
    BY <1>8, <2>1 DEF Told
<1>9. ASSUME r.pc \in Working, NEW e, NEW n, Pointed(e, n, active, overlapped)
      PROVE  Pointed(e, n, active', overlapped')
  <2>1. CASE active' = active
    BY <1>9, <2>1 DEF Pointed
  <2>2. CASE active'.run = proc[p].entry.run /\ proc[p].entry.run # 0
    BY <1>4, <1>7, <1>9, <2>2 DEF Pointed
  <2>3. QED
    BY <2>1, <2>2
<1>10. r.pc = "store" \/ Chosen(r) => r.pc \in Working
  BY DEF Working, Pcs, Chosen, At, Saving
<1>11. Holds(r, proc', passes', result', active', overlapped')
  BY <1>1, <1>5, <1>6, <1>8, <1>9, <1>10 DEF Holds, Document
<1>12. Undisturbed(r, registry', active', model', overlapped')
  <2>1. CASE UNCHANGED disk
    BY <1>1, <2>1 DEF Undisturbed, disk
  <2>2. CASE ~UNCHANGED disk
    <3>1. proc[p].pc \in Working
      BY <2>2, OnlyWorkersWrite
    <3>2. ASSUME NEW i \in AllRuns(r) \ {0} PROVE i \in overlapped
      BY <3>1, <3>2, NotAlone
    <3>3. InRun(r) => r.run # 0
      BY <1>1 DEF Own, InRun
    <3>4. QED
      BY <1>4, <3>2, <3>3 DEF Undisturbed
  <2>3. QED
    BY <2>1, <2>2
<1>13. QED
  BY <1>1, <1>11, <1>12
----------------------------------------------------------------------------
(* What a step of a process keeps of the invariant *)

\* Told and Pointed exempt what is overlapped, and more runs are with time.
LEMMA MoreOverlapped ==
  ASSUME NEW over, NEW more, over \subseteq more, NEW e, NEW res, NEW act, NEW n
  PROVE  /\ Told(e, res, over) => Told(e, res, more)
         /\ Pointed(e, n, act, over) => Pointed(e, n, act, more)
  BY DEF Told, Pointed

\* The invariant after a step, from what it does to the process and to the disk.
LEMMA Combined ==
  ASSUME TypeOK, RunInv, NEW p \in Processes, Begin(p) \/ Step(p) \/ Crash(p),
         NEW s \in ProcType, proc' = [proc EXCEPT ![p] = s], overlapped \subseteq overlapped',
         Before(s) => (Before(proc[p]) /\ s.run = proc[p].run) \/ s.run = runs + 1,
         \A i \in Runs : passes'[i] = passes[i] \/ (Before(proc[p]) /\ i = proc[p].run),
         \A i \in Runs : result'[i] = result[i] \/ (InRun(proc[p]) /\ i = proc[p].run),
         active' = active \/ (active'.run = proc[p].entry.run /\ proc[p].entry.run # 0),
         InRun(s) => /\ (InRun(proc[p]) /\ s.run = proc[p].run) \/ s.run = runs + 1
                     /\ result' = result,
         Known', Alone', Own(s),
         Undisturbed(s, registry', active', model', overlapped'),
         Holds(s, proc', passes', result', active', overlapped'),
         Good(active', proc', passes', overlapped'),
         Document(registry', proc', passes', result', active', overlapped')
  PROVE  RunInv'
<1>1. proc'[p] = s /\ \A q \in Processes \ {p} : proc'[q] = proc[q]
  BY DEF TypeOK
<1>2. /\ \A q \in Processes : proc[q].run \in AllRuns(proc[q])
      /\ \A q \in Processes : Own(proc[q]) /\ proc[q].run <= runs /\ proc[q].run \in 0..MaxRuns
      /\ runs \in Nat /\ s.run \in 0..MaxRuns
  BY DEF RunInv, Known, AllRuns, TypeOK, ProcType
<1>3. \A q \in Processes : InRun(proc[q]) => proc[q].run \in Runs
  BY <1>2 DEF Own, InRun
<1>4. Distinct'
  <2> SUFFICES ASSUME NEW q \in Processes, InRun(proc'[q])
               PROVE  /\ result'[proc'[q].run] = "none"
                      /\ \A o \in Processes \ {q} : InRun(proc'[o]) => proc'[o].run # proc'[q].run
    BY DEF Distinct
  <2>1. CASE q = p
    <3>1. result[s.run] = "none"
      <4>1. CASE InRun(proc[p]) /\ s.run = proc[p].run
        BY <4>1 DEF RunInv, Distinct
      <4>2. CASE s.run = runs + 1
        BY <1>2, <4>2 DEF RunInv, Known
      <4>3. QED
        BY <1>1, <2>1, <4>1, <4>2
    <3>2. ASSUME NEW o \in Processes \ {p}, InRun(proc[o]) PROVE proc[o].run # s.run
      <4>1. CASE InRun(proc[p]) /\ s.run = proc[p].run
        BY <3>2, <4>1 DEF RunInv, Distinct
      <4>2. CASE s.run = runs + 1
        BY <1>2, <4>2
      <4>3. QED
        BY <1>1, <2>1, <4>1, <4>2
    <3>3. QED
      BY <1>1, <2>1, <3>1, <3>2
  <2>2. CASE q # p
    <3>1. /\ InRun(proc[q]) /\ result[proc[q].run] = "none"
          /\ \A o \in Processes \ {q} : InRun(proc[o]) => proc[o].run # proc[q].run
      BY <1>1, <2>2 DEF RunInv, Distinct
    <3>2. result'[proc[q].run] = "none"
      BY <1>3, <2>2, <3>1
    <3>3. InRun(s) => s.run # proc[q].run
      BY <1>2, <2>2, <3>1
    <3>4. QED
      BY <1>1, <2>2, <3>1, <3>2, <3>3
  <2>3. QED
    BY <2>1, <2>2
<1>5. ASSUME NEW q \in Processes
      PROVE  /\ Own(proc'[q])
             /\ Undisturbed(proc'[q], registry', active', model', overlapped')
             /\ Holds(proc'[q], proc', passes', result', active', overlapped')
  BY <1>1, OthersStay
<1>6. QED
  BY <1>4, <1>5 DEF RunInv

\* A step makes known the runs it puts somewhere.
LEMMA KnownStays ==
  ASSUME TypeOK, RunInv, NEW p \in Processes, NEW s, proc' = [proc EXCEPT ![p] = s],
         runs' \in {runs, runs + 1},
         \A i \in AllRuns(s) : i <= runs', \A n \in Names : s.loaded[n].run <= runs',
         \A n \in Names : registry'[n].run <= runs', active'.run <= runs',
         \A i \in Runs : i > runs' => result'[i] = "none"
  PROVE  Known'
<1>1. /\ proc'[p] = s /\ \A q \in Processes \ {p} : proc'[q] = proc[q]
      /\ runs \in Nat
  BY DEF TypeOK
<1>2. ASSUME NEW q \in Processes \ {p}
      PROVE  /\ \A i \in AllRuns(proc[q]) : i <= runs'
             /\ \A n \in Names : proc[q].loaded[n].run <= runs'
  <2>1. proc[q] \in ProcType
    BY DEF TypeOK
  <2>2. \A i \in AllRuns(proc[q]) : i \in Int
    <3>1. \A i \in DOMAIN proc[q].done : proc[q].done[i] \in CandidateType
      BY <2>1, ElementOfSeq DEF ProcType
    <3>2. QED
      BY <2>1, <3>1 DEF AllRuns, ProcType, EntryType, CandidateType
  <2>3. \A n \in Names : proc[q].loaded[n].run \in Int
    BY <2>1 DEF ProcType, EntryType
  <2>4. /\ \A i \in AllRuns(proc[q]) : i <= runs
        /\ \A n \in Names : proc[q].loaded[n].run <= runs
    BY DEF RunInv, Known
  <2>5. QED
    BY <1>1, <2>2, <2>3, <2>4
<1>3. QED
  BY <1>1, <1>2 DEF Known

\* A step that writes nothing on disk.
LEMMA Quiet ==
  ASSUME TypeOK, RunInv, NEW p \in Processes, Begin(p) \/ Step(p) \/ Crash(p),
         NEW s \in ProcType, proc' = [proc EXCEPT ![p] = s],
         UNCHANGED disk, overlapped \subseteq overlapped', runs' \in {runs, runs + 1}, Alone',
         Before(s) => (Before(proc[p]) /\ s.run = proc[p].run) \/ s.run = runs + 1,
         InRun(s) => (InRun(proc[p]) /\ s.run = proc[p].run) \/ s.run = runs + 1,
         \A i \in AllRuns(s) : i <= runs', \A n \in Names : s.loaded[n].run <= runs',
         Own(s), Undisturbed(s, registry, active, model, overlapped'),
         Good(s.entry, proc', passes, overlapped'),
         \A n \in Names : Good(s.loaded[n], proc', passes, overlapped'),
         s.pc = "store" => s.loaded = registry,
         Chosen(s) => Told(s.entry, result, overlapped')
  PROVE  RunInv'
<1>1. /\ proc'[p] = s /\ \A q \in Processes \ {p} : proc'[q] = proc[q]
      /\ runs \in Nat /\ active.run \in 0..MaxRuns
      /\ \A n \in Names : registry[n].run \in 0..MaxRuns
      /\ UNCHANGED <<registry, active, model, passes, result>>
  BY DEF TypeOK, ActiveType, EntryType, disk
<1>2. Known'
  <2>1. /\ \A n \in Names : registry[n].run <= runs
        /\ active.run <= runs /\ \A i \in Runs : i > runs => result[i] = "none"
    BY DEF RunInv, Known
  <2>2. /\ \A n \in Names : registry'[n].run <= runs'
        /\ active'.run <= runs' /\ \A i \in Runs : i > runs' => result'[i] = "none"
    BY <1>1, <2>1
  <2>3. QED
    BY <2>2, KnownStays
<1>3. Good(active, proc', passes, overlapped')
  <2>1. active.run <= runs /\ Good(active, proc, passes, overlapped)
    BY DEF RunInv, Known
  <2>2. QED
    BY <1>1, <2>1, GoodStays
<1>4. Document(registry, proc', passes, result, active, overlapped')
  <2> SUFFICES ASSUME NEW n \in Names
               PROVE  /\ Good(registry[n], proc', passes, overlapped')
                      /\ Told(registry[n], result, overlapped')
                      /\ Pointed(registry[n], n, active, overlapped')
    BY DEF Document
  <2>1. /\ Good(registry[n], proc, passes, overlapped) /\ Told(registry[n], result, overlapped)
        /\ Pointed(registry[n], n, active, overlapped) /\ registry[n].run <= runs
    BY DEF RunInv, Document, Known
  <2>2. Good(registry[n], proc', passes, overlapped')
    BY <1>1, <2>1, GoodStays
  <2>3. QED
    BY <2>1, <2>2, MoreOverlapped
<1>5. Holds(s, proc', passes, result, active, overlapped')
  BY <1>4 DEF Holds
<1>6. QED
  BY <1>1, <1>2, <1>3, <1>4, <1>5, Combined

\* What is known of a process.
LEMMA ProcFacts ==
  ASSUME TypeOK, RunInv, NEW p \in Processes
  PROVE  /\ proc[p] \in ProcType /\ Own(proc[p])
         /\ proc[p].entry \in EntryType /\ proc[p].loaded \in [Names -> EntryType]
         /\ proc[p].run \in 0..MaxRuns /\ proc[p].entry.run \in 0..MaxRuns
         /\ Undisturbed(proc[p], registry, active, model, overlapped)
         /\ Good(proc[p].entry, proc, passes, overlapped)
         /\ \A n \in Names : Good(proc[p].loaded[n], proc, passes, overlapped)
         /\ proc[p].pc = "store" =>
              Document(proc[p].loaded, proc, passes, result, active, overlapped)
         /\ Chosen(proc[p]) => Told(proc[p].entry, result, overlapped)
         /\ \A i \in AllRuns(proc[p]) : i <= runs
         /\ \A n \in Names : proc[p].loaded[n].run <= runs
         /\ proc[p].entry.run <= runs /\ proc[p].run <= runs
  BY DEF TypeOK, RunInv, Holds, Known, AllRuns, ProcType, EntryType

\* A process that stops holds nothing.
LEMMA Stops ==
  ASSUME TypeOK, RunInv, NEW p \in Processes, Begin(p) \/ Step(p) \/ Crash(p),
         NEW pc \in {"returned", "rejected", "crashed"}, End(p, pc),
         UNCHANGED <<disk, runs, overlapped>>
  PROVE  RunInv'
<1> DEFINE s == [Idle EXCEPT !.pc = pc]
<1>1. /\ s.pc = pc /\ s.run = 0 /\ s.entry = NoEntry /\ s.done = <<>>
      /\ s.loaded = [n \in Names |-> NoEntry]
      /\ s \in ProcType
  BY EndType DEF Idle, Pcs
<1>2. proc' = [proc EXCEPT ![p] = s]
  BY DEF End
<1> HIDE DEF s
<1>3. NoEntry.run = 0 /\ NoEntry.accepted = FALSE
  BY DEF NoEntry
<1>4. AllRuns(s) = {0}
  BY <1>1, <1>3 DEF AllRuns
<1>5. /\ ~Before(s) /\ ~InRun(s) /\ ~Chosen(s)
  BY <1>1 DEF Before, InRun, Chosen, At, Saving, Working, Pcs
<1>6. Own(s)
  BY <1>1, <1>3, <1>5 DEF Own, At, Saving, Working, Pcs
<1>7. Undisturbed(s, registry, active, model, overlapped')
  BY <1>1, <1>3, <1>5 DEF Undisturbed
<1>8. /\ Good(s.entry, proc', passes, overlapped')
      /\ \A n \in Names : Good(s.loaded[n], proc', passes, overlapped')
  BY <1>1, <1>3 DEF Good
<1>9. Alone'
  BY <1>2, <1>4, AloneStays
<1>10. /\ runs' = runs /\ overlapped' = overlapped /\ UNCHANGED disk /\ s.pc # "store"
       /\ \A i \in AllRuns(s) : i <= runs' /\ \A n \in Names : s.loaded[n].run <= runs'
  <2>1. runs \in Nat
    BY DEF TypeOK
  <2>2. QED
    BY <1>1, <1>3, <1>4, <2>1
<1>11. QED
  BY <1>1, <1>2, <1>3, <1>4, <1>5, <1>6, <1>7, <1>8, <1>9, <1>10, Quiet

\* A run that goes on without writing.
LEMMA MovesOn ==
  ASSUME TypeOK, RunInv, NEW p \in Processes, Begin(p) \/ Step(p) \/ Crash(p),
         NEW s \in ProcType, proc' = [proc EXCEPT ![p] = s], UNCHANGED <<disk, runs, overlapped>>,
         NEW r, r = proc[p], InRun(r), InRun(s), Own(s),
         s.run = r.run, s.name = r.name, s.done = r.done, s.loaded = r.loaded,
         s.entry.run = r.entry.run, Good(s.entry, proc', passes, overlapped),
         Before(s) => Before(r), At(s, "evaluate") => At(r, "evaluate"),
         r.pc # "report", s.pc # "store",
         s.pc \in Stages /\ s.entry.run # 0 => r.pc \in Stages /\ s.entry.status = r.entry.status
  PROVE  RunInv'
<1>1. /\ Undisturbed(r, registry, active, model, overlapped)
      /\ \A n \in Names : Good(r.loaded[n], proc, passes, overlapped)
      /\ \A i \in AllRuns(r) : i <= runs
      /\ \A n \in Names : r.loaded[n].run <= runs /\ r.loaded[n].run \in 0..MaxRuns
      /\ runs \in Nat
  BY ProcFacts DEF TypeOK, EntryType
<1>2. AllRuns(s) = AllRuns(r)
  BY DEF AllRuns
<1>3. Undisturbed(s, registry, active, model, overlapped)
  BY <1>1 DEF Undisturbed
<1>4. \A n \in Names : Good(s.loaded[n], proc', passes, overlapped)
  <2>1. UNCHANGED <<passes, overlapped>>
    BY DEF disk
  <2>2. QED
    BY <1>1, <2>1, GoodStays
<1>5. Alone'
  BY <1>2, AloneStays
<1>6. ~Chosen(s)
  BY DEF InRun
<1>7. QED
  BY <1>1, <1>2, <1>3, <1>4, <1>5, <1>6, Quiet

\* What saving an entry with a new status does to the process.
LEMMA SaveFields ==
  ASSUME TypeOK, NEW p \in Processes, NEW status \in Statuses, NEW then \in Pcs,
         Save(p, status, then),
         NEW r, r = proc[p]
  PROVE  \E s \in ProcType :
            /\ proc' = [proc EXCEPT ![p] = s]
            /\ s.pc = "load" /\ s.then = then /\ s.entry.status = status
            /\ s.entry.run = r.entry.run /\ s.entry.accepted = r.entry.accepted
            /\ s.run = r.run /\ s.name = r.name /\ s.done = r.done
            /\ s.loaded = r.loaded /\ s.campaign = r.campaign
            /\ s.input = r.input
<1> DEFINE e == [proc[p].entry EXCEPT !.status = status]
           s == [proc[p] EXCEPT !.pc = "load", !.then = then, !.entry = e]
<1>1. proc[p] \in ProcType /\ proc[p].entry \in EntryType
  BY DEF TypeOK, ProcType
<1>2. /\ e \in EntryType /\ e.run = proc[p].entry.run /\ e.accepted = proc[p].entry.accepted
      /\ e.status = status
  BY <1>1 DEF EntryType
<1>3. proc' = [proc EXCEPT ![p] = s]
  BY <1>1 DEF Save, TypeOK, ProcType
<1> HIDE DEF e
<1>4. s \in ProcType
  BY <1>1, <1>2 DEF ProcType, Pcs
<1>5. /\ s.pc = "load" /\ s.then = then /\ s.entry = e
      /\ s.run = proc[p].run /\ s.name = proc[p].name /\ s.done = proc[p].done
      /\ s.loaded = proc[p].loaded /\ s.campaign = proc[p].campaign /\ s.input = proc[p].input
  BY <1>1 DEF ProcType
<1> HIDE DEF s
<1>6. QED
  BY <1>2, <1>3, <1>4, <1>5

\* The run that saves its entry keeps what it promises by itself.
LEMMA SavedOwn ==
  ASSUME NEW r, NEW s, Own(r), InRun(r), r.entry.run = r.run,
         s.pc = "load", s.then \in Stages, s.run = r.run, s.entry.run = r.entry.run,
         s.campaign = r.campaign, s.input = r.input,
         s.then \in {"promote", "activate"} => ~r.campaign,
         s.then = "activate" => s.entry.status = "promoted",
         s.then = "reportBlocked" => s.entry.status = "blocked"
  PROVE  Own(s) /\ InRun(s)
<1>1. /\ r.pc \in Working /\ ~Chosen(r)
      /\ r.pc \notin {"idle", "returned", "rejected", "crashed", "select"}
  BY DEF InRun, Working, Pcs
<1>2. s.pc \in Working /\ s.run >= 1 /\ s.pc \notin {"idle", "returned", "rejected", "crashed"}
  BY <1>1 DEF Own, Working, Pcs
<1>3. ~Chosen(s)
  BY DEF Chosen, At, Saving
<1>4. KeepsTasks => s.input.noTaskRegression
  BY <1>1 DEF Own
<1>5. QED
  BY <1>2, <1>3, <1>4 DEF Own, InRun, At, Saving

\* A run that goes on by saving its entry.
LEMMA SaveMovesOn ==
  ASSUME TypeOK, RunInv, NEW p \in Processes, Begin(p) \/ Step(p) \/ Crash(p),
         UNCHANGED <<disk, runs, overlapped>>,
         NEW status \in Statuses, NEW then \in Stages,
         Save(p, status, then),
         NEW r, r = proc[p], InRun(r), r.entry.run = r.run, r.pc # "report",
         then \in {"promote", "activate"} => ~r.campaign,
         then = "activate" => status = "promoted",
         then = "reportBlocked" => status = "blocked",
         then \in {"preflight", "train", "register", "evaluate"} => Before(r),
         then = "evaluate" => At(r, "evaluate")
  PROVE  RunInv'
<1>0. then \in Pcs
  BY DEF Stages, Pcs
<1>1. PICK s \in ProcType :
            /\ proc' = [proc EXCEPT ![p] = s]
            /\ s.pc = "load" /\ s.then = then /\ s.entry.status = status
            /\ s.entry.run = r.entry.run /\ s.entry.accepted = r.entry.accepted
            /\ s.run = r.run /\ s.name = r.name /\ s.done = r.done
            /\ s.loaded = r.loaded /\ s.campaign = r.campaign /\ s.input = r.input
  BY <1>0, SaveFields
<1>2. /\ Own(r) /\ Good(r.entry, proc, passes, overlapped)
      /\ r.entry.run <= runs /\ r.entry.run \in 0..MaxRuns
  BY ProcFacts
<1>3. Own(s) /\ InRun(s)
  BY <1>1, <1>2, SavedOwn
<1>4. /\ Before(s) => Before(r)
      /\ At(s, "evaluate") => At(r, "evaluate")
      /\ s.pc \notin Stages
  BY <1>1 DEF Before, At, Saving, Stages
<1>5. UNCHANGED <<passes, overlapped>>
  BY DEF disk
<1>6. Good(r.entry, proc', passes', overlapped')
  BY <1>1, <1>2, <1>4, <1>5, GoodStays
<1>7. Good(s.entry, proc', passes, overlapped)
  BY <1>1, <1>5, <1>6 DEF Good
<1>8. QED
  BY <1>1, <1>3, <1>4, <1>7, MovesOn

\* A run that goes on to a stage with the entry it has.
LEMMA BecomeMovesOn ==
  ASSUME TypeOK, RunInv, NEW p \in Processes, Begin(p) \/ Step(p) \/ Crash(p),
         UNCHANGED <<disk, runs, overlapped>>,
         NEW pc \in {"report", "reportBlocked"}, Become(p, pc),
         NEW r, r = proc[p], InRun(r), r.pc # "report",
         IF pc = "report" THEN r.pc \in Stages \ {"reportBlocked"} ELSE r.entry.run = 0
  PROVE  RunInv'
<1> DEFINE s == [r EXCEPT !.pc = pc]
<1>1. /\ proc' = [proc EXCEPT ![p] = s] /\ pc \in Pcs /\ r \in ProcType /\ Own(r)
      /\ Good(r.entry, proc, passes, overlapped)
      /\ r.entry.run <= runs /\ r.entry.run \in 0..MaxRuns
  BY ProcFacts DEF Become, Pcs
<1>2. /\ s \in ProcType /\ s.pc = pc /\ s.entry = r.entry
      /\ s.run = r.run /\ s.name = r.name /\ s.done = r.done
      /\ s.loaded = r.loaded /\ s.campaign = r.campaign /\ s.input = r.input
  BY <1>1 DEF ProcType
<1> HIDE DEF s
<1>3. /\ ~Before(s) /\ ~At(s, "evaluate") /\ ~At(s, "activate") /\ ~At(s, "promote")
      /\ ~Saving(s) /\ ~Chosen(s) /\ pc \in Working /\ pc \notin {"select", "close", "prepare"}
      /\ pc \notin {"idle", "returned", "rejected", "crashed"}
      /\ r.pc \notin {"idle", "returned", "rejected", "crashed"}
  BY <1>2 DEF Before, At, Saving, Chosen, Working, Pcs, InRun
<1>4. InRun(s)
  BY <1>2, <1>3 DEF InRun
<1>5. pc = "report" => r.entry.run = r.run
  BY <1>1 DEF Own, Stages
<1>6. Own(s)
  BY <1>1, <1>2, <1>3, <1>5 DEF Own, InRun, At
<1>7. Good(s.entry, proc', passes, overlapped)
  <2>1. UNCHANGED <<passes, overlapped>>
    BY DEF disk
  <2>2. QED
    BY <1>1, <1>2, <1>3, <2>1, GoodStays
<1>8. s.pc \in Stages /\ s.entry.run # 0 => r.pc \in Stages
  BY <1>2
<1>9. QED
  BY <1>1, <1>2, <1>3, <1>4, <1>6, <1>7, <1>8, MovesOn

\* An error of a run becomes its result, and of its entry if it has one.
LEMMA ThrowMovesOn ==
  ASSUME TypeOK, RunInv, NEW p \in Processes, Begin(p) \/ Step(p) \/ Crash(p),
         UNCHANGED <<disk, runs, overlapped>>, Throw(p), InRun(proc[p]),
         proc[p].pc \notin {"report", "reportBlocked"}
  PROVE  RunInv'
<1>1. Own(proc[p])
  BY ProcFacts
<1>2. CASE proc[p].entry.run = 0
  BY <1>2, BecomeMovesOn DEF Throw
<1>3. CASE proc[p].entry.run # 0
  <2>1. proc[p].entry.run = proc[p].run
    BY <1>1, <1>3 DEF Own
  <2>2. "blocked" \in Statuses /\ "reportBlocked" \in Stages
    BY DEF Statuses, Stages
  <2>3. QED
    BY <1>3, <2>1, <2>2, SaveMovesOn DEF Throw, Save
<1>4. QED
  BY <1>2, <1>3
----------------------------------------------------------------------------
(* The steps, one by one *)

\* A process begins: it has no run yet.
LEMMA StartRuns ==
  ASSUME TypeOK, RunInv, NEW p \in Processes, Begin(p), NEW input \in Inputs,
         NEW names \in Seq(Names), NEW campaign \in BOOLEAN, Start(p, input, names, campaign)
  PROVE  RunInv'
<1> DEFINE s == [Idle EXCEPT !.pc = "next", !.campaign = campaign, !.todo = names,
                             !.input = input]
<1>1. /\ s.pc = "next" /\ s.run = 0 /\ s.entry = NoEntry /\ s.done = <<>>
      /\ s.loaded = [n \in Names |-> NoEntry] /\ s.input = input
      /\ s \in ProcType
  BY IdleType DEF Idle, ProcType, Pcs
<1>2. /\ proc' = [proc EXCEPT ![p] = s] /\ UNCHANGED <<disk, runs, overlapped>>
  BY DEF Start
<1> HIDE DEF s
<1>3. NoEntry.run = 0 /\ NoEntry.accepted = FALSE
  BY DEF NoEntry
<1>4. AllRuns(s) = {0}
  BY <1>1, <1>3 DEF AllRuns
<1>5. /\ ~Before(s) /\ ~InRun(s) /\ ~Chosen(s)
  BY <1>1 DEF Before, InRun, Chosen, At, Saving, Working, Pcs
<1>6. Own(s)
  BY <1>1, <1>3, <1>5 DEF Own, At, Saving, Working, Pcs, KeepsTasks
<1>7. Undisturbed(s, registry, active, model, overlapped')
  BY <1>1, <1>3, <1>5 DEF Undisturbed
<1>8. /\ Good(s.entry, proc', passes, overlapped')
      /\ \A n \in Names : Good(s.loaded[n], proc', passes, overlapped')
  BY <1>1, <1>3 DEF Good
<1>9. Alone'
  BY <1>2, <1>4, AloneStays
<1>10. /\ runs' = runs /\ overlapped' = overlapped /\ UNCHANGED disk /\ s.pc # "store"
       /\ \A i \in AllRuns(s) : i <= runs' /\ \A n \in Names : s.loaded[n].run <= runs'
  <2>1. runs \in Nat
    BY DEF TypeOK
  <2>2. QED
    BY <1>1, <1>2, <1>3, <1>4, <2>1
<1>11. QED
  BY <1>1, <1>2, <1>3, <1>4, <1>5, <1>6, <1>7, <1>8, <1>9, <1>10, Quiet

\* A new run takes a number nobody has.
LEMMA NextRunRuns ==
  ASSUME TypeOK, RunInv, NEW p \in Processes, NextRun(p)
  PROVE  RunInv'
<1> DEFINE r == proc[p]
           s == [r EXCEPT !.pc = "prepare", !.run = runs + 1, !.name = Head(r.todo),
                          !.todo = Tail(r.todo), !.entry = NoEntry]
<1>1. /\ r \in ProcType /\ Own(r) /\ runs \in Nat
      /\ \A i \in AllRuns(r) : i <= runs
      /\ \A n \in Names : Good(r.loaded[n], proc, passes, overlapped)
      /\ \A n \in Names : r.loaded[n].run <= runs /\ r.loaded[n].run \in 0..MaxRuns
      /\ Step(p)
  BY ProcFacts DEF TypeOK, EntryType, Step
<1>2. /\ runs + 1 \in 0..MaxRuns /\ Head(r.todo) \in Names /\ Tail(r.todo) \in Seq(Names)
      /\ r.pc = "next"
  BY <1>1 DEF NextRun, ProcType, TypeOK
<1>3. /\ proc' = [proc EXCEPT ![p] = s] /\ UNCHANGED disk /\ runs' = runs + 1
      /\ TakesUp(p, runs + 1)
  BY DEF NextRun, TypeOK
<1>4. /\ s \in ProcType /\ s.pc = "prepare" /\ s.run = runs + 1 /\ s.entry = NoEntry
      /\ s.loaded = r.loaded /\ s.done = r.done /\ s.input = r.input
  BY <1>1, <1>2, IdleType DEF ProcType, Pcs
<1> HIDE DEF s
<1>5. NoEntry.run = 0 /\ NoEntry.accepted = FALSE
  BY DEF NoEntry
<1>6. AllRuns(s) \subseteq AllRuns(r) \cup {0, runs + 1}
  BY <1>4, <1>5 DEF AllRuns
<1>7. InRun(s) /\ ~Chosen(s) /\ ~At(s, "evaluate") /\ Own(s)
  BY <1>1, <1>2, <1>4, <1>5 DEF InRun, Chosen, At, Saving, Own, Working, Pcs
<1>8. Undisturbed(s, registry, active, model, overlapped')
  <2>1. /\ active.run <= runs /\ active.run \in 0..MaxRuns
        /\ \A n \in Names : registry[n].run <= runs /\ registry[n].run \in 0..MaxRuns
    BY DEF RunInv, Known, TypeOK, EntryType, ActiveType
  <2>2. QED
    BY <1>1, <1>4, <1>5, <1>7, <2>1 DEF Undisturbed
<1>9. overlapped \subseteq overlapped'
  BY <1>3 DEF TakesUp
<1>10. Good(s.entry, proc', passes, overlapped')
  BY <1>4, <1>5 DEF Good
<1>11. \A n \in Names : Good(s.loaded[n], proc', passes, overlapped')
  <2>1. UNCHANGED passes
    BY <1>3 DEF disk
  <2>2. QED
    BY <1>1, <1>3, <1>4, <1>9, <2>1, GoodStays
<1>12. Alone'
  BY <1>3, <1>6, AloneStays
<1>13. /\ \A i \in AllRuns(s) : i <= runs'
       /\ \A n \in Names : s.loaded[n].run <= runs'
  <2>1. \A i \in AllRuns(r) : i \in Int
    <3>1. \A i \in DOMAIN r.done : r.done[i] \in CandidateType
      BY <1>1, ElementOfSeq DEF ProcType
    <3>2. QED
      BY <1>1, <3>1 DEF AllRuns, ProcType, EntryType, CandidateType
  <2>2. QED
    BY <1>1, <1>3, <1>4, <1>6, <2>1
<1>14. QED
  BY <1>1, <1>3, <1>4, <1>7, <1>8, <1>9, <1>10, <1>11, <1>12, <1>13, Quiet

\* The entry of the run is made.
LEMMA PrepareRuns ==
  ASSUME TypeOK, RunInv, NEW p \in Processes, Prepare(p)
  PROVE  RunInv'
<1> DEFINE r == proc[p]
           e == [NoEntry EXCEPT !.run = r.run]
           s == [r EXCEPT !.pc = "load", !.then = "preflight", !.entry = e]
<1>1. /\ r \in ProcType /\ Own(r) /\ runs \in Nat /\ r.pc = "prepare"
      /\ r.run \in 0..MaxRuns /\ r.run <= runs
      /\ Undisturbed(r, registry, active, model, overlapped)
      /\ \A i \in AllRuns(r) : i <= runs
      /\ \A n \in Names : Good(r.loaded[n], proc, passes, overlapped)
      /\ \A n \in Names : r.loaded[n].run <= runs /\ r.loaded[n].run \in 0..MaxRuns
      /\ Step(p)
  BY ProcFacts DEF TypeOK, EntryType, Step, Prepare
<1>2. e \in EntryType /\ e.run = r.run /\ e.accepted = FALSE
  BY <1>1, IdleType DEF EntryType, NoEntry
<1>3. /\ proc' = [proc EXCEPT ![p] = s] /\ UNCHANGED <<disk, runs, overlapped>>
  BY DEF Prepare, TypeOK
<1> HIDE DEF e
<1>4. /\ s \in ProcType /\ s.pc = "load" /\ s.then = "preflight" /\ s.run = r.run
      /\ s.entry = e /\ s.name = r.name
      /\ s.loaded = r.loaded /\ s.done = r.done /\ s.input = r.input
  BY <1>1, <1>2 DEF ProcType, Pcs
<1> HIDE DEF s
<1>5. AllRuns(s) \subseteq AllRuns(r)
  BY <1>2, <1>4 DEF AllRuns
<1>6. InRun(r) /\ Before(r) /\ r.entry.run = 0 /\ r.run >= 1
  BY <1>1 DEF InRun, Chosen, At, Saving, Own, Working, Pcs, Before
<1>7. InRun(s) /\ ~Chosen(s) /\ ~At(s, "evaluate") /\ Own(s)
  BY <1>1, <1>2, <1>4, <1>6 DEF InRun, Chosen, At, Saving, Own, Working, Pcs, Stages
<1>8. Undisturbed(s, registry, active, model, overlapped')
  <2>1. s.pc \notin Stages
    BY <1>4 DEF Stages
  <2>2. QED
    BY <1>1, <1>3, <1>4, <1>6, <1>7, <2>1 DEF Undisturbed
<1>9. Good(s.entry, proc', passes, overlapped')
  BY <1>2, <1>4 DEF Good
<1>10. \A n \in Names : Good(s.loaded[n], proc', passes, overlapped')
  <2>1. UNCHANGED passes
    BY <1>3 DEF disk
  <2>2. QED
    BY <1>1, <1>3, <1>4, <1>6, <2>1, GoodStays
<1>11. Alone'
  BY <1>3, <1>5, AloneStays
<1>12. QED
  BY <1>1, <1>3, <1>4, <1>5, <1>6, <1>7, <1>8, <1>9, <1>10, <1>11, Quiet

\* The document is read.
LEMMA LoadRuns ==
  ASSUME TypeOK, RunInv, NEW p \in Processes, Load(p)
  PROVE  RunInv'
<1> DEFINE r == proc[p]
           s == [r EXCEPT !.pc = "store", !.loaded = registry]
<1>1. /\ r \in ProcType /\ Own(r) /\ runs \in Nat /\ r.pc = "load"
      /\ r.entry.run \in 0..MaxRuns /\ r.entry.run <= runs
      /\ Undisturbed(r, registry, active, model, overlapped)
      /\ Good(r.entry, proc, passes, overlapped)
      /\ Chosen(r) => Told(r.entry, result, overlapped)
      /\ \A i \in AllRuns(r) : i <= runs
      /\ registry \in [Names -> EntryType]
      /\ Step(p)
  BY ProcFacts DEF TypeOK, Step, Load
<1>2. \A n \in Names : /\ Good(registry[n], proc, passes, overlapped)
                       /\ registry[n].run <= runs /\ registry[n].run \in 0..MaxRuns
  BY DEF RunInv, Document, Known, TypeOK, EntryType
<1>3. /\ proc' = [proc EXCEPT ![p] = s] /\ UNCHANGED <<disk, runs, overlapped>>
  BY DEF Load, TypeOK
<1>4. /\ s \in ProcType /\ s.pc = "store" /\ s.then = r.then /\ s.run = r.run
      /\ s.entry = r.entry /\ s.name = r.name /\ s.campaign = r.campaign
      /\ s.loaded = registry /\ s.done = r.done /\ s.input = r.input
  BY <1>1 DEF ProcType, Pcs
<1> HIDE DEF s
<1>5. AllRuns(s) = AllRuns(r)
  BY <1>4 DEF AllRuns
<1>6. /\ InRun(s) <=> InRun(r)
      /\ Chosen(s) <=> Chosen(r)
      /\ Before(s) <=> Before(r)
      /\ \A stage \in Stages : At(s, stage) <=> At(r, stage)
      /\ s.pc \notin Stages
  BY <1>1, <1>4 DEF InRun, Chosen, At, Saving, Working, Pcs, Stages, Before
<1>7. Own(s)
  <2>1. /\ s.pc \in Working /\ r.pc \in Working /\ Saving(r) /\ Saving(s)
        /\ {"promote", "activate", "reportBlocked"} \subseteq Stages
        /\ r.pc \notin {"idle", "returned", "rejected", "crashed", "prepare", "reportBlocked"}
        /\ s.pc \notin {"idle", "returned", "rejected", "crashed", "select", "prepare"}
    BY <1>1, <1>4 DEF Saving, Working, Pcs, Stages
  <2>2. QED
    BY <1>1, <1>4, <1>6, <2>1 DEF Own
<1>8. Undisturbed(s, registry, active, model, overlapped')
  <2>1. "evaluate" \in Stages
    BY DEF Stages
  <2>2. QED
    BY <1>1, <1>3, <1>4, <1>6, <2>1 DEF Undisturbed
<1>9. /\ Good(s.entry, proc', passes, overlapped')
      /\ \A n \in Names : Good(s.loaded[n], proc', passes, overlapped')
  <2>1. UNCHANGED passes
    BY <1>3 DEF disk
  <2>2. QED
    BY <1>1, <1>2, <1>3, <1>4, <1>6, <2>1, GoodStays
<1>10. Alone'
  BY <1>3, <1>5, AloneStays
<1>11. QED
  BY <1>1, <1>2, <1>3, <1>4, <1>5, <1>6, <1>7, <1>8, <1>9, <1>10, Quiet
----------------------------------------------------------------------------
\* The configuration is validated.
LEMMA PreflightRuns ==
  ASSUME TypeOK, RunInv, NEW p \in Processes, Preflight(p)
  PROVE  RunInv'
<1>1. /\ proc[p].pc = "preflight" /\ UNCHANGED <<disk, runs, overlapped>> /\ Step(p)
      /\ Own(proc[p])
  BY ProcFacts DEF Preflight, Step
<1>2. /\ InRun(proc[p]) /\ Before(proc[p]) /\ proc[p].entry.run = proc[p].run
      /\ proc[p].pc \notin {"report", "reportBlocked"} /\ proc[p].pc \in Stages
  BY <1>1 DEF InRun, Chosen, At, Saving, Working, Pcs, Before, Own, Stages
<1>3. CASE Become(p, "report")
  BY <1>1, <1>2, <1>3, BecomeMovesOn
<1>4. CASE Throw(p)
  BY <1>1, <1>2, <1>4, ThrowMovesOn
<1>5. CASE Save(p, "training", "train")
  <2>1. "training" \in Statuses /\ "train" \in Stages
    BY DEF Statuses, Stages
  <2>2. QED
    BY <1>1, <1>2, <1>5, <2>1, SaveMovesOn
<1>6. QED
  BY <1>3, <1>4, <1>5 DEF Preflight

\* Only the accepted entry of the run itself is promoted.
LEMMA PromoteRuns ==
  ASSUME TypeOK, RunInv, NEW p \in Processes, Promote(p)
  PROVE  RunInv'
<1>1. /\ proc[p].pc = "promote" /\ UNCHANGED <<disk, runs, overlapped>> /\ Step(p)
      /\ Save(p, "promoted", "activate") /\ Own(proc[p])
  BY ProcFacts DEF Promote, Step
<1>2. /\ InRun(proc[p]) /\ proc[p].entry.run = proc[p].run /\ ~proc[p].campaign
      /\ proc[p].pc # "report"
  BY <1>1 DEF InRun, Chosen, At, Saving, Working, Pcs, Own
<1>3. "promoted" \in Statuses /\ "activate" \in Stages
  BY DEF Statuses, Stages
<1>4. QED
  BY <1>1, <1>2, <1>3, SaveMovesOn

\* An await fails.
LEMMA FailsRuns ==
  ASSUME TypeOK, RunInv, NEW p \in Processes, Fails(p)
  PROVE  RunInv'
<1>1. UNCHANGED <<disk, runs, overlapped>> /\ Step(p) /\ Own(proc[p])
  BY ProcFacts DEF Fails, Step
<1>2. CASE End(p, "rejected")
  BY <1>1, <1>2, Stops
<1>3. CASE ~Uncaught(p) /\ Throw(p)
  <2>1. /\ proc[p].pc \in Pcs /\ proc[p].pc # "next" /\ ~Free(p)
    BY DEF Fails, TypeOK, ProcType
  <2>2. InRun(proc[p]) /\ proc[p].pc \notin {"report", "reportBlocked"}
    BY <1>1, <1>3, <2>1 DEF Uncaught, Free, InRun, Chosen, Working, Pcs, Own
  <2>3. QED
    BY <1>1, <1>3, <2>2, ThrowMovesOn
<1>4. QED
  BY <1>2, <1>3 DEF Fails

\* An adapter that the gate accepts keeps the tasks, if it is the one that was evaluated.
LEMMA EvaluateRuns ==
  ASSUME TypeOK, RunInv, NEW p \in Processes, NEW scored \in BOOLEAN, Evaluate(p, scored)
  PROVE  RunInv'
<1> DEFINE r == proc[p]
           candidate == IF model[r.name] = 0 THEN {} ELSE passes[model[r.name]]
           accepted == QualityGate(candidate, r.input.noTaskRegression, scored)
           then == IF accepted /\ r.input.promote /\ ~r.campaign THEN "promote" ELSE "report"
           e == [r.entry EXCEPT !.accepted = accepted, !.score = Cardinality(candidate),
                                !.status = IF accepted THEN "accepted" ELSE "rejected"]
           s == [r EXCEPT !.pc = "load", !.then = then, !.entry = e]
<1>1. /\ r \in ProcType /\ Own(r) /\ r.pc = "evaluate" /\ r.name \in Names
      /\ r.entry \in EntryType /\ r.run \in 0..MaxRuns
      /\ Undisturbed(r, registry, active, model, overlapped)
      /\ UNCHANGED <<disk, runs, overlapped>> /\ Step(p)
  BY ProcFacts DEF TypeOK, Step, Evaluate, Working, Pcs
<1>2. /\ InRun(r) /\ At(r, "evaluate") /\ Before(r) /\ r.entry.run = r.run /\ r.run >= 1
      /\ r.pc # "report" /\ (KeepsTasks => r.input.noTaskRegression)
  BY <1>1 DEF InRun, Chosen, At, Saving, Working, Pcs, Own, Before
<1>3. accepted => /\ r.input.noTaskRegression => Base \subseteq candidate
                  /\ r.run \notin overlapped => candidate = passes[r.run]
  BY <1>1, <1>2 DEF QualityGate, Undisturbed
<1>4. accepted \in BOOLEAN /\ Cardinality(candidate) \in Nat
  <2>1. candidate \in SUBSET Tasks
    BY <1>1 DEF TypeOK
  <2>2. QED
    BY <2>1, FS_CardinalityType, FS_Subset DEF QualityGate
<1>5. proc' = [proc EXCEPT ![p].pc = "load", ![p].then = then, ![p].entry = e]
  BY DEF Evaluate
<1>6. then \in {"promote", "report"} /\ (then = "promote" => ~r.campaign)
  OBVIOUS
<1> HIDE DEF accepted, candidate, then
<1>7. /\ e \in EntryType /\ e.run = r.run /\ e.accepted = accepted
  BY <1>1, <1>2, <1>4 DEF EntryType, Statuses
<1> HIDE DEF e
<1>8. proc' = [proc EXCEPT ![p] = s]
  BY <1>1, <1>5 DEF TypeOK
<1>9. /\ s \in ProcType /\ s.pc = "load" /\ s.then = then /\ s.run = r.run
      /\ s.entry = e /\ s.name = r.name /\ s.campaign = r.campaign
      /\ s.loaded = r.loaded /\ s.done = r.done /\ s.input = r.input
  BY <1>1, <1>6, <1>7 DEF ProcType, Pcs
<1> HIDE DEF s
<1>10. Own(s) /\ InRun(s)
  <2>1. then \in Stages /\ then # "activate" /\ then # "reportBlocked"
    BY <1>6 DEF Stages
  <2>2. QED
    BY <1>1, <1>2, <1>6, <1>7, <1>9, <2>1, SavedOwn
<1>11. ~Before(s) /\ ~At(s, "evaluate") /\ s.pc \notin Stages /\ s.pc # "store"
  BY <1>6, <1>9 DEF Before, At, Saving, Stages
<1>12. Good(s.entry, proc', passes, overlapped)
  <2>1. ASSUME NEW q \in Processes, Before(proc'[q]) PROVE proc'[q].run # r.run
    <3>1. q # p /\ proc'[q] = proc[q]
      BY <1>8, <1>11, <2>1 DEF TypeOK
    <3>2. InRun(proc[q])
      BY <2>1, <3>1 DEF Before, InRun, Chosen, At, Saving, Working, Pcs
    <3>3. QED
      BY <1>2, <3>1, <3>2 DEF RunInv, Distinct
  <2>2. QED
    BY <1>2, <1>3, <1>7, <1>9, <2>1 DEF Good
<1>13. QED
  BY <1>1, <1>2, <1>7, <1>8, <1>9, <1>10, <1>11, <1>12, MovesOn

\* A campaign promotes what the registry says is accepted.
LEMMA SelectRuns ==
  ASSUME TypeOK, RunInv, NEW p \in Processes, Select(p)
  PROVE  RunInv'
<1> DEFINE r == proc[p]
<1>1. /\ r \in ProcType /\ Own(r) /\ r.pc = "select" /\ r.campaign /\ r.run >= 1
      /\ r.run \in 0..MaxRuns
      /\ r.entry.run \in 0..MaxRuns /\ r.entry.run <= runs
      /\ Good(r.entry, proc, passes, overlapped)
      /\ \A i \in AllRuns(r) : i <= runs
      /\ \A n \in Names : Good(r.loaded[n], proc, passes, overlapped)
      /\ \A n \in Names : r.loaded[n].run <= runs /\ r.loaded[n].run \in 0..MaxRuns
      /\ Step(p) /\ UNCHANGED disk /\ runs' = runs
      /\ UNCHANGED <<registry, active, model, passes, result>>
  BY ProcFacts DEF TypeOK, EntryType, Step, Select, Own, disk
<1>2. /\ ~InRun(r) /\ ~Before(r)
  BY <1>1 DEF InRun, Before, At, Saving, Working, Pcs
<1>3. CASE Become(p, "close") /\ UNCHANGED overlapped
  <2> DEFINE s == [r EXCEPT !.pc = "close"]
  <2>1. proc' = [proc EXCEPT ![p] = s]
    BY <1>3 DEF Become, TypeOK
  <2>2. /\ s \in ProcType /\ s.pc = "close" /\ s.run = r.run /\ s.input = r.input
        /\ s.entry = r.entry /\ s.loaded = r.loaded /\ s.done = r.done
    BY <1>1 DEF ProcType, Pcs
  <2> HIDE DEF s
  <2>3. /\ ~InRun(s) /\ ~Before(s) /\ ~Chosen(s) /\ s.pc \notin Stages /\ s.pc # "store"
        /\ AllRuns(s) = AllRuns(r)
    BY <2>2 DEF InRun, Before, Chosen, At, Saving, Working, Pcs, Stages, AllRuns
  <2>4. Own(s)
    BY <1>1, <2>2, <2>3 DEF Own, At, Saving
  <2>5. Undisturbed(s, registry, active, model, overlapped')
    BY <2>3 DEF Undisturbed
  <2>6. /\ Good(s.entry, proc', passes, overlapped')
        /\ \A n \in Names : Good(s.loaded[n], proc', passes, overlapped')
    BY <1>1, <1>3, <2>1, <2>2, <2>3, GoodStays
  <2>7. Alone'
    BY <1>3, <2>1, <2>3, AloneStays
  <2>8. QED
    BY <1>1, <1>3, <2>1, <2>2, <2>3, <2>4, <2>5, <2>6, <2>7, Quiet
<1>4. ASSUME NEW name \in Names, StillAccepted(registry[name]),
             proc' = [proc EXCEPT
                      ![p].pc = "load", ![p].then = "activate", ![p].name = name,
                      ![p].entry = [registry[name] EXCEPT !.status = "promoted"]],
             TakesUp(p, registry[name].run)
      PROVE  RunInv'
  <2> DEFINE e == [registry[name] EXCEPT !.status = "promoted"]
             s == [r EXCEPT !.pc = "load", !.then = "activate", !.name = name, !.entry = e]
  <2>1. /\ registry[name] \in EntryType /\ registry[name].run <= runs
        /\ registry[name].status = "accepted"
        /\ Good(registry[name], proc, passes, overlapped)
        /\ Told(registry[name], result, overlapped)
    BY <1>4 DEF TypeOK, RunInv, Known, Document, StillAccepted
  <2>2. /\ e \in EntryType /\ e.run = registry[name].run /\ e.status = "promoted"
        /\ e.accepted = registry[name].accepted /\ e.run \in 0..MaxRuns
    BY <2>1 DEF EntryType, Statuses
  <2>3. proc' = [proc EXCEPT ![p] = s]
    BY <1>4 DEF TypeOK
  <2> HIDE DEF e
  <2>4. /\ s \in ProcType /\ s.pc = "load" /\ s.then = "activate" /\ s.run = r.run
        /\ s.input = r.input /\ s.campaign = r.campaign
        /\ s.entry = e /\ s.loaded = r.loaded /\ s.done = r.done
    BY <1>1, <1>4, <2>2 DEF ProcType, Pcs
  <2> HIDE DEF s
  <2>5. /\ Chosen(s) /\ ~InRun(s) /\ ~Before(s) /\ s.pc \notin Stages /\ s.pc # "store"
        /\ s.then \in Stages
    BY <1>1, <2>4 DEF InRun, Before, Chosen, At, Saving, Working, Pcs, Stages
  <2>6. Own(s)
    BY <1>1, <2>2, <2>4, <2>5 DEF Own, At, Saving
  <2>7. AllRuns(s) \subseteq AllRuns(r) \cup {0, registry[name].run}
    BY <2>2, <2>4 DEF AllRuns
  <2>8. overlapped \subseteq overlapped'
    BY <1>4 DEF TakesUp
  <2>9. Alone'
    BY <1>4, <2>3, <2>7, AloneStays
  <2>10. Undisturbed(s, registry, active, model, overlapped')
    BY <2>5 DEF Undisturbed
  <2>11. \A n \in Names : Good(s.loaded[n], proc', passes, overlapped')
    BY <1>1, <2>3, <2>4, <2>5, <2>8, GoodStays
  <2>12. Good(s.entry, proc', passes, overlapped')
    <3>1. Good(registry[name], proc', passes, overlapped')
      BY <1>1, <2>1, <2>2, <2>3, <2>5, <2>8, GoodStays
    <3>2. QED
      BY <2>2, <2>4, <3>1 DEF Good
  <2>13. Told(s.entry, result, overlapped')
    BY <2>1, <2>2, <2>4, <2>8 DEF Told
  <2>14. /\ \A i \in AllRuns(s) : i <= runs'
         /\ \A n \in Names : s.loaded[n].run <= runs'
    <3>1. runs \in Nat
      BY DEF TypeOK
    <3>2. QED
      BY <1>1, <2>1, <2>4, <2>7, <3>1
  <2>15. QED
    BY <1>1, <2>3, <2>4, <2>5, <2>6, <2>8, <2>9, <2>10, <2>11, <2>12, <2>13, <2>14, Quiet
<1>5. \A i \in DOMAIN r.done : r.done[i].name \in Names
  <2>1. r.done \in Seq(CandidateType)
    BY <1>1 DEF ProcType
  <2>2. \A i \in DOMAIN r.done : r.done[i] \in CandidateType
    BY <2>1, ElementOfSeq
  <2>3. QED
    BY <2>2 DEF CandidateType
<1>6. QED
  BY <1>3, <1>4, <1>5 DEF Select
----------------------------------------------------------------------------
\* What the documents say after a step that writes neither them nor the pointer.
LEMMA DocumentStays ==
  ASSUME TypeOK, RunInv, NEW p \in Processes, NEW s, proc' = [proc EXCEPT ![p] = s],
         UNCHANGED <<registry, active, result, overlapped>>,
         Before(s) => (Before(proc[p]) /\ s.run = proc[p].run) \/ s.run = runs + 1,
         \A i \in Runs : passes'[i] = passes[i] \/ (Before(proc[p]) /\ i = proc[p].run)
  PROVE  /\ Document(registry', proc', passes', result', active', overlapped')
         /\ Good(active', proc', passes', overlapped')
<1>1. active.run \in 0..MaxRuns /\ active.run <= runs /\ Good(active, proc, passes, overlapped)
  BY DEF RunInv, Known, TypeOK, ActiveType
<1>2. Good(active, proc', passes', overlapped')
  BY <1>1, GoodStays
<1>3. ASSUME NEW n \in Names
      PROVE  /\ Good(registry[n], proc', passes', overlapped')
             /\ Told(registry[n], result, overlapped)
             /\ Pointed(registry[n], n, active, overlapped)
  <2>1. /\ Good(registry[n], proc, passes, overlapped) /\ Told(registry[n], result, overlapped)
        /\ Pointed(registry[n], n, active, overlapped)
        /\ registry[n].run <= runs /\ registry[n].run \in 0..MaxRuns
    BY DEF RunInv, Document, Known, TypeOK, EntryType
  <2>2. QED
    BY <2>1, GoodStays
<1>4. QED
  BY <1>2, <1>3 DEF Document

\* A step that names no other run.
LEMMA KnownSame ==
  ASSUME TypeOK, RunInv, NEW p \in Processes, NEW s, proc' = [proc EXCEPT ![p] = s],
         registry' = registry, active' = active, result' = result, runs' = runs,
         AllRuns(s) = AllRuns(proc[p]), s.loaded = proc[p].loaded
  PROVE  Known'
<1>1. /\ runs' \in {runs, runs + 1}
      /\ \A i \in AllRuns(s) : i <= runs'
      /\ \A n \in Names : s.loaded[n].run <= runs'
      /\ \A n \in Names : registry'[n].run <= runs'
      /\ active'.run <= runs'
      /\ \A i \in Runs : i > runs' => result'[i] = "none"
  BY DEF RunInv, Known
<1>2. QED
  BY <1>1, KnownStays

\* A run that saves its entry after it trained or registered its adapter.
LEMMA SaveWrites ==
  ASSUME TypeOK, RunInv, NEW p \in Processes, Step(p),
         UNCHANGED <<registry, active, result, runs, overlapped>>,
         NEW status \in Statuses, NEW then \in {"register", "evaluate"}, Save(p, status, then),
         NEW r, r = proc[p], InRun(r), Before(r), r.entry.run = r.run, r.pc # "report",
         \A i \in Runs : passes'[i] = passes[i] \/ i = r.run,
         then = "evaluate" => model'[r.name] = r.run
  PROVE  RunInv'
<1>0. then \in Pcs
  BY DEF Pcs
<1>1. PICK s \in ProcType :
            /\ proc' = [proc EXCEPT ![p] = s]
            /\ s.pc = "load" /\ s.then = then /\ s.entry.status = status
            /\ s.entry.run = r.entry.run /\ s.entry.accepted = r.entry.accepted
            /\ s.run = r.run /\ s.name = r.name /\ s.done = r.done
            /\ s.loaded = r.loaded /\ s.campaign = r.campaign /\ s.input = r.input
  BY <1>0, SaveFields
<1>2. /\ Own(r) /\ Good(r.entry, proc, passes, overlapped)
      /\ r.entry.run <= runs /\ r.entry.run \in 0..MaxRuns
      /\ Undisturbed(r, registry, active, model, overlapped)
      /\ \A n \in Names : Good(r.loaded[n], proc, passes, overlapped)
      /\ \A i \in AllRuns(r) : i <= runs
      /\ \A n \in Names : r.loaded[n].run <= runs /\ r.loaded[n].run \in 0..MaxRuns
  BY ProcFacts DEF EntryType
<1>3. then \in Stages /\ then \notin {"promote", "activate", "reportBlocked"}
  BY DEF Stages
<1>4. Own(s) /\ InRun(s)
  BY <1>1, <1>2, <1>3, SavedOwn
<1>5. /\ ~Chosen(s) /\ s.pc \notin Stages /\ s.pc # "store"
      /\ At(s, "evaluate") => then = "evaluate"
  BY <1>1, <1>4 DEF InRun, At, Saving, Stages
<1>6. Good(r.entry, proc', passes', overlapped')
  BY <1>1, <1>2, GoodStays
<1>7. Good(s.entry, proc', passes', overlapped')
  BY <1>1, <1>6 DEF Good
<1>8. \A n \in Names : Good(s.loaded[n], proc', passes', overlapped')
  BY <1>1, <1>2, GoodStays
<1>9. Holds(s, proc', passes', result', active', overlapped')
  BY <1>5, <1>7, <1>8 DEF Holds
<1>10. Undisturbed(s, registry', active', model', overlapped')
  BY <1>1, <1>2, <1>4, <1>5 DEF Undisturbed
<1>11. AllRuns(s) = AllRuns(r)
  BY <1>1 DEF AllRuns
<1>12. Alone'
  BY <1>1, <1>11, AloneStays
<1>13. Known'
  <2>1. /\ registry' = registry /\ active' = active /\ result' = result /\ runs' = runs
        /\ s.loaded = proc[p].loaded /\ AllRuns(s) = AllRuns(proc[p])
        /\ proc' = [proc EXCEPT ![p] = s]
    BY <1>1, <1>11
  <2>2. QED
    BY <2>1, KnownSame
<1>14. /\ Document(registry', proc', passes', result', active', overlapped')
       /\ Good(active', proc', passes', overlapped')
  BY <1>1, DocumentStays
<1>15. QED
  BY <1>1, <1>4, <1>9, <1>10, <1>12, <1>13, <1>14, Combined

\* Only a run without a verdict trains.
LEMMA TrainRuns ==
  ASSUME TypeOK, RunInv, NEW p \in Processes, Train(p)
  PROVE  RunInv'
<1>1. /\ proc[p].pc = "train" /\ UNCHANGED <<registry, active, result, runs, overlapped>>
      /\ Step(p) /\ Save(p, "trained", "register") /\ Own(proc[p])
      /\ \E tasks \in Trained : passes' = [passes EXCEPT ![proc[p].run] = tasks]
  BY ProcFacts DEF Train, Step
<1>2. /\ InRun(proc[p]) /\ Before(proc[p]) /\ proc[p].entry.run = proc[p].run
      /\ proc[p].pc # "report"
  BY <1>1 DEF InRun, Chosen, At, Saving, Working, Pcs, Before, Own
<1>3. \A i \in Runs : passes'[i] = passes[i] \/ i = proc[p].run
  BY <1>1 DEF TypeOK
<1>4. "trained" \in Statuses
  BY DEF Statuses
<1>5. QED
  BY <1>1, <1>2, <1>3, <1>4, SaveWrites

\* The model of a name is the run's from now on.
LEMMA RegisterRuns ==
  ASSUME TypeOK, RunInv, NEW p \in Processes, Register(p)
  PROVE  RunInv'
<1>1. /\ proc[p].pc = "register" /\ UNCHANGED <<registry, active, result, runs, overlapped>>
      /\ UNCHANGED passes /\ Step(p) /\ Own(proc[p])
  BY ProcFacts DEF Register, Step
<1>2. /\ InRun(proc[p]) /\ Before(proc[p]) /\ proc[p].entry.run = proc[p].run
      /\ proc[p].pc \notin {"report", "reportBlocked"} /\ proc[p].name \in Names
  BY <1>1 DEF InRun, Chosen, At, Saving, Working, Pcs, Before, Own, TypeOK
<1>3. CASE /\ model' = [model EXCEPT ![proc[p].name] = proc[p].run]
           /\ Save(p, "registered", "evaluate")
  <2>1. "registered" \in Statuses
    BY DEF Statuses
  <2>2. model'[proc[p].name] = proc[p].run
    BY <1>2, <1>3 DEF TypeOK
  <2>3. QED
    BY <1>1, <1>2, <1>3, <2>1, <2>2, SaveWrites
<1>4. CASE Throw(p) /\ UNCHANGED model
  <2>1. UNCHANGED <<disk, runs, overlapped>>
    BY <1>1, <1>4 DEF disk
  <2>2. QED
    BY <1>1, <1>2, <1>4, <2>1, ThrowMovesOn
<1>5. QED
  BY <1>3, <1>4 DEF Register

\* The document a process writes, a stale one perhaps, with its entry in it.
LEMMA StoreRuns ==
  ASSUME TypeOK, RunInv, NEW p \in Processes, Store(p)
  PROVE  RunInv'
<1> DEFINE r == proc[p]
           s == [r EXCEPT !.pc = r.then, !.loaded = Idle.loaded]
<1>0. /\ r.pc = "store" /\ Step(p) /\ runs \in Nat
      /\ UNCHANGED <<active, model, passes, result, runs, overlapped>>
  BY DEF Store, Step, TypeOK
<1>1. /\ r \in ProcType /\ Own(r)
      /\ r.name \in Names /\ r.run \in 0..MaxRuns
      /\ r.entry.run \in 0..MaxRuns /\ r.entry.run <= runs
      /\ r.loaded \in [Names -> EntryType]
      /\ Undisturbed(r, registry, active, model, overlapped)
      /\ Good(r.entry, proc, passes, overlapped)
      /\ Document(r.loaded, proc, passes, result, active, overlapped)
      /\ Chosen(r) => Told(r.entry, result, overlapped)
      /\ \A i \in AllRuns(r) : i <= runs
      /\ \A n \in Names : r.loaded[n].run <= runs /\ r.loaded[n].run \in 0..MaxRuns
  <2>1. r.name \in Names
    BY <1>0 DEF TypeOK, Working, Pcs
  <2>2. \A n \in Names : r.loaded[n].run \in 0..MaxRuns
    BY ProcFacts DEF EntryType
  <2>3. QED
    BY <1>0, <2>1, <2>2, ProcFacts
<1>2. /\ proc' = [proc EXCEPT ![p] = s]
      /\ registry' = [r.loaded EXCEPT ![r.name] = r.entry]
  BY DEF Store, TypeOK
<1>3. r.then \in Stages /\ r.then \in Pcs
  BY <1>0, <1>1 DEF Own, Saving, Stages, Pcs
<1>4. /\ s \in ProcType /\ s.pc = r.then /\ s.run = r.run
      /\ s.entry = r.entry /\ s.name = r.name /\ s.campaign = r.campaign
      /\ s.loaded = [n \in Names |-> NoEntry] /\ s.done = r.done /\ s.input = r.input
  BY <1>0, <1>1, <1>3, IdleType DEF ProcType, Idle
<1> HIDE DEF s
<1>5. /\ registry'[r.name] = r.entry
      /\ \A n \in Names : n # r.name => registry'[n] = r.loaded[n]
  BY <1>0, <1>1, <1>2
<1>6. AllRuns(s) = AllRuns(r)
  BY <1>4 DEF AllRuns
<1>7. /\ InRun(s) <=> InRun(r)
      /\ Chosen(s) <=> Chosen(r)
      /\ Before(s) <=> Before(r)
      /\ \A stage \in Stages : At(s, stage) <=> At(r, stage)
      /\ s.pc \in Stages /\ s.pc \in Working /\ r.pc \in Working
  BY <1>0, <1>1, <1>3, <1>4 DEF InRun, Chosen, At, Saving, Working, Pcs, Stages, Before
<1>8. NoEntry.run = 0 /\ NoEntry.accepted = FALSE
  BY DEF NoEntry
<1>9. Own(s)
  <2>1. /\ ~Saving(s) /\ {"promote", "activate", "reportBlocked"} \subseteq Stages
        /\ r.pc \notin {"idle", "returned", "rejected", "crashed", "prepare", "reportBlocked"}
        /\ s.pc \notin {"idle", "returned", "rejected", "crashed", "select", "prepare"}
    BY <1>0, <1>1, <1>3, <1>4 DEF Saving, Stages, Working, Pcs
  <2>2. QED
    BY <1>0, <1>1, <1>4, <1>7, <2>1 DEF Own
<1>10. InRun(r) => r.entry.run = r.run /\ r.run \in Runs
  BY <1>0, <1>1 DEF Own, InRun
<1>11. Chosen(r) => r.entry.status = "promoted"
  BY <1>0, <1>1 DEF Own, Chosen
<1>12. InRun(r) \/ Chosen(r)
  BY <1>7 DEF InRun
<1>13. Told(r.entry, result, overlapped)
  <2>1. InRun(r) => result[r.run] = "none"
    BY DEF RunInv, Distinct
  <2>2. QED
    BY <1>0, <1>1, <1>10, <1>12, <2>1 DEF Told
<1>14. Pointed(r.entry, r.name, active, overlapped)
  <2>1. InRun(r) /\ r.run \notin overlapped => active.run # r.run
    BY <1>0, <1>1 DEF Undisturbed
  <2>2. QED
    BY <1>10, <1>11, <1>12, <2>1 DEF Pointed
<1>15. Good(s.entry, proc', passes', overlapped')
  BY <1>0, <1>1, <1>2, <1>4, <1>7, GoodStays
<1>16. Document(registry', proc', passes', result', active', overlapped')
  <2>1. ASSUME NEW n \in Names, n # r.name
        PROVE  /\ Good(r.loaded[n], proc', passes', overlapped')
               /\ Told(r.loaded[n], result, overlapped)
               /\ Pointed(r.loaded[n], n, active, overlapped)
    <3>1. /\ Good(r.loaded[n], proc, passes, overlapped)
          /\ Told(r.loaded[n], result, overlapped)
          /\ Pointed(r.loaded[n], n, active, overlapped)
      BY <1>0, <1>1 DEF Document
    <3>2. QED
      BY <1>0, <1>1, <1>2, <1>4, <1>7, <3>1, GoodStays
  <2>2. QED
    BY <1>0, <1>1, <1>4, <1>5, <1>13, <1>14, <1>15, <2>1 DEF Document
<1>17. Good(active', proc', passes', overlapped')
  <2>1. active.run \in 0..MaxRuns /\ active.run <= runs /\ Good(active, proc, passes, overlapped)
    BY DEF RunInv, Known, TypeOK, ActiveType
  <2>2. QED
    BY <1>0, <1>1, <1>2, <1>4, <1>7, <2>1, GoodStays
<1>18. Holds(s, proc', passes', result', active', overlapped')
  <2>1. \A n \in Names : Good(s.loaded[n], proc', passes', overlapped')
    BY <1>4, <1>8 DEF Good
  <2>2. s.pc # "store"
    BY <1>7 DEF Stages
  <2>3. QED
    BY <1>0, <1>1, <1>4, <1>7, <1>15, <2>1, <2>2 DEF Holds
<1>19. Undisturbed(s, registry', active', model', overlapped')
  <2>1. r.pc # "report" /\ s.pc # "store" /\ "evaluate" \in Stages
    BY <1>0, <1>1, <1>7 DEF Stages
  <2>2. ASSUME InRun(r), r.run \notin overlapped
        PROVE  /\ active.run # r.run
               /\ At(r, "evaluate") => model[r.name] = r.run
               /\ \A m \in Names : m # r.name => r.loaded[m].run # r.run
    BY <1>0, <1>1, <2>1, <2>2 DEF Undisturbed
  <2>3. QED
    BY <1>0, <1>1, <1>4, <1>5, <1>7, <1>10, <2>1, <2>2 DEF Undisturbed
<1>20. Alone'
  BY <1>0, <1>1, <1>2, <1>6, AloneStays
<1>21. Known'
  <2>1. /\ \A n \in Names : registry'[n].run <= runs'
        /\ active'.run <= runs' /\ \A i \in Runs : i > runs' => result'[i] = "none"
    BY <1>0, <1>1, <1>5 DEF RunInv, Known
  <2>2. /\ \A i \in AllRuns(s) : i <= runs'
        /\ \A n \in Names : s.loaded[n].run <= runs'
    BY <1>0, <1>1, <1>4, <1>6, <1>8
  <2>3. runs' \in {runs, runs + 1}
    BY <1>0, <1>1
  <2>4. QED
    BY <1>2, <2>1, <2>2, <2>3, KnownStays
<1>22. QED
  BY <1>0, <1>1, <1>2, <1>4, <1>7, <1>9, <1>16, <1>17, <1>18, <1>19, <1>20, <1>21, Combined
----------------------------------------------------------------------------
\* The pointer follows an entry the registry calls promoted, unless another run took it.
LEMMA ActivateRuns ==
  ASSUME TypeOK, AcceptedInv, RunInv, NEW p \in Processes, Activate(p)
  PROVE  RunInv'
<1> DEFINE r == proc[p]
           pc == IF r.campaign THEN "close" ELSE "report"
           s == [r EXCEPT !.pc = pc]
<1>0. /\ r.pc = "activate" /\ Step(p) /\ runs \in Nat
      /\ UNCHANGED <<registry, model, passes, result, runs, overlapped>>
      /\ active'.name = r.name /\ active'.run = r.entry.run
      /\ active'.accepted = r.entry.accepted
      /\ proc' = [proc EXCEPT ![p] = s]
  BY DEF Activate, Step, TypeOK, Become
<1>1. /\ r \in ProcType /\ Own(r) /\ r.name \in Names
      /\ r.run \in 0..MaxRuns
      /\ r.entry.run \in 0..MaxRuns /\ r.entry.run <= runs
      /\ Undisturbed(r, registry, active, model, overlapped)
      /\ Good(r.entry, proc, passes, overlapped)
      /\ \A n \in Names : Good(r.loaded[n], proc, passes, overlapped)
      /\ \A i \in AllRuns(r) : i <= runs
      /\ \A n \in Names : r.loaded[n].run <= runs /\ r.loaded[n].run \in 0..MaxRuns
  <2>1. r.name \in Names
    BY <1>0 DEF TypeOK, Working, Pcs
  <2>2. \A n \in Names : r.loaded[n].run \in 0..MaxRuns
    BY ProcFacts DEF EntryType
  <2>3. QED
    BY <2>1, <2>2, ProcFacts
<1>2. r.entry.accepted /\ r.entry.run >= 1
  BY <1>0, <1>1 DEF AcceptedInv, Promoting, Good
<1>3. pc \in {"close", "report"} /\ (pc = "report" <=> ~r.campaign) /\ pc \in Pcs
  BY DEF Pcs
<1> HIDE DEF pc
<1>4. /\ s \in ProcType /\ s.pc = pc /\ s.run = r.run
      /\ s.entry = r.entry /\ s.name = r.name /\ s.campaign = r.campaign
      /\ s.loaded = r.loaded /\ s.done = r.done /\ s.input = r.input
  BY <1>1, <1>3 DEF ProcType
<1> HIDE DEF s
<1>5. AllRuns(s) = AllRuns(r)
  BY <1>4 DEF AllRuns
<1>6. /\ At(r, "activate") /\ r.pc \in Working /\ r.pc \in Stages /\ r.pc # "report"
      /\ r.pc \notin {"idle", "returned", "rejected", "crashed", "prepare", "reportBlocked"}
  BY <1>0 DEF At, Saving, Working, Pcs, Stages
<1>7. /\ ~Before(s) /\ ~Chosen(s) /\ ~At(s, "evaluate") /\ ~At(s, "promote")
      /\ ~At(s, "activate") /\ ~At(s, "reportBlocked") /\ ~Saving(s)
      /\ s.pc \in Working \cup {"close"}
      /\ s.pc \notin {"idle", "returned", "rejected", "crashed", "prepare", "reportBlocked",
                      "select", "store"}
      /\ InRun(s) => pc = "report"
      /\ s.pc \in Stages => pc = "report"
  BY <1>3, <1>4 DEF Before, Chosen, At, Saving, Working, Pcs, InRun, Stages
<1>8. pc = "report" => InRun(r) /\ r.entry.run = r.run
  BY <1>1, <1>3, <1>6 DEF InRun, Chosen, Own
<1>9. Own(s)
  BY <1>1, <1>4, <1>6, <1>7, <1>8 DEF Own
<1>10. ASSUME NEW e, e.run \in 0..MaxRuns, e.run <= runs, Good(e, proc, passes, overlapped)
       PROVE  Good(e, proc', passes', overlapped')
  BY <1>0, <1>7, <1>10, GoodStays
<1>11. Good(r.entry, proc', passes', overlapped')
  BY <1>1, <1>10
<1>12. Good(active', proc', passes', overlapped')
  BY <1>0, <1>11 DEF Good
<1>13. Holds(s, proc', passes', result', active', overlapped')
  BY <1>1, <1>4, <1>7, <1>10, <1>11 DEF Holds
<1>14. Undisturbed(s, registry', active', model', overlapped')
  BY <1>0, <1>1, <1>4, <1>6, <1>7, <1>8 DEF Undisturbed
<1>15. Document(registry', proc', passes', result', active', overlapped')
  <2>1. ASSUME NEW n \in Names
        PROVE  /\ Good(registry[n], proc', passes', overlapped')
               /\ Told(registry[n], result, overlapped)
               /\ Pointed(registry[n], n, active', overlapped)
    <3>1. /\ Good(registry[n], proc, passes, overlapped) /\ Told(registry[n], result, overlapped)
          /\ registry[n].run <= runs /\ registry[n].run \in 0..MaxRuns
      BY DEF RunInv, Document, Known, TypeOK, EntryType
    <3>2. Pointed(registry[n], n, active', overlapped)
      <4>1. r.entry.status = "promoted"
        BY <1>1, <1>6 DEF Own
      <4>2. r.entry.run \notin overlapped /\ registry[r.name].run = r.entry.run =>
                registry[r.name].status = "promoted"
        BY <1>1, <1>2, <1>6, <4>1 DEF Undisturbed
      <4>3. QED
        BY <1>0, <4>2 DEF Pointed
    <3>3. QED
      BY <1>10, <3>1, <3>2
  <2>2. QED
    BY <1>0, <2>1 DEF Document
<1>16. Alone'
  BY <1>0, <1>5, AloneStays
<1>17. Known'
  <2>1. /\ \A n \in Names : registry'[n].run <= runs'
        /\ active'.run <= runs' /\ \A i \in Runs : i > runs' => result'[i] = "none"
    BY <1>0, <1>1 DEF RunInv, Known
  <2>2. /\ \A i \in AllRuns(s) : i <= runs'
        /\ \A n \in Names : s.loaded[n].run <= runs'
    BY <1>0, <1>1, <1>4, <1>5
  <2>3. runs' \in {runs, runs + 1}
    BY <1>0
  <2>4. QED
    BY <1>0, <2>1, <2>2, <2>3, KnownStays
<1>18. InRun(s) => InRun(r) /\ s.run = r.run
  BY <1>4, <1>7, <1>8
<1>19. active'.run = r.entry.run /\ r.entry.run # 0
  BY <1>0, <1>1, <1>2
<1>20. QED
  BY <1>0, <1>4, <1>7, <1>9, <1>12, <1>13, <1>14, <1>15, <1>16, <1>17, <1>18, <1>19, Combined

\* A run reports what its entry says.
LEMMA ReportRuns ==
  ASSUME TypeOK, RunInv, NEW p \in Processes, Report(p)
  PROVE  RunInv'
<1> DEFINE r == proc[p]
           status == IF r.pc = "report" THEN r.entry.status ELSE "blocked"
<1>0. /\ r.pc \in {"report", "reportBlocked"} /\ Step(p) /\ runs \in Nat
      /\ UNCHANGED <<registry, active, model, passes, runs, overlapped>>
      /\ result' = [result EXCEPT ![r.run] = status]
  BY DEF Report, Step, TypeOK
<1>1. /\ r \in ProcType /\ Own(r) /\ r.name \in Names
      /\ r.run \in 0..MaxRuns /\ r.run <= runs
      /\ r.entry \in EntryType /\ r.entry.run \in 0..MaxRuns /\ r.entry.run <= runs
      /\ Undisturbed(r, registry, active, model, overlapped)
      /\ Good(r.entry, proc, passes, overlapped)
      /\ \A n \in Names : Good(r.loaded[n], proc, passes, overlapped)
      /\ \A i \in AllRuns(r) : i <= runs
      /\ \A n \in Names : r.loaded[n].run <= runs /\ r.loaded[n].run \in 0..MaxRuns
  <2>1. r.name \in Names
    BY <1>0 DEF TypeOK, Working, Pcs
  <2>2. \A n \in Names : r.loaded[n].run \in 0..MaxRuns
    BY ProcFacts DEF EntryType
  <2>3. QED
    BY <2>1, <2>2, ProcFacts
<1>2. /\ InRun(r) /\ r.run >= 1 /\ r.pc \in Stages
      /\ r.pc = "report" => r.entry.run = r.run
      /\ r.pc = "reportBlocked" /\ r.entry.run # 0 => r.entry.status = "blocked"
  <2>1. InRun(r) /\ r.pc \in Stages /\ r.pc \in Working
        /\ (r.pc = "reportBlocked" => At(r, "reportBlocked"))
    BY <1>0 DEF InRun, Chosen, At, Saving, Working, Pcs, Stages
  <2>2. QED
    BY <1>0, <1>1, <2>1 DEF Own
<1>3. r.entry.run = r.run => status = r.entry.status
  BY <1>0, <1>1, <1>2
<1> HIDE DEF status
<1>4. /\ \A i \in Runs : i # r.run => result'[i] = result[i]
      /\ result'[r.run] = status
  BY <1>0, <1>1, <1>2 DEF TypeOK
<1>5. ASSUME NEW s \in ProcType, proc' = [proc EXCEPT ![p] = s],
             s.pc \in {"select", "next", "returned"},
             AllRuns(s) \subseteq AllRuns(r) \cup {0}, Own(s),
             \/ s.entry = r.entry /\ s.loaded = r.loaded
             \/ s.entry = NoEntry /\ s.loaded = [n \in Names |-> NoEntry]
      PROVE  RunInv'
  <2>1. /\ ~Before(s) /\ ~InRun(s) /\ ~Chosen(s) /\ s.pc \notin Stages /\ s.pc # "store"
    BY <1>5 DEF Before, InRun, Chosen, At, Saving, Working, Pcs, Stages
  <2>2. NoEntry.run = 0 /\ NoEntry.accepted = FALSE
    BY DEF NoEntry
  <2>3. ASSUME NEW e, e.run \in 0..MaxRuns, e.run <= runs, Good(e, proc, passes, overlapped)
        PROVE  Good(e, proc', passes', overlapped')
    BY <1>0, <1>5, <2>1, <2>3, GoodStays
  <2>4. /\ Good(s.entry, proc', passes', overlapped')
        /\ \A n \in Names : Good(s.loaded[n], proc', passes', overlapped')
    <3>1. CASE s.entry = r.entry /\ s.loaded = r.loaded
      BY <1>1, <2>3, <3>1
    <3>2. CASE s.entry = NoEntry /\ s.loaded = [n \in Names |-> NoEntry]
      BY <2>2, <3>2 DEF Good
    <3>3. QED
      BY <1>5, <3>1, <3>2
  <2>5. Holds(s, proc', passes', result', active', overlapped')
    BY <2>1, <2>4 DEF Holds
  <2>6. Undisturbed(s, registry', active', model', overlapped')
    BY <2>1 DEF Undisturbed
  <2>7. Good(active', proc', passes', overlapped')
    <3>1. active.run \in 0..MaxRuns /\ active.run <= runs
          /\ Good(active, proc, passes, overlapped)
      BY DEF RunInv, Known, TypeOK, ActiveType
    <3>2. QED
      BY <1>0, <2>3, <3>1
  <2>8. ASSUME NEW n \in Names PROVE Told(registry[n], result', overlapped)
    <3>1. Told(registry[n], result, overlapped)
      BY DEF RunInv, Document
    <3>2. CASE registry[n].run # r.run
      BY <1>4, <3>1, <3>2 DEF Told
    <3>3. CASE registry[n].run = r.run /\ r.run \notin overlapped
      <4>1. n = r.name /\ r.entry.run = r.run
        BY <1>1, <1>2, <3>3 DEF Undisturbed
      <4>2. registry[n].status = r.entry.status
        BY <1>1, <1>2, <3>3, <4>1 DEF Undisturbed
      <4>3. QED
        BY <1>3, <1>4, <3>3, <4>1, <4>2 DEF Told
    <3>4. QED
      BY <3>2, <3>3 DEF Told
  <2>9. Document(registry', proc', passes', result', active', overlapped')
    <3>1. ASSUME NEW n \in Names
          PROVE  /\ Good(registry[n], proc', passes', overlapped')
                 /\ Pointed(registry[n], n, active, overlapped)
      <4>1. /\ Good(registry[n], proc, passes, overlapped)
            /\ Pointed(registry[n], n, active, overlapped)
            /\ registry[n].run <= runs /\ registry[n].run \in 0..MaxRuns
        BY DEF RunInv, Document, Known, TypeOK, EntryType
      <4>2. QED
        BY <2>3, <4>1
    <3>2. QED
      BY <1>0, <2>8, <3>1 DEF Document
  <2>10. Alone'
    BY <1>0, <1>5, AloneStays
  <2>11. Known'
    <3>1. /\ \A n \in Names : registry'[n].run <= runs'
          /\ active'.run <= runs'
      BY <1>0 DEF RunInv, Known
    <3>2. \A i \in Runs : i > runs' => result'[i] = "none"
      BY <1>0, <1>1, <1>4 DEF RunInv, Known
    <3>3. /\ \A i \in AllRuns(s) : i <= runs'
          /\ \A n \in Names : s.loaded[n].run <= runs'
      BY <1>0, <1>1, <1>5, <2>2
    <3>4. runs' \in {runs, runs + 1}
      BY <1>0
    <3>5. QED
      BY <1>5, <3>1, <3>2, <3>3, <3>4, KnownStays
  <2>12. \A i \in Runs : result'[i] = result[i] \/ (InRun(r) /\ i = r.run)
    BY <1>2, <1>4
  <2>13. QED
    BY <1>0, <1>5, <2>1, <2>5, <2>6, <2>7, <2>9, <2>10, <2>11, <2>12, Combined
<1>6. CASE r.campaign
  <2> DEFINE pc == IF r.todo = <<>> THEN "select" ELSE "next"
             c == [name |-> r.name, run |-> r.run, status |-> status, score |-> r.entry.score]
             s == [r EXCEPT !.pc = pc, !.done = Append(r.done, c)]
  <2>1. proc' = [proc EXCEPT ![p] = s]
    BY <1>6 DEF Report, TypeOK, status
  <2>2. c \in CandidateType /\ r.done \in Seq(CandidateType) /\ c.run = r.run
    BY <1>0, <1>1 DEF CandidateType, EntryType, Statuses, status, ProcType
  <2>3. pc \in {"select", "next"} /\ pc \in Pcs
    BY DEF Pcs
  <2> HIDE DEF c, pc
  <2>4. Append(r.done, c) \in Seq(CandidateType)
    BY <2>2
  <2>5. /\ s \in ProcType /\ s.pc = pc /\ s.run = r.run /\ s.entry = r.entry
        /\ s.done = Append(r.done, c) /\ s.loaded = r.loaded /\ s.campaign = r.campaign
        /\ s.input = r.input
    BY <1>1, <2>3, <2>4 DEF ProcType
  <2> HIDE DEF s
  <2>6. \A i \in DOMAIN s.done : s.done[i].run \in AllRuns(r)
    <3>1. ASSUME NEW i \in DOMAIN s.done PROVE s.done[i].run \in AllRuns(r)
      <4>1. CASE i \in DOMAIN r.done
        <5>1. s.done[i] = r.done[i]
          BY <2>2, <2>5, <4>1
        <5>2. QED
          BY <4>1, <5>1 DEF AllRuns
      <4>2. CASE i = Len(r.done) + 1
        BY <2>2, <2>5, <4>2 DEF AllRuns
      <4>3. QED
        BY <2>2, <2>5, <4>1, <4>2
    <3>2. QED
      BY <3>1
  <2>7. AllRuns(s) \subseteq AllRuns(r)
    BY <2>5, <2>6 DEF AllRuns
  <2>8. /\ ~InRun(s) /\ ~Saving(s) /\ ~At(s, "promote") /\ ~At(s, "activate")
        /\ ~At(s, "reportBlocked") /\ s.pc \notin {"idle", "returned", "rejected", "crashed"}
        /\ r.pc \notin {"idle", "returned", "rejected", "crashed"}
    BY <1>0, <2>3, <2>5 DEF InRun, At, Saving, Working, Pcs
  <2>9. Own(s)
    BY <1>1, <1>2, <1>6, <2>3, <2>5, <2>8 DEF Own
  <2>10. QED
    BY <1>5, <2>1, <2>3, <2>5, <2>7, <2>9
<1>7. CASE ~r.campaign
  <2> DEFINE s == [Idle EXCEPT !.pc = "returned"]
  <2>1. proc' = [proc EXCEPT ![p] = s]
    BY <1>7 DEF Report, End
  <2>2. /\ s \in ProcType /\ s.pc = "returned" /\ s.run = 0 /\ s.entry = NoEntry
        /\ s.done = <<>> /\ s.loaded = [n \in Names |-> NoEntry]
    BY EndType DEF Idle, Pcs
  <2> HIDE DEF s
  <2>3. NoEntry.run = 0
    BY DEF NoEntry
  <2>4. AllRuns(s) \subseteq AllRuns(r) \cup {0}
    BY <2>2, <2>3 DEF AllRuns
  <2>5. Own(s)
    BY <2>2, <2>3 DEF Own, InRun, At, Saving, Working, Pcs
  <2>6. QED
    BY <1>5, <2>1, <2>2, <2>4, <2>5
<1>8. QED
  BY <1>6, <1>7
----------------------------------------------------------------------------
\* The initial state has no runs.
LEMMA InitRuns == Init => RunInv
<1> SUFFICES ASSUME Init PROVE RunInv
  OBVIOUS
<1>1. /\ \A p \in Processes : proc[p] = Idle
      /\ \A n \in Names : registry[n] = NoEntry
      /\ active.run = 0 /\ active.accepted = FALSE /\ active.name \notin Names
      /\ \A i \in Runs : result[i] = "none"
      /\ runs = 0
  BY DEF Init, NoActive
<1>2. /\ Idle.pc = "idle" /\ Idle.run = 0 /\ Idle.entry = NoEntry /\ Idle.done = <<>>
      /\ \A n \in Names : Idle.loaded[n] = NoEntry
  BY DEF Idle
<1>3. NoEntry.run = 0 /\ NoEntry.accepted = FALSE
  BY DEF NoEntry
<1>4. AllRuns(Idle) = {0}
  BY <1>2, <1>3 DEF AllRuns
<1>5. ~InRun(Idle) /\ ~Before(Idle) /\ ~Chosen(Idle) /\ Idle.pc \notin Stages
  BY <1>2 DEF InRun, Before, Chosen, At, Saving, Working, Pcs, Stages
<1>6. Own(Idle)
  BY <1>2, <1>3, <1>5 DEF Own, At, Saving, Working, Pcs
<1>7. Known
  BY <1>1, <1>2, <1>3, <1>4 DEF Known
<1>8. Alone /\ Distinct
  BY <1>1, <1>4, <1>5 DEF Alone, Distinct
<1>9. /\ Good(active, proc, passes, overlapped)
      /\ \A n \in Names : Good(registry[n], proc, passes, overlapped)
  BY <1>1, <1>3 DEF Good
<1>10. Document(registry, proc, passes, result, active, overlapped)
  BY <1>1, <1>3, <1>9 DEF Document, Told, Pointed
<1>11. ASSUME NEW p \in Processes
       PROVE  /\ Own(proc[p])
              /\ Undisturbed(proc[p], registry, active, model, overlapped)
              /\ Holds(proc[p], proc, passes, result, active, overlapped)
  <2>1. Undisturbed(proc[p], registry, active, model, overlapped)
    BY <1>1, <1>5 DEF Undisturbed
  <2>2. Holds(proc[p], proc, passes, result, active, overlapped)
    BY <1>1, <1>2, <1>3, <1>5 DEF Holds, Good
  <2>3. QED
    BY <1>1, <1>6, <2>1, <2>2
<1>12. QED
  BY <1>7, <1>8, <1>9, <1>10, <1>11 DEF RunInv

\* Every step keeps what runs know of each other.
LEMMA StepRuns ==
  ASSUME TypeOK, AcceptedInv, RunInv, [Next]_vars
  PROVE  RunInv'
<1>1. CASE UNCHANGED vars
  BY <1>1 DEF vars, disk, RunInv, Known, Alone, Distinct
<1>2. ASSUME NEW p \in Processes, Begin(p)
      PROVE  RunInv'
  <2>1. PICK input \in Inputs : \/ \E name \in Names : Start(p, input, <<name>>, FALSE)
                                \/ \E names \in Campaigns : Start(p, input, names, TRUE)
    BY <1>2 DEF Begin
  <2>2. CASE \E name \in Names : Start(p, input, <<name>>, FALSE)
    <3>1. PICK name \in Names : Start(p, input, <<name>>, FALSE)
      BY <2>2
    <3>2. <<name>> \in Seq(Names)
      OBVIOUS
    <3>3. QED
      BY <1>2, <3>1, <3>2, StartRuns
  <2>3. CASE \E names \in Campaigns : Start(p, input, names, TRUE)
    BY <1>2, <2>3, StartRuns
  <2>4. QED
    BY <2>1, <2>2, <2>3
<1>3. ASSUME NEW p \in Processes, Step(p)
      PROVE  RunInv'
  <2>1. CASE Close(p)
    <3>1. End(p, "returned") /\ UNCHANGED <<disk, runs, overlapped>>
      BY <2>1 DEF Close
    <3>2. QED
      BY <1>3, <3>1, Stops
  <2>2. QED
    BY <1>3, <2>1, NextRunRuns, PrepareRuns, LoadRuns, StoreRuns, PreflightRuns, TrainRuns,
       RegisterRuns, EvaluateRuns, PromoteRuns, ActivateRuns, FailsRuns, ReportRuns,
       SelectRuns DEF Step
<1>4. ASSUME NEW p \in Processes, Crash(p)
      PROVE  RunInv'
  <2>1. End(p, "crashed") /\ UNCHANGED <<disk, runs, overlapped>>
    BY <1>4 DEF Crash
  <2>2. QED
    BY <1>4, <2>1, Stops
<1>5. QED
  BY <1>1, <1>2, <1>3, <1>4 DEF Next

\* The inductive invariant of the theorems below.
LEMMA RunsCorrect == Spec => [](TypeOK /\ AcceptedInv /\ RunInv)
<1>1. Init => TypeOK /\ AcceptedInv /\ RunInv
  BY InitType, InitAccepted, InitRuns
<1>2. TypeOK /\ AcceptedInv /\ RunInv /\ [Next]_vars => TypeOK' /\ AcceptedInv' /\ RunInv'
  BY StepType, StepAccepted, StepRuns
<1>3. QED
  BY <1>1, <1>2, PTL DEF Spec

\* Unless an input gives the tasks up, the adapter that is promoted passes every task the base
\* model passes.
THEOREM PromotedKeeps == KeepsTasks => (Spec => []PromotedKeepsTasks)
<1> SUFFICES ASSUME KeepsTasks PROVE Spec => []PromotedKeepsTasks
  OBVIOUS
<1>1. TypeOK /\ AcceptedInv /\ RunInv => PromotedKeepsTasks
  <2> SUFFICES ASSUME TypeOK, AcceptedInv, RunInv, active.run \in Runs \ overlapped
               PROVE  Base \subseteq passes[active.run]
    BY DEF PromotedKeepsTasks
  <2>1. active.accepted
    BY DEF AcceptedInv, ActiveWasAccepted
  <2>2. QED
    BY <2>1 DEF RunInv, Good
<1>2. QED
  BY <1>1, RunsCorrect, PTL

\* What a run reported the registry says of it too.
THEOREM ReportedRecorded == Spec => []ReportedIsRecorded
<1>1. TypeOK /\ AcceptedInv /\ RunInv => ReportedIsRecorded
  BY DEF RunInv, Document, Told, ReportedIsRecorded
<1>2. QED
  BY <1>1, RunsCorrect, PTL

\* The registry calls the active adapter promoted, wherever a process crashed.
THEOREM ActivePromoted == Spec => []ActiveIsPromoted
<1>1. TypeOK /\ AcceptedInv /\ RunInv => ActiveIsPromoted
  BY DEF RunInv, Document, Pointed, ActiveIsPromoted
<1>2. QED
  BY <1>1, RunsCorrect, PTL
=============================================================================
