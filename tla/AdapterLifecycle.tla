--------------------------- MODULE AdapterLifecycle ---------------------------
(***************************************************************************)
(* Training and promotion of local adapters in the gateway (V16 and V15,    *)
(* gateway/src/training): the pipeline of a run (pipeline.ts), the registry *)
(* and the pointer to the active adapter (adapterRegistry.ts), the campaign *)
(* over several seeds (campaign.ts).                                        *)
(*                                                                         *)
(* Processes (the server, gateway:train) share the files and Ollama's       *)
(* models and nothing else.  A step runs to the next await that reads or    *)
(* writes what they share.  A write of a file is a write of the process's   *)
(* own temporary file and a rename: one step.                               *)
(***************************************************************************)
EXTENDS Integers, Sequences, FiniteSets

CONSTANTS
    Processes,
    Names,       \* adapter names: of a dataset and base model, a name is an adapter's id
    Inputs,      \* options of a run
    Campaigns,   \* sequences of names: the seeds of a campaign
    Tasks,       \* evaluation tasks
    Base,        \* those the base model passes
    Trained,     \* those an adapter may pass
    MaxRuns      \* bound: runs of the pipeline in all

InputType ==
    [execute : BOOLEAN, register : BOOLEAN, acknowledge : BOOLEAN, promote : BOOLEAN,
     noTaskRegression : BOOLEAN]

NoInput == [execute |-> FALSE, register |-> FALSE, acknowledge |-> FALSE, promote |-> FALSE,
            noTaskRegression |-> FALSE]

ASSUME LifecycleAssumption ==
    /\ Inputs \subseteq InputType /\ Base \subseteq Tasks /\ IsFiniteSet(Tasks)
    /\ Trained \subseteq SUBSET Tasks /\ MaxRuns \in Nat
    /\ \A c \in Campaigns : c \in Seq(Names)
    /\ "none" \notin Names

Runs == 1..MaxRuns
Statuses == {"planned", "training", "trained", "registered", "accepted", "rejected",
             "promoted", "blocked"}
\* An entry of the registry; run 0 is none.
EntryType == [run : 0..MaxRuns, status : Statuses, accepted : BOOLEAN, score : Nat]
NoEntry == [run |-> 0, status |-> "planned", accepted |-> FALSE, score |-> 0]
\* active.json: the adapter, the run and its quality gate.
NoActive == [name |-> "none", run |-> 0, accepted |-> FALSE]

VARIABLES
    registry,    \* registry.json: the entry of each name
    active,      \* active.json
    model,       \* the run whose adapter Ollama's candidate model of a name has, or 0
    passes,      \* the tasks the adapter of a run passes
    result,      \* the status in the pipeline-result.json of a run
    proc,        \* the processes
    runs,        \* runs so far
    overlapped   \* history: runs that ran, or were promoted, while another process did

disk == <<registry, active, model, passes, result>>
vars == <<disk, proc, runs, overlapped>>

Idle ==
    [pc |-> "idle", input |-> NoInput, campaign |-> FALSE,
     todo |-> <<>>, done |-> <<>>,            \* names to run; name and entry of those run
     name |-> "none", run |-> 0,
     entry |-> NoEntry, then |-> "idle",      \* an upsert: what it stores, what follows
     loaded |-> [n \in Names |-> NoEntry]]    \* the document it read
\* The runs a process works on; 0 alone when it has none yet.
RunsOf(p) ==
    {proc[p].run, proc[p].entry.run} \cup {proc[p].done[i].run : i \in DOMAIN proc[p].done}
Others(p) == {q \in Processes \ {p} : RunsOf(q) # {0}}
\* The history: p takes up a run while other processes are at theirs.
TakesUp(p, run) ==
    overlapped' = overlapped \cup
        (IF Others(p) = {} THEN {} ELSE {run} \cup UNION {RunsOf(q) : q \in Others(p)})
Free(p) == proc[p].pc \in {"idle", "returned", "rejected", "crashed"}

Become(p, pc) == proc' = [proc EXCEPT ![p].pc = pc]
End(p, pc) == proc' = [proc EXCEPT ![p] = [Idle EXCEPT !.pc = pc]]
\* Mutant: the error is reported, the registry is not told.
ThrowUnrecorded(p) == Become(p, "reportBlocked")
\* The pipeline's catch: an entry that was made becomes blocked, then the result.
Throw(p) ==
    IF proc[p].entry.run = 0 THEN Become(p, "reportBlocked")
    ELSE proc' = [proc EXCEPT ![p].pc = "load", ![p].then = "reportBlocked",
                              ![p].entry.status = "blocked"]
\* upsertAdapterRegistryEntry of the entry with a new status, and what follows it.
Save(p, status, then) ==
    proc' = [proc EXCEPT ![p].pc = "load", ![p].then = then, ![p].entry.status = status]
----------------------------------------------------------------------------
\* A run with its options, or a campaign: a run per seed that does not promote.
Start(p, input, names, campaign) ==
    /\ Free(p) /\ runs < MaxRuns
    /\ proc' = [proc EXCEPT ![p] =
            [Idle EXCEPT !.pc = "next", !.campaign = campaign, !.todo = names, !.input = input]]
    /\ UNCHANGED <<disk, runs, overlapped>>

NextRun(p) ==
    /\ proc[p].pc = "next" /\ proc[p].todo # <<>> /\ runs < MaxRuns
    /\ runs' = runs + 1
    /\ TakesUp(p, runs + 1)
    /\ proc' = [proc EXCEPT ![p].pc = "prepare", ![p].run = runs + 1,
                            ![p].name = Head(proc[p].todo), ![p].todo = Tail(@),
                            ![p].entry = NoEntry]
    /\ UNCHANGED disk

\* The dataset is resolved and hardened, the trainer's config written; then the entry.
Prepare(p) ==
    /\ proc[p].pc = "prepare"
    /\ proc' = [proc EXCEPT ![p].pc = "load", ![p].then = "preflight",
                            ![p].entry = [NoEntry EXCEPT !.run = proc[p].run]]
    /\ UNCHANGED <<disk, runs, overlapped>>

\* upsertAdapterRegistryEntry: read the document, put the entry in it, write it.
Load(p) ==
    /\ proc[p].pc = "load"
    /\ proc' = [proc EXCEPT ![p].pc = "store", ![p].loaded = registry]
    /\ UNCHANGED <<disk, runs, overlapped>>
Store(p) ==
    /\ proc[p].pc = "store"
    /\ registry' = [proc[p].loaded EXCEPT ![proc[p].name] = proc[p].entry]
    /\ proc' = [proc EXCEPT ![p].pc = proc[p].then, ![p].loaded = Idle.loaded]
    /\ UNCHANGED <<active, model, passes, result, runs, overlapped>>

\* --validate-config; a run that is only planned ends here.
Preflight(p) ==
    /\ proc[p].pc = "preflight"
    /\ LET input == proc[p].input
       IN  CASE ~input.execute -> Become(p, "report")
             [] input.execute /\ input.register /\ ~input.acknowledge -> Throw(p)
             [] OTHER -> Save(p, "training", "train")   \* after the baseline's evaluation
    /\ UNCHANGED <<disk, runs, overlapped>>

Train(p) ==
    /\ proc[p].pc = "train"
    /\ \E tasks \in Trained : passes' = [passes EXCEPT ![proc[p].run] = tasks]
    /\ Save(p, "trained", "register")
    /\ UNCHANGED <<registry, active, model, result, runs, overlapped>>

\* ollama create: the candidate model of the name has this run's adapter from now on.
Register(p) ==
    /\ proc[p].pc = "register"
    /\ IF proc[p].input.register
       THEN /\ model' = [model EXCEPT ![proc[p].name] = proc[p].run]
            /\ Save(p, "registered", "evaluate")
       ELSE Throw(p) /\ UNCHANGED model
    /\ UNCHANGED <<registry, active, passes, result, runs, overlapped>>

\* Mutant: a candidate that loses tasks the base model passes is accepted.
QualityGateByScore(candidate, noTaskRegression, scored) == scored
\* compareEvaluationResults.  "scored": both evaluations ran the same tasks, and the scores,
\* which also count what a failed task got right, are within the thresholds.
QualityGate(candidate, noTaskRegression, scored) ==
    /\ scored
    /\ Cardinality(candidate) >= Cardinality(Base)   \* failedTaskCount
    /\ noTaskRegression => Base \subseteq candidate

\* Mutant: the option alone promotes.
EvaluatePromotes(p, scored) ==
    /\ proc[p].pc = "evaluate"
    /\ LET candidate == IF model[proc[p].name] = 0 THEN {} ELSE passes[model[proc[p].name]]
           accepted == QualityGate(candidate, proc[p].input.noTaskRegression, scored)
       IN  proc' = [proc EXCEPT
                ![p].pc = "load",
                ![p].then = IF proc[p].input.promote /\ ~proc[p].campaign
                          THEN "promote" ELSE "report",
                ![p].entry = [@ EXCEPT !.accepted = accepted, !.score = Cardinality(candidate),
                                       !.status = IF accepted THEN "accepted"
                                                  ELSE "rejected"]]
    /\ UNCHANGED <<disk, runs, overlapped>>

Evaluate(p, scored) ==
    /\ proc[p].pc = "evaluate"
    /\ LET candidate == IF model[proc[p].name] = 0 THEN {} ELSE passes[model[proc[p].name]]
           accepted == QualityGate(candidate, proc[p].input.noTaskRegression, scored)
       IN  proc' = [proc EXCEPT
                ![p].pc = "load",
                ![p].then = IF accepted /\ proc[p].input.promote /\ ~proc[p].campaign
                          THEN "promote" ELSE "report",
                ![p].entry = [@ EXCEPT !.accepted = accepted, !.score = Cardinality(candidate),
                                       !.status = IF accepted THEN "accepted"
                                                  ELSE "rejected"]]
    /\ UNCHANGED <<disk, runs, overlapped>>

\* Mutant: the pointer is written before the registry.
PromoteAtOnce(p) ==
    /\ proc[p].pc = "promote"
    /\ active' = [name |-> proc[p].name, run |-> proc[p].entry.run,
                  accepted |-> proc[p].entry.accepted]
    /\ Save(p, "promoted", "activate")
    /\ UNCHANGED <<registry, model, passes, result, runs, overlapped>>
Promote(p) ==
    /\ proc[p].pc = "promote"
    /\ Save(p, "promoted", "activate")
    /\ UNCHANGED <<disk, runs, overlapped>>
\* promoteAdapter.
Activate(p) ==
    /\ proc[p].pc = "activate"
    /\ active' = [name |-> proc[p].name, run |-> proc[p].entry.run,
                  accepted |-> proc[p].entry.accepted]
    /\ Become(p, IF proc[p].campaign THEN "close" ELSE "report")
    /\ UNCHANGED <<registry, model, passes, result, runs, overlapped>>

\* Any of these awaits may fail, by an error or an exit code; in a campaign's own part,
\* or in the catch, nothing catches it.
Uncaught(p) ==
    \/ proc[p].pc \in {"report", "reportBlocked", "select", "close"}
    \/ proc[p].pc \in {"load", "store"} /\ proc[p].then = "reportBlocked"
    \/ proc[p].campaign /\ proc[p].entry.status = "promoted"
Fails(p) ==
    /\ ~Free(p) /\ proc[p].pc # "next"
    /\ IF Uncaught(p) THEN End(p, "rejected") ELSE Throw(p)
    /\ UNCHANGED <<disk, runs, overlapped>>

\* persistPipelineResult, and the return of the run.
Report(p) ==
    /\ proc[p].pc \in {"report", "reportBlocked"}
    /\ LET status == IF proc[p].pc = "report" THEN proc[p].entry.status ELSE "blocked"
       IN  /\ result' = [result EXCEPT ![proc[p].run] = status]
           /\ IF proc[p].campaign
              THEN proc' = [proc EXCEPT
                        ![p].pc = IF proc[p].todo = <<>> THEN "select" ELSE "next",
                        ![p].done = Append(@, [name |-> proc[p].name, run |-> proc[p].run,
                                               status |-> status, score |-> proc[p].entry.score])]
              ELSE End(p, "returned")
    /\ UNCHANGED <<registry, active, model, passes, runs, overlapped>>

\* The first of the candidates with the best score.
IsBest(done, i) ==
    /\ done[i].status = "accepted"
    /\ \A j \in DOMAIN done : done[j].status = "accepted" =>
            done[j].score < done[i].score \/ (done[j].score = done[i].score /\ i <= j)
StillAccepted(entry) == entry.status = "accepted"

\* The campaign's choice: the best accepted candidate, if the registry agrees.
Select(p) ==
    /\ proc[p].pc = "select"
    /\ LET done == proc[p].done
           chosen == {done[i].name : i \in {j \in DOMAIN done :
                        proc[p].input.promote /\ IsBest(done, j)}}
       IN  \/ \E name \in chosen :
                /\ StillAccepted(registry[name])
                /\ proc' = [proc EXCEPT
                        ![p].pc = "load", ![p].then = "activate", ![p].name = name,
                        ![p].entry = [registry[name] EXCEPT !.status = "promoted"]]
                /\ TakesUp(p, registry[name].run)
           \/ /\ \A name \in chosen : ~StillAccepted(registry[name])
              /\ Become(p, "close") /\ UNCHANGED overlapped
    /\ UNCHANGED <<disk, runs>>
Close(p) ==
    /\ proc[p].pc = "close"
    /\ End(p, "returned")
    /\ UNCHANGED <<disk, runs, overlapped>>

Crash(p) ==
    /\ ~Free(p)
    /\ End(p, "crashed")
    /\ UNCHANGED <<disk, runs, overlapped>>
----------------------------------------------------------------------------
Init ==
    /\ registry = [n \in Names |-> NoEntry] /\ active = NoActive
    /\ model = [n \in Names |-> 0] /\ passes = [i \in Runs |-> {}]
    /\ result = [i \in Runs |-> "none"]
    /\ proc = [p \in Processes |-> Idle]
    /\ runs = 0 /\ overlapped = {}

Begin(p) ==
    \E input \in Inputs :
        \/ \E name \in Names : Start(p, input, <<name>>, FALSE)
        \/ \E names \in Campaigns : Start(p, input, names, TRUE)
Step(p) ==
    \/ NextRun(p) \/ Prepare(p) \/ Load(p) \/ Store(p) \/ Preflight(p) \/ Train(p)
    \/ Register(p) \/ (\E scored \in BOOLEAN : Evaluate(p, scored)) \/ Promote(p)
    \/ Activate(p) \/ Fails(p) \/ Report(p) \/ Select(p) \/ Close(p)
Next == \E p \in Processes : Begin(p) \/ Step(p) \/ Crash(p)

Spec == Init /\ [][Next]_vars
----------------------------------------------------------------------------
Pcs == {"idle", "next", "prepare", "load", "store", "preflight", "train", "register",
        "evaluate", "promote", "activate", "report", "reportBlocked", "select", "close",
        "returned", "rejected", "crashed"}
Working == Pcs \ {"idle", "next", "select", "close", "returned", "rejected", "crashed"}
ActiveType == [name : Names \cup {"none"}, run : 0..MaxRuns, accepted : BOOLEAN]
CandidateType ==
    [name : Names, run : 0..MaxRuns, status : Statuses, score : Nat]
ProcType ==
    [pc : Pcs, input : InputType, campaign : BOOLEAN, todo : Seq(Names),
     done : Seq(CandidateType), name : Names \cup {"none"}, run : 0..MaxRuns,
     entry : EntryType, then : Pcs, loaded : [Names -> EntryType]]
TypeOK ==
    /\ registry \in [Names -> EntryType] /\ active \in ActiveType
    /\ model \in [Names -> 0..MaxRuns] /\ passes \in [Runs -> SUBSET Tasks]
    /\ result \in [Runs -> Statuses \cup {"none"}]
    /\ runs \in 0..MaxRuns /\ overlapped \subseteq 0..MaxRuns
    /\ proc \in [Processes -> ProcType]
    /\ \A p \in Processes : proc[p].pc \in Working => proc[p].name \in Names

\* What active.json points to was accepted by a quality gate, whoever promoted it, from
\* its own memory or from the registry, and whoever wrote to the registry meanwhile.
ActiveWasAccepted == active.run # 0 => active.accepted

\* Why it holds: an entry that says accepted or promoted has a gate that accepted it,
\* in the registry, in every copy of it and in every process on its way to promote one.
Sound(entry) == entry.status \in {"accepted", "promoted"} => entry.accepted
Promoting(p) ==
    \/ proc[p].pc \in {"promote", "activate"}
    \/ proc[p].pc \in {"load", "store"} /\ proc[p].then \in {"promote", "activate"}
AcceptedInv ==
    /\ ActiveWasAccepted
    /\ \A n \in Names : Sound(registry[n])
    /\ \A p \in Processes :
        /\ Sound(proc[p].entry) /\ \A n \in Names : Sound(proc[p].loaded[n])
        /\ Promoting(p) => proc[p].entry.accepted

\* The adapter promoted passes every task the base model passes, unless another run, which
\* may have replaced the model while it was evaluated, overlapped its own.
PromotedKeepsTasks ==
    active.run \in Runs \ overlapped => Base \subseteq passes[active.run]

\* What a run reported the registry says too, until another run takes the name: but for
\* runs that overlapped with others, and for the promotion by a campaign.
ReportedIsRecorded ==
    \A n \in Names : LET run == registry[n].run IN
        run \in Runs \ overlapped /\ result[run] # "none" =>
            \/ registry[n].status = result[run]
            \/ registry[n].status = "promoted" /\ result[run] = "accepted"

\* The registry calls the active adapter promoted, wherever a process crashed.
ActiveIsPromoted ==
    \A n \in Names : active.name = n /\ registry[n].run = active.run =>
        registry[n].status = "promoted" \/ active.run \in overlapped

=============================================================================
