------------------------------ MODULE CliStdio ------------------------------
(***************************************************************************)
(* The AYLA CLI as VS Code runs it: bin/ayla.js --stdio, one process that  *)
(* reads requests from its stdin, serves them concurrently, at most one     *)
(* task among them, and starts the embedded gateway when its health check   *)
(* gets no answer.  Its gateway (gateway/src/server.ts) is modelled as far  *)
(* as the CLI sees it: whether it answers, and which chat requests still    *)
(* run in it.                                                               *)
(***************************************************************************)
EXTENDS Naturals, Sequences, FiniteSets

CONSTANTS
    Children,   \* the CLI processes that may be spawned, in this order
    Calls,      \* the requests of the extension
    KindOf,     \* each call's kind: a task (run or resume), apply or status
    NoChild, NoCall,
    MaxFaults   \* bound: crashes of a CLI or a gateway, calls that time out

Kinds == {"task", "apply", "status"}
ASSUME CliAssumption ==
    /\ KindOf \in [Calls -> Kinds] /\ IsFiniteSet(Calls)
    /\ Children \subseteq Nat
    /\ NoChild \notin Children /\ NoCall \notin Calls
    /\ MaxFaults \in Nat

VARIABLES
    alive,       \* a CLI's life, up to the report of its exit
    inbox,       \* lines written to its stdin and not handled yet
    outbox,      \* lines on its stdout the extension has not read
    activeTask,  \* activeTaskRequestId
    stage,       \* how far a call has been served
    server,      \* the CLI that serves a call
    signalled,   \* calls whose AbortController was aborted
    gateway,     \* the gateway on the CLI's port
    owned,       \* does ownedGatewayPid name that gateway ?
    loops,       \* chat requests running in that gateway
    faults

serviceVars == <<activeTask, stage, server, signalled>>
gatewayVars == <<gateway, owned, loops>>
stdioVars == <<alive, inbox, outbox, serviceVars, gatewayVars, faults>>

Up(k) == alive[k] = "up"
ServedBy(k) == {c \in Calls : server[c] = k /\ stage[c] \in {"health", "waiting", "posted"}}
Fault == faults < MaxFaults /\ faults' = faults + 1

Request(c) == [type |-> "request", call |-> c]
Cancel(c) == [type |-> "cancel", call |-> c]
Shutdown == [type |-> "shutdown", call |-> NoCall]
Ready == [type |-> "ready", call |-> NoCall]
Reply(c) == [type |-> "answer", call |-> c]  \* a result or an error
Messages == [type : {"request", "cancel", "shutdown"}, call : Calls \cup {NoCall}]
Lines == [type : {"ready", "answer"}, call : Calls \cup {NoCall}]

Put(box, k, line) == [box EXCEPT ![k] = Append(@, line)]
----------------------------------------------------------------------------
(* The process *)

Boot(k) ==
    /\ alive[k] = "booting"
    /\ alive' = [alive EXCEPT ![k] = "up"]
    /\ outbox' = Put(outbox, k, Ready)
    /\ UNCHANGED <<inbox, serviceVars, gatewayVars, faults>>

Forgotten(k) ==
    /\ activeTask' = [activeTask EXCEPT ![k] = NoCall]
    /\ stage' = [c \in Calls |-> IF c \in ServedBy(k) THEN "none" ELSE stage[c]]
    /\ server' = [c \in Calls |-> IF c \in ServedBy(k) THEN NoChild ELSE server[c]]
    /\ signalled' = signalled \ ServedBy(k)

\* The process is gone; whatever it was serving is never answered.
Ends(k) ==
    /\ alive' = [alive EXCEPT ![k] = "dying"]
    /\ inbox' = [inbox EXCEPT ![k] = <<>>]
    /\ Forgotten(k)

ChildCrashes(k) ==
    /\ alive[k] \in {"booting", "up"}
    /\ Fault
    /\ Ends(k)
    /\ UNCHANGED <<outbox, gatewayVars>>

\* Mutant: a cancelled task keeps the engine busy.
FreedUnlessCancelled(k, c) ==
    [activeTask EXCEPT ![k] = IF @ = c /\ c \notin signalled THEN NoCall ELSE @]
\* activeTaskRequestId after the request c has been answered.
Freed(k, c) == [activeTask EXCEPT ![k] = IF @ = c THEN NoCall ELSE @]

\* The answer and the release of the engine are one synchronous step.
Answer(k, c) ==
    /\ outbox' = Put(outbox, k, Reply(c))
    /\ stage' = [stage EXCEPT ![c] = "none"]
    /\ server' = [server EXCEPT ![c] = NoChild]
    /\ signalled' = signalled \ {c}
    /\ activeTask' = Freed(k, c)
----------------------------------------------------------------------------
(* Handling a line of stdin *)

Line(k) == Head(inbox[k])
Has(k, type) == Up(k) /\ inbox[k] # <<>> /\ Line(k).type = type
Taken(k) == inbox' = [inbox EXCEPT ![k] = Tail(@)]

\* Mutant: only an apply is refused while a task is active.
BusyForApplyOnly(k, c) == KindOf[c] = "apply" /\ activeTask[k] # NoCall
Busy(k, c) == KindOf[c] # "status" /\ activeTask[k] # NoCall

TakeRequest(k) ==
    /\ Has(k, "request")
    /\ Taken(k)
    /\ LET c == Line(k).call
       IN IF Busy(k, c)
          THEN Answer(k, c)
          ELSE /\ stage' = [stage EXCEPT ![c] = "health"]
               /\ server' = [server EXCEPT ![c] = k]
               /\ activeTask' = [activeTask EXCEPT ![k] = IF KindOf[c] = "task" THEN c ELSE @]
               /\ UNCHANGED <<outbox, signalled>>
    /\ UNCHANGED <<alive, gatewayVars, faults>>

\* Mutant: a task can be cancelled only once the gateway has accepted it.
CancellableWhenPosted(k) == {c \in ServedBy(k) : KindOf[c] # "status" /\ stage[c] = "posted"}
\* The calls with an AbortController in `active'.
Cancellable(k) == {c \in ServedBy(k) : KindOf[c] # "status"}

TakeCancel(k) ==
    /\ Has(k, "cancel")
    /\ Taken(k)
    /\ signalled' = signalled \cup ({Line(k).call} \cap Cancellable(k))
    /\ UNCHANGED <<alive, outbox, activeTask, stage, server, gatewayVars, faults>>

\* process.exit, after a SIGTERM to the gateway ownedGatewayPid names.
TakeShutdown(k) ==
    /\ Has(k, "shutdown")
    /\ Ends(k)
    /\ gateway' = [gateway EXCEPT ![k] = IF owned[k] THEN "down" ELSE @]
    /\ owned' = [owned EXCEPT ![k] = FALSE]
    /\ loops' = [loops EXCEPT ![k] = IF owned[k] THEN {} ELSE @]
    /\ UNCHANGED <<outbox, faults>>
----------------------------------------------------------------------------
(* Serving a call: ensureGateway, then the request to the gateway *)

Serving(k, c, where) == Up(k) /\ server[c] = k /\ stage[c] = where
AtStage(c, where) == stage' = [stage EXCEPT ![c] = where]

\* The gateway answered: a task's chat request runs in it from here on.
Posts(k, c) ==
    /\ AtStage(c, "posted")
    /\ loops' = [loops EXCEPT ![k] = IF KindOf[c] = "task" THEN @ \cup {c} ELSE @]

\* startGateway: a second gateway cannot bind the port of the first and dies;
\* while the first is still starting either may win.
StartGateway(k) ==
    /\ gateway' = [gateway EXCEPT ![k] = IF @ = "down" THEN "starting" ELSE @]
    /\ \E mine \in (CASE gateway[k] = "down" -> {TRUE}
                      [] gateway[k] = "starting" -> BOOLEAN
                      [] OTHER -> {FALSE}) :
          owned' = [owned EXCEPT ![k] = mine]

\* Any failure of the first health check starts a gateway: one that is down,
\* but also a check cut short by a cancellation or its timeout.
Health(k, c) ==
    /\ Serving(k, c, "health")
    /\ \/ /\ gateway[k] = "up" /\ c \notin signalled
          /\ Posts(k, c)
          /\ UNCHANGED <<gateway, owned, faults>>
       \/ /\ \/ (gateway[k] # "up" \/ c \in signalled) /\ UNCHANGED faults
             \/ gateway[k] = "up" /\ Fault
          /\ StartGateway(k)
          /\ AtStage(c, "waiting")
          /\ UNCHANGED loops
    /\ UNCHANGED <<alive, inbox, outbox, activeTask, server, signalled>>

\* The loop that polls the gateway's health until START_TIMEOUT_MS.
AwaitGateway(k, c) ==
    /\ Serving(k, c, "waiting")
    /\ \/ /\ gateway[k] = "up" /\ c \notin signalled
          /\ Posts(k, c)
          /\ UNCHANGED <<outbox, activeTask, server, signalled, faults>>
       \/ /\ \/ c \in signalled /\ UNCHANGED faults
             \/ gateway[k] = "down" /\ UNCHANGED faults
             \/ gateway[k] = "starting" /\ Fault
          /\ Answer(k, c)
          /\ UNCHANGED loops
    /\ UNCHANGED <<alive, inbox, gateway, owned>>

\* Mutant: a request whose gateway is gone gets no answer.
MayEndIfAnswered(k, c) == c \notin signalled /\ (KindOf[c] = "task" => c \in loops[k])
MayEnd(k, c) == c \notin signalled

\* The gateway's answer arrives, it is gone, or the timeout of the request cuts
\* it off (the gateway then learns of it later).
Returns(k, c) ==
    /\ Serving(k, c, "posted") /\ MayEnd(k, c)
    /\ \/ /\ KindOf[c] = "task" => c \in loops[k]
          /\ Answer(k, c)
          /\ loops' = [loops EXCEPT ![k] = @ \ {c}]
          /\ UNCHANGED faults
       \/ /\ KindOf[c] = "task" /\ c \notin loops[k]
          /\ Answer(k, c)
          /\ UNCHANGED <<loops, faults>>
       \/ /\ Fault
          /\ Answer(k, c)
          /\ UNCHANGED loops
    /\ UNCHANGED <<alive, inbox, gateway, owned>>

\* fetch rejects as soon as the signal is aborted.
Cancelled(k, c) ==
    /\ Serving(k, c, "posted") /\ c \in signalled
    /\ Answer(k, c)
    /\ UNCHANGED <<alive, inbox, gatewayVars, faults>>
----------------------------------------------------------------------------
(* The gateway *)

GatewayListens(k) ==
    /\ gateway[k] = "starting"
    /\ gateway' = [gateway EXCEPT ![k] = "up"]
    /\ UNCHANGED <<alive, inbox, outbox, serviceVars, owned, loops, faults>>

\* Only while its CLI lives: later nothing would notice.
GatewayDies(k) ==
    /\ gateway[k] # "down" /\ alive[k] \in {"booting", "up"}
    /\ Fault
    /\ gateway' = [gateway EXCEPT ![k] = "down"]
    /\ owned' = [owned EXCEPT ![k] = FALSE]
    /\ loops' = [loops EXCEPT ![k] = {}]
    /\ UNCHANGED <<alive, inbox, outbox, serviceVars>>

\* server.ts notices that the client went away (or the loop returns to nobody).
LoopNotices(k, c) ==
    /\ c \in loops[k] /\ ~Serving(k, c, "posted")
    /\ loops' = [loops EXCEPT ![k] = @ \ {c}]
    /\ UNCHANGED <<alive, inbox, outbox, serviceVars, gateway, owned, faults>>
----------------------------------------------------------------------------
StdioInit ==
    /\ alive = [k \in Children |-> "unborn"]
    /\ inbox = [k \in Children |-> <<>>]
    /\ outbox = [k \in Children |-> <<>>]
    /\ activeTask = [k \in Children |-> NoCall]
    /\ stage = [c \in Calls |-> "none"]
    /\ server = [c \in Calls |-> NoChild]
    /\ signalled = {}
    /\ gateway = [k \in Children |-> "down"]
    /\ owned = [k \in Children |-> FALSE]
    /\ loops = [k \in Children |-> {}]
    /\ faults = 0

\* What a CLI does by itself while its process runs.
Serve(k, c) == Health(k, c) \/ AwaitGateway(k, c) \/ Returns(k, c) \/ Cancelled(k, c)
Handle(k) == Boot(k) \/ TakeRequest(k) \/ TakeCancel(k) \/ TakeShutdown(k)

StdioNext ==
    \/ \E k \in Children :
          \/ Handle(k) \/ ChildCrashes(k) \/ GatewayListens(k) \/ GatewayDies(k)
          \/ \E c \in Calls : Serve(k, c) \/ LoopNotices(k, c)

StdioTypeOK ==
    /\ alive \in [Children -> {"unborn", "booting", "up", "dying", "dead"}]
    /\ inbox \in [Children -> Seq(Messages)]
    /\ outbox \in [Children -> Seq(Lines)]
    /\ activeTask \in [Children -> Calls \cup {NoCall}]
    /\ stage \in [Calls -> {"none", "health", "waiting", "posted"}]
    /\ server \in [Calls -> Children \cup {NoChild}]
    /\ signalled \subseteq Calls
    /\ gateway \in [Children -> {"down", "starting", "up"}]
    /\ owned \in [Children -> BOOLEAN]
    /\ loops \in [Children -> SUBSET Calls]
    /\ faults \in Nat
=============================================================================
