----------------------------- MODULE CliBridge -----------------------------
(***************************************************************************)
(* VS Code's side of the embedded CLI: AylaCliProcessManager               *)
(* (src/vscode/cliProcessManager.ts) and its users in src/extension.ts,    *)
(* composed with the CLI processes it spawns (CliStdio).                   *)
(*                                                                         *)
(* The manager is single-threaded: an action is what runs between two      *)
(* events (a line, an exit, a timer, a resolved port, a command of the     *)
(* user), together with every continuation of a promise it settles.        *)
(***************************************************************************)
EXTENDS CliStdio, SequencesExt

CONSTANTS
    Stops,      \* uses of the restart command and of dispose
    Disposes    \* the ones among them that dispose

ASSUME BridgeAssumption == Disposes \subseteq Stops /\ Stops \cap Calls = {}

Callers == Calls \cup Stops

VARIABLES
    child,     \* this.child
    ready,     \* this.readyPromise: none, or what became of it
    disposed,
    pc,        \* where each caller is; "sent" is an entry of this.pending
    timer,     \* the callers whose start timeout is running
    sentTo,    \* the CLI a pending request was written to
    listening, \* the CLIs whose stdout is still read
    stopping,  \* the CLI whose exit a stopChild awaits
    cancelled, \* calls the user cancelled and that have not returned
    cancelTo   \* the CLI a pending call's cancellation was written to

managerVars == <<child, ready, disposed, pc, timer, sentTo, listening, stopping, cancelled, cancelTo>>
vars == <<stdioVars, managerVars>>

In(where) == {x \in Callers : pc[x] = where}
Pending == In("sent")
Writable(k) == k # NoChild /\ alive[k] \in {"booting", "up"}

\* f, and g where f says nothing.
Over(f, g) == [x \in DOMAIN f \cup DOMAIN g |-> IF x \in DOMAIN f THEN f[x] ELSE g[x]]
\* Where all callers are after those of `moves' (a function of callers) moved.
\* What a call keeps while it is pending is forgotten when it returns.
Move(moves) ==
    /\ pc' = Over(moves, pc)
    /\ timer' = {x \in timer : pc'[x] \in {"wait", "stranded"}}
    /\ cancelled' = {c \in cancelled : pc'[c] # "returned"}
    /\ cancelTo' = [c \in Calls |-> IF pc'[c] = "sent" THEN cancelTo[c] ELSE NoChild]
To(xs, where) == [x \in xs |-> where]
----------------------------------------------------------------------------
(* start() and sendRequest() *)

\* What follows start() for the callers xs: requests are registered and written
\* to the manager's CLI in some order (box is what it has been sent before).  A
\* request cancelled meanwhile, or without a CLI to write to, is not sent.
Started(xs, to) ==
    [x \in xs |-> IF x \in Calls \ cancelled /\ to # NoChild THEN "sent" ELSE "returned"]
Send(xs, to, writable) ==
    LET cs == (xs \cap Calls) \ cancelled
    IN /\ sentTo' = [c \in Calls |-> IF c \in cs THEN to
                                     ELSE IF pc'[c] = "sent" THEN sentTo[c] ELSE NoChild]
       /\ IF writable
          THEN \E order \in SetToSeqs(cs) :
                  inbox' = [inbox EXCEPT ![to] = @ \o [i \in DOMAIN order |-> Request(order[i])]]
          ELSE UNCHANGED inbox
NothingSent == sentTo' = [c \in Calls |-> IF pc'[c] = "sent" THEN sentTo[c] ELSE NoChild]

\* start() finds a CLI: it returns the promise of the start that made it.
Joins(c) ==
    CASE ready = "pending"  -> Move(To({c}, "wait")) /\ NothingSent /\ UNCHANGED inbox
      [] ready = "rejected" -> Move(To({c}, "returned")) /\ NothingSent /\ UNCHANGED inbox
      [] OTHER              -> Move(Started({c}, child)) /\ Send({c}, child, Writable(child))

\* start() finds none: a new promise replaces the old one, whose waiters nobody
\* can wake any more.
BeginsStart(x) ==
    /\ ready' = "pending"
    /\ Move(Over(To(In("wait"), "stranded"), To({x}, "port")))

Call(c) ==
    /\ pc[c] = "idle"
    /\ \/ disposed /\ Move(To({c}, "returned")) /\ NothingSent /\ UNCHANGED <<ready, inbox>>
       \/ ~disposed /\ child = NoChild /\ BeginsStart(c) /\ NothingSent /\ UNCHANGED inbox
       \/ ~disposed /\ child # NoChild /\ Joins(c) /\ UNCHANGED ready
    /\ UNCHANGED <<alive, outbox, serviceVars, gatewayVars, faults, child, disposed,
                   listening, stopping>>

\* reserveLoopbackPort resolves: the CLI is spawned, whatever happened in the
\* meantime, and the caller awaits the promise the manager holds by now.
Spawn(x, k) ==
    /\ pc[x] = "port"
    /\ \A j \in Children : j < k <=> alive[j] # "unborn"
    /\ alive' = [alive EXCEPT ![k] = "booting"]
    /\ child' = k
    /\ listening' = listening \cup {k}
    /\ CASE ready = "pending" ->
              /\ pc' = [pc EXCEPT ![x] = "wait"] /\ timer' = timer \cup {x}
              /\ UNCHANGED <<sentTo, inbox, cancelled, cancelTo>>
         [] ready = "rejected" -> Move(To({x}, "returned")) /\ NothingSent /\ UNCHANGED inbox
         [] OTHER -> Move(Started({x}, k)) /\ Send({x}, k, TRUE)
    /\ UNCHANGED <<outbox, serviceVars, gatewayVars, faults, ready, disposed, stopping>>

\* setTimeout of start(): it rejects the promise of the latest start, which need
\* not be the one the caller awaits (a stranded caller then waits for ever).
StartTimeout(x) ==
    /\ x \in timer
    /\ Fault
    /\ ready' = IF ready = "pending" THEN "rejected" ELSE ready
    /\ Move(Over(To(In("wait"), "returned"), To({x}, "hung"))) /\ NothingSent
    /\ UNCHANGED <<alive, inbox, outbox, serviceVars, gatewayVars, child, disposed, listening,
                   stopping>>
----------------------------------------------------------------------------
(* Lines and exits *)

ReadReady ==
    IF ready = "pending"
    THEN /\ ready' = "resolved"
         /\ Move(Started(In("wait"), child))
         /\ Send(In("wait"), child, Writable(child))
    ELSE UNCHANGED <<ready, pc, timer, cancelled, cancelTo, sentTo, inbox>>

ReadAnswer(c) ==
    /\ Move(To({c} \cap Pending, "returned")) /\ NothingSent
    /\ UNCHANGED <<ready, inbox>>

\* handleLine
Read(k) ==
    /\ k \in listening /\ outbox[k] # <<>>
    /\ outbox' = [outbox EXCEPT ![k] = Tail(@)]
    /\ IF Head(outbox[k]) = Ready THEN ReadReady ELSE ReadAnswer(Head(outbox[k]).call)
    /\ UNCHANGED <<alive, serviceVars, gatewayVars, faults, child, disposed, listening, stopping>>

\* Mutant: an exit rejects the start that is under way but no request.
FailsStart == In("wait")
\* failAll: the callers it rejects.
Fails == In("wait") \cup Pending

\* The stops rs are over: their restarts begin a start, in some order, and their
\* disposes fail what is left (which may be the promise of such a restart).
Resume(rs) ==
    /\ child' = NoChild
    /\ ready' \in IF rs \subseteq Disposes THEN {"none"}
                  ELSE IF rs \cap Disposes = {} THEN {"pending"} ELSE {"pending", "rejected"}
    /\ disposed' = (disposed /\ rs \subseteq Disposes)
    /\ stopping' = [r \in Stops |-> IF r \in rs THEN NoChild ELSE stopping[r]]
AfterStop(rs) == [r \in rs |-> IF r \in Disposes THEN "returned" ELSE "port"]

\* The exit handler does not ask whether k is still the manager's CLI.
Exit(k) ==
    /\ alive[k] = "dying"
    /\ alive' = [alive EXCEPT ![k] = "dead"]
    /\ LET rs == {r \in Stops : stopping[r] = k}
       IN /\ Move(Over(To(Fails, "returned"), AfterStop(rs))) /\ NothingSent
          /\ IF rs # {} THEN Resume(rs)
             ELSE /\ child' = NoChild
                  /\ ready' = IF ready = "pending" THEN "rejected" ELSE ready
                  /\ UNCHANGED <<disposed, stopping>>
    /\ UNCHANGED <<inbox, outbox, serviceVars, gatewayVars, faults, listening>>
----------------------------------------------------------------------------
(* restart() and dispose() *)

\* The callers a stop that starts anew, or disposes, leaves behind.
LeftBy(r) == Over(To(In("wait"), "stranded"),
                  To(IF r \in Disposes THEN Pending ELSE {}, "returned"))

\* stopChild asks the CLI to shut down; without one it is over at once.
Stop(r) ==
    /\ pc[r] = "idle"
    /\ IF child # NoChild
       THEN /\ Move(To({r}, "stopping")) /\ NothingSent
            /\ stopping' = [stopping EXCEPT ![r] = child]
            /\ inbox' = IF Writable(child) THEN Put(inbox, child, Shutdown) ELSE inbox
            /\ disposed' = (disposed \/ r \in Disposes)
            /\ UNCHANGED <<child, ready>>
       ELSE /\ ready' = IF r \in Disposes THEN "none" ELSE "pending"
            /\ disposed' = (r \in Disposes)
            /\ Move(Over(AfterStop({r}), LeftBy(r)))
            /\ NothingSent
            /\ UNCHANGED <<child, stopping, inbox>>
    /\ UNCHANGED <<alive, outbox, serviceVars, gatewayVars, faults, listening>>

\* 1.5 seconds passed: whatever CLI is the manager's by now is killed and no
\* longer read.  Its exit is reported later.
StopTimer(r) ==
    /\ pc[r] = "stopping"
    /\ Fault
    /\ Move(Over(AfterStop({r}), LeftBy(r)))
    /\ NothingSent
    /\ Resume({r})
    /\ listening' = listening \ {child}
    /\ IF Writable(child) THEN Ends(child) ELSE UNCHANGED <<alive, inbox, serviceVars>>
    /\ UNCHANGED <<outbox, gatewayVars>>

\* The user presses Stop: a request not sent yet is taken back when start()
\* returns; else the cancellation goes to the manager's CLI of the moment.  Only
\* tasks carry a signal.
UserCancels(c) ==
    /\ KindOf[c] = "task" /\ c \notin cancelled
    /\ pc[c] \in {"port", "wait", "sent"}
    /\ cancelled' = cancelled \cup {c}
    /\ IF pc[c] = "sent" /\ Writable(child)
       THEN /\ cancelTo' = [cancelTo EXCEPT ![c] = child]
            /\ inbox' = Put(inbox, child, Cancel(c))
       ELSE UNCHANGED <<cancelTo, inbox>>
    /\ UNCHANGED <<alive, outbox, serviceVars, gatewayVars, faults, child, ready, disposed, pc,
                   timer, sentTo, listening, stopping>>
----------------------------------------------------------------------------
Init ==
    /\ StdioInit
    /\ child = NoChild /\ ready = "none" /\ disposed = FALSE
    /\ pc = [x \in Callers |-> "idle"]
    /\ timer = {}
    /\ sentTo = [c \in Calls |-> NoChild]
    /\ listening = {}
    /\ stopping = [r \in Stops |-> NoChild]
    /\ cancelled = {}
    /\ cancelTo = [c \in Calls |-> NoChild]

Next ==
    \/ StdioNext /\ UNCHANGED managerVars
    \/ \E c \in Calls : Call(c) \/ UserCancels(c)
    \/ \E x \in Callers, k \in Children : Spawn(x, k)
    \/ \E x \in Callers : StartTimeout(x)
    \/ \E k \in Children : Read(k) \/ Exit(k)
    \/ \E r \in Stops : Stop(r) \/ StopTimer(r)

Spec == Init /\ [][Next]_vars
----------------------------------------------------------------------------
(* Properties *)

\* Every variable holds a value of its type, and a pending request names the CLI
\* it was written to.
TypeOK ==
    /\ StdioTypeOK
    /\ child \in Children \cup {NoChild}
    /\ ready \in {"none", "pending", "resolved", "rejected"} /\ disposed \in BOOLEAN
    /\ pc \in [Callers -> {"idle", "port", "wait", "stranded", "hung", "sent", "stopping", "returned"}]
    /\ timer \subseteq In("wait") \cup In("stranded")
    /\ sentTo \in [Calls -> Children \cup {NoChild}]
    /\ \A c \in Calls : (pc[c] = "sent") <=> (sentTo[c] \in Children)
    /\ listening \subseteq Children
    /\ stopping \in [Stops -> Children \cup {NoChild}]
    /\ cancelled \subseteq Calls
    /\ cancelTo \in [Calls -> Children \cup {NoChild}]

\* No call is ever lost between the manager and a CLI, whatever restarts,
\* crashes and second CLIs happen: its request is still to be read, is being
\* served, has an answer that will be read, or its CLI is about to end.
Holds(box, line) == \E i \in DOMAIN box : box[i] = line
OnItsWay(c, k) ==
    \/ Holds(inbox[k], Request(c)) \/ c \in ServedBy(k)
    \/ k \in listening /\ Holds(outbox[k], Reply(c))
    \/ Holds(inbox[k], Shutdown)
PendingAccounted ==
    \A c \in Calls : pc[c] = "sent" =>
        \/ alive[sentTo[c]] = "dying"
        \/ alive[sentTo[c]] \in {"booting", "up"} /\ OnItsWay(c, sentTo[c])

\* A gateway runs at most one task the CLI still waits for: those it runs
\* besides were cancelled or timed out and are about to notice.
OneConnectedTask ==
    \A k \in Children : Cardinality({c \in loops[k] : Serving(k, c, "posted")}) <= 1

\* ENGINE_BUSY is never answered on behalf of a task that is over: the active
\* task of a CLI is one that it is serving.
NeverStuckBusy ==
    \A k \in Children : activeTask[k] # NoCall => activeTask[k] \in ServedBy(k)

\* Stop reaches the task it is meant for as long as the manager still talks to
\* the CLI that serves it: the cancellation is on its way or the task's signal
\* is aborted.
StopReachesTask ==
    \A c \in Calls :
        /\ cancelTo[c] # NoChild /\ cancelTo[c] = sentTo[c]
        /\ c \in ServedBy(sentTo[c])
        => c \in signalled \/ Holds(inbox[sentTo[c]], Cancel(c))

----------------------------------------------------------------------------
\* Node runs every event loop: lines are read, exits reported, calls served to
\* their answer or their timeout.  Users, crashes and timers owe nothing.
FairSpec ==
    /\ Spec
    /\ \A k \in Children :
          /\ WF_vars(Handle(k) /\ UNCHANGED managerVars)
          /\ WF_vars(GatewayListens(k) /\ UNCHANGED managerVars)
          /\ WF_vars(Read(k)) /\ WF_vars(Exit(k))
          /\ \A c \in Calls : WF_vars(Serve(k, c) /\ UNCHANGED managerVars)
    /\ \A x \in Callers : WF_vars(\E k \in Children : Spawn(x, k))

\* Every request that was written to a CLI is answered or rejected.
CallsSettle == \A c \in Calls : pc[c] = "sent" ~> pc[c] # "sent"
=============================================================================
