---------------------------- MODULE AbstractSession ----------------------------
(***************************************************************************)
(* What the record of a work session promises to whoever reads it, whatever *)
(* loop, restart or failed write stands between two readings: a ledger that *)
(* is opened once for one task with one limit, in which every tool is paid  *)
(* for by a model turn, from which nothing is ever struck out, and which is *)
(* closed for good.  WorkSession implements it with the files under         *)
(* .local/agent-work-sessions.                                              *)
(***************************************************************************)
EXTENDS Integers

CONSTANTS
    Sessions,
    Kinds      \* the kinds of tools that have a limit of their own

VARIABLE ledger

Counts == Kinds \cup {"modelTurns", "toolExecutions"}
Unopened == [state |-> "none"]
IsEntry(e) ==
    /\ e.state \in {"open", "ended"}
    /\ \A c \in Counts : e.spent[c] \in Nat /\ e.limit[c] \in Nat

\* What was spent between two readings: each turn paid for one tool at most, and each
\* tool counts in one kind at most.
Paid(before, after) ==
    LET Spent(c) == after[c] - before[c]
    IN  /\ \A c \in Counts : Spent(c) >= 0
        /\ Spent("toolExecutions") <= Spent("modelTurns")
        /\ \A c \in Kinds : Spent(c) <= Spent("toolExecutions")
WithinLimit(e) == \A c \in Kinds \cup {"toolExecutions"} : e.spent[c] <= e.limit[c]

Init == ledger = [s \in Sessions |-> Unopened]

\* The first reading may find work done already, if earlier writes failed.
Opened(after) == Paid([c \in Counts |-> 0], after.spent)
\* The session goes on or ends, for its task and with its limit.
Continued(before, after) ==
    /\ before.state = "open"
    /\ after.task = before.task /\ after.limit = before.limit
    /\ Paid(before.spent, after.spent)

Record(s) ==
    LET before == ledger[s]
        after == ledger'[s]
    IN  /\ after # before
        /\ IsEntry(after) /\ WithinLimit(after)
        /\ (before = Unopened /\ Opened(after)) \/ Continued(before, after)

Next == \E s \in Sessions :
    /\ Record(s)
    /\ \A other \in Sessions \ {s} : ledger'[other] = ledger[other]
Spec == Init /\ [][Next]_ledger
=============================================================================
