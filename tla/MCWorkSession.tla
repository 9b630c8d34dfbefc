--------------------------- MODULE MCWorkSession ---------------------------
(* Instances of WorkSession for TLC. *)
EXTENDS WorkSession

CONSTANTS t1, t2

Defaults == [c \in Counters |-> -1]
OneTask == {t1}
TwoTasks == {t1, t2}
\* Reads and searches are counted in a bucket, as edits are, and do no more than others.
ActionKinds == Actions \ {"readOps", "searchOps"}
AnyDisturbance == {"edits", "aborts"}
EditAndValidate == {"editOps", "validationOps", "final_report"}

\* The request of the embedded CLI (bin/ayla.js, taskPayload): strict protocol,
\* automatic resume, no eager worktree, clean-up on completion.
CliRequest(steps) ==
    [task |-> t1, strict |-> TRUE, maxSteps |-> steps, maxRepairAttempts |-> 2,
     resume |-> "auto", allowStale |-> FALSE, eager |-> FALSE, cleanup |-> TRUE,
     overrides |-> Defaults]

ShortRequests == {CliRequest(2)}

\* Two steps with one edit and one repair, so that both limits can be met, and the
\* other callers of the HTTP API: an eager worktree that is kept and a budget of one
\* turn, the legacy protocol with a budget of one tool, explicit resumes with stale
\* evidence allowed, and of another task.
ShortRequest == [CliRequest(2) EXCEPT !.overrides["editOps"] = 1, !.maxRepairAttempts = 1]
SessionRequests ==
    {ShortRequest,
     [ShortRequest EXCEPT !.task = t2, !.resume = "none", !.eager = TRUE, !.cleanup = FALSE,
                    !.overrides["modelTurns"] = 1],
     [ShortRequest EXCEPT !.strict = FALSE, !.overrides["toolExecutions"] = 1]}
    \cup {[ShortRequest EXCEPT !.resume = s, !.allowStale = TRUE] : s \in Sessions}
    \cup {[ShortRequest EXCEPT !.resume = s, !.task = t2] : s \in Sessions}
=============================================================================
