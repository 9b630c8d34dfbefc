SPECIFICATION Spec
CONSTANTS
    Loops = {l1}
    Sessions = {s1}
    t1 = t1
    t2 = t2
    Tasks <- TwoTasks
    Requests <- SessionRequests
    ModelActions <- ActionKinds
    NoLoop = NoLoop
    MaxHead = 1
    MaxRuns = 4
    MaxFaults = 1
    LocalIgnored = TRUE
    Disturbances <- AnyDisturbance
    DiskFaults = TRUE
INVARIANTS
    TypeOK
    BudgetRespected
    CheckpointMatchesTurns
    EditsIsolated
    CompletedRemovedWorktree
    RunsBounded
PROPERTIES
    RecordIsLedger
