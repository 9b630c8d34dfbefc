SPECIFICATION FairSpec
CONSTANTS
    Loops = {l1}
    Sessions = {s1}
    t1 = t1
    t2 = t2
    Tasks <- OneTask
    Requests <- ShortRequests
    ModelActions <- EditAndValidate
    NoLoop = NoLoop
    MaxHead = 1
    MaxRuns = 0
    MaxFaults = 1
    LocalIgnored = TRUE
    Disturbances <- AnyDisturbance
    DiskFaults = FALSE
PROPERTIES
    LoopReturns
    SessionEnds
