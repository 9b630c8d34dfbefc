SPECIFICATION Spec
CONSTANTS
    t1 = t1  t2 = t2  a1 = a1  s1 = s1  r1 = r1
    Calls = {t1, t2}
    KindOf <- KindByName
    Children = {1, 2, 3}
    Stops = {r1}
    Disposes = {}
    NoChild = NoChild
    NoCall = NoCall
    MaxFaults = 2
SYMMETRY Interchangeable
CHECK_DEADLOCK FALSE
INVARIANTS PendingAccounted OneConnectedTask NeverStuckBusy StopReachesTask
