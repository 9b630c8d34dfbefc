SPECIFICATION FairSpec
CONSTANTS
    t1 = t1  t2 = t2  a1 = a1  s1 = s1  r1 = r1
    Calls = {t1, a1}
    KindOf <- KindByName
    Children = {1, 2, 3}
    Stops = {r1}
    Disposes = {}
    NoChild = NoChild
    NoCall = NoCall
    MaxFaults = 1
CHECK_DEADLOCK FALSE
PROPERTIES CallsSettle
