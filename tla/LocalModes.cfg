CONSTANTS
    Requests = {r1, r2}
    Starts <- MCStarts
    Answers <- MCAnswers
    Edited = {"types"}
    MaxFaults = 1
SPECIFICATION FairSpec
INVARIANTS CommittedIsTested ReportIsOfRun PassedIsClean
PROPERTIES RequestsEnd
CHECK_DEADLOCK FALSE
