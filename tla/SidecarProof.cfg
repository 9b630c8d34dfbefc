CONSTANTS
    Requests = {r1, r2}
    Prompts <- MCPrompts
    Answers <- MCAnswers
    Found <- MCFound
    MaxFaults = 1
SPECIFICATION FairSpec
INVARIANTS OnlyAllowedIsWritten ReportedIsThere GateOkMeansRepaired
PROPERTIES ProofsEnd
CHECK_DEADLOCK FALSE
