CONSTANTS
    Requests = {r1, r2}
    Prompts <- MCPrompts
    Decisions <- MCDecisions
    ModelPatches <- MCModelPatches
    MaxEdits = 1
    MaxRequests = 3
SPECIFICATION Spec
INVARIANTS IdleIsReady ReportsAreObserved
PROPERTIES WritesAreApproved
CHECK_DEADLOCK FALSE
