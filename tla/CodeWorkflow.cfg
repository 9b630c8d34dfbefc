CONSTANTS
    Requests = {r1}
    Starts <- OneWorkflow
    Answers <- AllAnswers
    Edited = {}
    MaxFaults = 0
SPECIFICATION Spec
INVARIANTS GoodWorkflowValidates
CHECK_DEADLOCK FALSE
