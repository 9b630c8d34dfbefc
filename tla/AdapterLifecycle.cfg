CONSTANTS
    Processes = {p1, p2}
    Names <- MCNames
    Inputs <- MCInputs
    Campaigns <- MCCampaigns
    Tasks <- MCTasks
    Base <- MCBase
    Trained <- MCTrained
    MaxRuns = 2
SPECIFICATION Spec
INVARIANTS ActiveWasAccepted PromotedKeepsTasks ReportedIsRecorded ActiveIsPromoted
CHECK_DEADLOCK FALSE
SYMMETRY Symmetry
