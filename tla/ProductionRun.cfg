SPECIFICATION Spec
CONSTANTS
    Profiles <- MCProfiles
    Replies <- MCReplies
    MaxToolSteps = 6
    MaxRepairs = 1
    MaxInvalid = 2
    MaxFreeform = 2
INVARIANTS ValidatedIsCurrent SuccessIsEvidenced
PROPERTIES RunEnds
