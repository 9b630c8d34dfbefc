CONSTANTS
    Callers <- MCCallers
    Listings <- MCListings
    Chunks <- MCChunks
    MaxCalls = 2
    MaxPieces = 2
SPECIFICATION FairCallSpec
INVARIANTS ShownIsReturned CompletedIsWhole DiagnosticsOfCall
PROPERTIES CallsEnd
CHECK_DEADLOCK FALSE
