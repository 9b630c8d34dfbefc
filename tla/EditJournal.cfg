SPECIFICATION Spec
CONSTANTS
    p1 = p1  p2 = p2  p3 = p3  text = text  garbled = garbled  binary = binary
    Paths = {p1, p2, p3}
    Contents = {text, garbled, binary}
    Missing = Missing
    Utf8 <- Decoded
    MaxPatchFiles = 2
    MaxFaults = 2
SYMMETRY Interchangeable
INVARIANTS JournalSuffices LoopRestores
PROPERTIES RollbackMakesProgress
