SPECIFICATION Spec
CONSTANTS
    Instances = {i1, i2}
    Clients = {c1}
    NumSeeds = 3
    MaxPopulated = 2
    LaggingReads = TRUE
    MaxCrashes = 1
    MaxCreates = 3
INVARIANTS
    SeededWhole
    SequenceAhead
PROPERTIES
    ImplementsMemoryStore
CHECK_DEADLOCK FALSE
