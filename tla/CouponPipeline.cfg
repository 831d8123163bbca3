SPECIFICATION Spec
CONSTANTS
    NumSources = 2
    Local = {}
    MaxGen = 1
    MaxFaults = 1
    NoIndex = NoIndex
    NoFP = NoFP
    Missing = Missing
    NoETag = NoETag
INVARIANTS
    BothSteadyMeansFresh
PROPERTIES
    EventuallyServed
