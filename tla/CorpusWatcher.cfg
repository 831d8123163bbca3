SPECIFICATION Spec
CONSTANTS
    NumSources = 3
    Local = {2, 3}
    UrlTarget = TRUE
    Once = FALSE
    MaxGen = 2
    MaxFaults = 1
    MaxRestarts = 1
    NoIndex = NoIndex
    NoFP = NoFP
INVARIANTS
    SteadyMeansFresh
    PublishedWhole
PROPERTIES
    EventuallyFresh
    NoticedChangePublished
