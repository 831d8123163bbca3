SPECIFICATION Spec
CONSTANTS
    Artifacts <- MCArtifacts
    NoETag = NoETag
    Missing = Missing
    NoIndex = NoIndex
    MaxFaults = 2
    MaxStops = 1
INVARIANTS
    TypeOK
    ServesVerified
    NotModifiedIsSound
PROPERTIES
    EventuallyAdopts
