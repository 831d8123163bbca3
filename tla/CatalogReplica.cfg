SPECIFICATION Spec
CONSTANTS
    MaxId = 2
    NumReplicas = 1
    Threads = {t1, t2}
    Requests <- MCRequests
    MaxFails = 1
    NoSnap = NoSnap
    NoFP = NoFP
INVARIANTS
    TypeOK
    ListMatchesMap
    NoPhantom
    SkipIsSound
    LostWriteIsNoticed
PROPERTIES
    UpsertsKeepUpserts
    MenuConverges
