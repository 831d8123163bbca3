SPECIFICATION Spec
CONSTANTS
    MaxId = 2
    NumReplicas = 2
    Threads = {t1}
    Requests <- MCRequests
    MaxFails = 0
    NoSnap = NoSnap
    NoFP = NoFP
PROPERTIES
    MenuConverges
