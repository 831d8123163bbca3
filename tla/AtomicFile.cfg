SPECIFICATION FileSpec
CONSTANTS
    Writers = {w1, w2}
    DirSyncers = {w1}
    Versions = {0, 1, 2, 3}
    Torn = Torn
INVARIANTS
    NeverTorn
    SyncedStays
PROPERTIES
    ImplementsAtomicReplace
