SPECIFICATION Spec
CONSTANTS
    f1 = f1
    f2 = f2
    f3 = f3
    Sources <- MCSources
    Codes <- MCCodes
    Lines <- MCLines
    Rejected = Rejected
    Norm <- MCNorm
    Corpora <- MCCorpora
    NumParts = 2
    Route <- MCRoute
    Workers = {w1, w2}
    FlushRecords = 2
    CtxStride = 2
    TempDirGiven = FALSE
    NoIndex = NoIndex
    NoCorpus = NoCorpus
INVARIANTS
    TypeOK
    IndexExact
    SpillExact
    PartitionsAccounted
PROPERTIES
    ImplementsExactIndex
    BuildEnds
