SPECIFICATION FairSpec
CONSTANTS
    A = A
    B = B
    NoThread = NoThread
    LookupCache = LookupCache
    Thread = {t1, t2}
    Class = {A, B}
    Fields <- MutualFields
    Requests <- MutualRequests
    MaxInfos = 3
    MaxFailures = 1
    MaxDepth = 1
    CacheSize = 1
    FreeThreaded = TRUE
    Detaches = FALSE
INVARIANTS
    TypeOK
    ReadyMeansBuilt
    NoNullDereference
    FailedInfosAreDropped
PROPERTIES
    ServesOneInfoForever
    RequestsFinish
