SPECIFICATION Spec
CONSTANTS
    A = A
    B = B
    NoThread = NoThread
    LookupCache = LookupCache
    Thread = {t1, t2}
    Class = {A}
    Fields <- OneField
    Requests <- OneRequest
    MaxInfos = 2
    MaxFailures = 0
    MaxDepth = 1
    CacheSize = 1
    FreeThreaded = FALSE
    Detaches = TRUE
INVARIANTS
    ReadyMeansBuilt
