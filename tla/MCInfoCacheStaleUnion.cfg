SPECIFICATION Spec
CONSTANTS
    A = A
    B = B
    NoThread = NoThread
    LookupCache = LookupCache
    Thread = {t1}
    Class = {A, B}
    Fields <- UnionFields
    Requests <- UnionRequests
    MaxInfos = 3
    MaxFailures = 1
    MaxDepth = 1
    CacheSize = 1
    FreeThreaded = FALSE
    Detaches = FALSE
INVARIANTS
    NoNullDereference
