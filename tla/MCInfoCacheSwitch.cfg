SPECIFICATION FairSpec
CONSTANTS
    A = A
    B = B
    NoThread = NoThread
    LookupCache = LookupCache
    Thread = {t1, t2}
    Class = {A, B}
    Fields <- UnionCycleFields
    Requests <- UnionCycleRequests
    MaxInfos = 4
    MaxFailures = 1
    MaxDepth = 1
    CacheSize = 1
    FreeThreaded = FALSE
    Detaches = TRUE
INVARIANTS
    EveryBuildHasABuilder
    ReadyUnlessOverwritten
    NodesMatchAnnotations
    StaleLookupsHaveFailed
    NullsHaveACause
PROPERTIES
    InfosSettleOnce
    OnlySwitchesOverwrite
    RequestsFinish
CHECK_DEADLOCK FALSE
