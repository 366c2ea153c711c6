SPECIFICATION Spec
SYMMETRY RetrySymmetry
CONSTANTS
    t1 = t1
    t2 = t2
    k1 = k1
    k2 = k2
    i1 = i1
    i2 = i2
    NoTask = NoTask
    NoKey = NoKey
    Tasks <- RetryTasks
    Keys <- OneKey
    Identities <- AllIdentities
    KeyOf <- RetryKeyOf
    IdentityOf <- RetryIdentityOf
    EventSets <- SomeEvents
    MaxTasks = 2
    MaxConcurrent = 1
    Retention = 0
    MaxClock = 1
    Cancellable <- RetryTasks
INVARIANTS
    FinishedMeansClean
    ToldAfterRelease
    CancelHonest
    LimitsGoneMeansExpired
PROPERTIES
    KeepsPromise
