SPECIFICATION FairSpec
CONSTANTS
    t1 = t1
    t2 = t2
    k1 = k1
    k2 = k2
    i1 = i1
    i2 = i2
    NoTask = NoTask
    NoKey = NoKey
    Tasks <- RetryTasks
    Keys <- OneKey
    Identities <- AllIdentities
    KeyOf <- RetryKeyOf
    IdentityOf <- RetryIdentityOf
    EventSets <- NoEvents
    MaxTasks = 1
    MaxConcurrent = 1
    Retention = 0
    MaxClock = 0
    Cancellable = {t1}
PROPERTIES
    SubmitAnswered
    CancelAnswered
    SlotComesBack
CHECK_DEADLOCK FALSE
