SPECIFICATION PartsSpec
CONSTANTS
    t1 = t1
    t2 = t2
    t3 = t3
    k1 = k1
    k2 = k2
    i1 = i1
    i2 = i2
    NoTask = NoTask
    NoKey = NoKey
    Tasks <- QueueTasks
    Keys <- TwoKeys
    Identities <- TwoIdentities
    KeyOf <- QueueKeyOf
    IdentityOf <- QueueIdentityOf
    EventSets <- NoEvents
    MaxTasks = 1
    MaxConcurrent = 1
    Retention = 0
    MaxClock = 0
    Cancellable = {}
INVARIANTS
    SlotsCounted
    OneTreePerRequest
