SPECIFICATION Spec
CONSTANTS
    t1 = t1
    t2 = t2
    k1 = k1
    k2 = k2
    i1 = i1
    i2 = i2
    NoTask = NoTask
    NoKey = NoKey
    Tasks <- SideTasks
    Keys <- TwoKeys
    Identities <- AllIdentities
    KeyOf <- SideKeyOf
    IdentityOf <- SideIdentityOf
    EventSets <- NoEvents
    MaxTasks = 2
    MaxConcurrent = 2
    Retention = 0
    MaxClock = 0
    Cancellable = {t1}
INVARIANTS
    SlotCoversTree
PROPERTIES
    NoStartAfterFailStop
