SPECIFICATION PartsSpec
CONSTANTS
    t1 = t1
    t2 = t2
    t3 = t3
    t4 = t4
    k1 = k1
    k2 = k2
    k3 = k3
    i1 = i1
    NoTask = NoTask
    NoKey = NoKey
    None = None
    Tasks <- MCTasks
    Keys <- MCKeys
    Identities <- MCIdentities
    KeyOf <- MCKeyOf
    IdentityOf <- MCIdentityOf
    MaxTasks = 2
    Retention = 1
    MaxClock = 4
    Job = t1
    EventSets <- SomeEvents
    Streams <- TwoStreams
    Limit = 2
    ReadMax = 2
    PipeSize = 2
    MaxBytes = 3
    MaxFaults = 1
INVARIANT
    RunningMeansExeced
CHECK_DEADLOCK FALSE
