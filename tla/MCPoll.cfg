\* One consumer under fairness, of partitions that evict by age and count,
\* re-subscribing once.
CONSTANTS
    Consumers = {1}
    Grouped = {}
    Threads = {1}
    UserOf <- OwnConsumer
    Topics = {a}
    NumPartitions = 2
    Config <- KeepTwoFresh
    Calls = {"poll", "subscribe", "produce", "shutdown"}
    Offsets = {}
    MaxCalls = 2
    MaxList = 1
    MaxProduced = 3
    MaxClock = 1
SPECIFICATION FairSpec
CHECK_DEADLOCK FALSE
INVARIANTS
    DeliveredInOrder
    SkippedOnlyIfEvicted
    RoundRobin
PROPERTY
    EventuallyDelivered
