\* Two members join, one leaves, the other keeps polling.
CONSTANTS
    Consumers = {1, 2}
    Grouped = {1, 2}
    Threads = {1, 2}
    UserOf <- OwnConsumer
    Topics = {a}
    NumPartitions = 2
    Config <- KeepAll
    Calls = {"poll", "subscribe", "unsubscribe", "produce"}
    Offsets = {}
    MaxCalls = 3
    MaxList = 1
    MaxProduced = 1
    MaxClock = 0
SPECIFICATION FairSpec
CHECK_DEADLOCK FALSE
PROPERTY
    LeaversPartitionsAreServed
