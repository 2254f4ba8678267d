\* Two members join, each with the topics it likes.
CONSTANTS
    Consumers = {1, 2}
    Grouped = {1, 2}
    Threads = {1, 2}
    UserOf <- OwnConsumer
    Topics = {a, b}
    NumPartitions = 1
    Config <- KeepAll
    Calls = {"subscribe"}
    Offsets = {}
    MaxCalls = 2
    MaxList = 2
    MaxProduced = 0
    MaxClock = 0
SPECIFICATION Spec
CHECK_DEADLOCK FALSE
PROPERTY
    JoinRedistributes
