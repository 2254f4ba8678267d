\* Two members of a group that commit what they consumed, three threads.
CONSTANTS
    t1 = t1
    t2 = t2
    t3 = t3
    Consumers = {1, 2}
    Grouped = {1, 2}
    Threads <- GroupThreads
    UserOf <- FirstShared
    Topics = {a, b}
    NumPartitions = 1
    Config <- KeepAll
    Calls = {"poll", "subscribe", "unsubscribe", "commit", "produce"}
    Offsets = {}
    MaxCalls = 3
    MaxList = 1
    MaxProduced = 3
    MaxClock = 0
SYMMETRY Symmetry
CONSTRAINT OneTopicOrNoMessages
SPECIFICATION Spec
CHECK_DEADLOCK FALSE
INVARIANT
    GroupLosesNothing
PROPERTY
    LeaveRedistributes
