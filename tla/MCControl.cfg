\* Two threads call one consumer of a group in every way it offers.
CONSTANTS
    Consumers = {1}
    Grouped = {1}
    Threads = {1, 2}
    UserOf <- SharedConsumer
    Topics = {a}
    NumPartitions = 1
    Config <- KeepTwo
    Calls = {"poll", "subscribe", "unsubscribe", "assign", "seek", "store_offset", "pause", "resume", "commit", "commit any", "commit_message", "produce", "shutdown"}
    Offsets <- SmallOffsets
    MaxCalls = 2
    MaxList = 2
    MaxProduced = 2
    MaxClock = 0
SPECIFICATION Spec
CHECK_DEADLOCK FALSE
INVARIANTS
    TypeOK
    StopTakesHold
