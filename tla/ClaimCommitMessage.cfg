\* A member commits with commit_message, another takes over.
CONSTANTS
    Consumers = {1, 2}
    Grouped = {1, 2}
    Threads = {1, 2}
    UserOf <- OwnConsumer
    Topics = {a}
    NumPartitions = 1
    Config <- KeepAll
    Calls = {"poll", "subscribe", "commit_message", "produce"}
    Offsets = {}
    MaxCalls = 3
    MaxList = 1
    MaxProduced = 3
    MaxClock = 0
SPECIFICATION Spec
CHECK_DEADLOCK FALSE
INVARIANT
    CommitMessageResumes
