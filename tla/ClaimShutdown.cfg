\* One receiver of any kind, of a topic of one partition.
CONSTANTS
    Receivers = {1}
    NumPartitions = 1
    MaxProduced = 1
SPECIFICATION FairSpec
CHECK_DEADLOCK FALSE
PROPERTY
    ShutdownReachesSubscribers
