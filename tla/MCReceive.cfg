\* Two receivers of any two kinds, of a topic of two partitions.
CONSTANTS
    Receivers = {1, 2}
    NumPartitions = 2
    MaxProduced = 2
SPECIFICATION FairSpec
CHECK_DEADLOCK FALSE
INVARIANT
    TypeOK
PROPERTIES
    EventuallyReceived
    ShutdownEndsReceivers
