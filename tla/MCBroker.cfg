\* Two senders, three records, every partitioner, a shutdown at any time.
CONSTANTS
    Half = 8
    Keys = {k}
    Hash <- AllOnes
    Senders = {1, 2}
    ProducerOf <- FutureTyped
    Topics = {a}
    NumPartitions = 3
    Config <- KeepTwo
    Records <- SomeRecords
    Strategies = {"round_robin", "consistent", "random"}
    Builds = {"debug", "release"}
    Starts <- AroundTheWrap
    MaxSends = 3
SPECIFICATION Spec
CHECK_DEADLOCK FALSE
INVARIANTS
    TypeOK
    AcknowledgedIsStored
    ToldTheTruth
    ChosenPartitionExists
    PartitionsInTurn
    ShutdownStops
PROPERTY
    ImplementsTopicStore
