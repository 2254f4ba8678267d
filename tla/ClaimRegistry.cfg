\* Two first clients of one id at the same time.
CONSTANTS
    Clients = {c1, c2, c3}
    Ids = {x, y}
    Keys = {num_partitions}
    Values = {1, 2}
    Default <- DefaultOne
    Bad = Bad
    MaxBrokers = 3
SPECIFICATION Spec
CHECK_DEADLOCK FALSE
INVARIANT
    OneBrokerPerId
