CONSTANTS
    Members = {1, 2, 3}
    Topics = {ta, tb}
    NumPartitions = 4
SPECIFICATION Spec
INVARIANTS
    TypeOK
    AssignmentsExclusive
    SharesBalanced
PROPERTY
    JoinAlwaysCovers
