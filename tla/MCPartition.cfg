\* Every policy combination, up to four appends over three milliseconds.
CONSTANTS
    Configs <- MCConfigs
    Values = {v}
    MaxAppends = 4
    MaxClock = 3
    MaxStall = 1
SPECIFICATION Spec
INVARIANTS
    TypeOK
    ReadsMatchHistory
    RetentionExact
PROPERTY
    ImplementsRetainedLog
