\* A bounded and an unbounded buffer, with and without retention limits.
CONSTANTS
    Configs <- PolicyNone
    Values = {v}
    MaxAppends = 3
    MaxClock = 2
    MaxStall = 1
SPECIFICATION Spec
INVARIANT
    LimitsAsDocumented
