CONSTANTS
    n1 = n1
    n2 = n2
    Names <- MCNames
    NRules = 2
    Match <- MCMatch
    Move <- MCMove
    Limit = 2
    TimeWindow = 1
    MaxTime = 3
SPECIFICATION Spec
PROPERTY ProcessedPerRule
CHECK_DEADLOCK FALSE
