CONSTANTS
    n1 = n1
    n2 = n2
    Names <- MCNames
    NRules = 2
    Match <- MCMatch
    TimeWindow = 1
    MaxTime = 2
    MaxBatch = 2

SPECIFICATION Spec
INVARIANT TypeOK RecordedWasTriggered
PROPERTY NoGoroutineLeak
CHECK_DEADLOCK FALSE
