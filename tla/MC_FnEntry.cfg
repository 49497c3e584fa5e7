CONSTANTS
    d1 = d1
    d2 = d2
    Dests <- MC_Dests
    MaxAttempts = 3
SPECIFICATION Spec
INVARIANT AckedMeansMirrored
PROPERTY NoRetryOnTerminal
CHECK_DEADLOCK FALSE
