SPECIFICATION ResetSpec
CONSTANTS
    MaxTries = 2
    MaxResetRuns = 2
INVARIANT SuccessfulRunMeansReset
CHECK_DEADLOCK FALSE
