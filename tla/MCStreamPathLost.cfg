CONSTANTS
    Executors <- MCExecutors
    Retries = 0
    MaxLines = 1
SPECIFICATION StreamSpec
INVARIANT FailureIsTold
CHECK_DEADLOCK FALSE
