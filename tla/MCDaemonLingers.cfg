CONSTANTS
    NumFiles = 1
    Candidates = 1
SPECIFICATION DaemonFairSpec
PROPERTY
    FailedLoadExits
CHECK_DEADLOCK FALSE
