CONSTANTS
    NumFiles = 3
    Candidates = 1
SPECIFICATION DaemonFairSpec
INVARIANT
    KeyIsHighest
PROPERTY
    StartSettles
CHECK_DEADLOCK FALSE
