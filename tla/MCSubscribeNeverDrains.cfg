CONSTANTS
    m1 = m1
    m2 = m2
    NoMsg = NoMsg
    Msgs <- MCMsgs
    Eligible <- OneEligible
    Listed <- OneListed
    MaxAttempts = 2
    DeadLetterCap = 1
    RepliedCap = 1
    DedupSize = 2
    MaxCopies = 1
    MaxCrashes = 1
    MaxFaults = 1
SPECIFICATION FairSpec
PROPERTY
    DrainsOnceBound
CHECK_DEADLOCK FALSE
