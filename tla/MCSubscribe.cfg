CONSTANTS
    m1 = m1
    m2 = m2
    NoMsg = NoMsg
    Msgs <- MCMsgs
    Eligible <- MCMsgs
    Listed <- NoneListed
    MaxAttempts = 2
    DeadLetterCap = 1
    RepliedCap = 1
    DedupSize = 2
    MaxCopies = 1
    MaxCrashes = 1
    MaxFaults = 2
SPECIFICATION FairSpec
INVARIANTS
    LoopInv
    NoSilentLoss
    SecondReplyExplained
    ForwardReturnsFirst
    CopiesBounded
    DeadLetterEarned
PROPERTIES
    MailboxKept
    EveryMessageSettled
CHECK_DEADLOCK FALSE
