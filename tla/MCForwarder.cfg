CONSTANTS
    c1 = c1
    m1 = m1
    Chats <- MCChats
    NoChat = NoChat
    BatchLimit = 2
    MaxUpdates = 3
    Msgs <- MCMsgs
    Eligible <- NoneEligible
    NoMsg = NoMsg
    DedupSize = 2
    MaxCopies = 1
    MaxFaults = 0
    MaxAttempts = 2
    DeadLetterCap = 1
    RepliedCap = 1
    MaxCrashes = 2
SPECIFICATION FairSpec
INVARIANTS
    BridgeTypes
    ConfirmedWasSaved
    ForwardsForward
PROPERTIES
    NoWaitOnceSaved
    ImplementsLoop
    LastWriterWins
CHECK_DEADLOCK FALSE
