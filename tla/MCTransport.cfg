CONSTANTS
    m1 = m1
    m2 = m2
    m3 = m3
    Msgs <- MCMsgs
    End = End
    Broken = Broken
    NoMsg = NoMsg
    ForcePoll = FALSE
    Threshold = 2
    QueueSize = 1
SPECIFICATION FairSpec
INVARIANTS
    TypeOK
    StreamsDoNotOverlap
PROPERTIES
    FallbackEarned
    EveryMessageYielded
    StopHeeded
    DeliveredInOrder
CHECK_DEADLOCK FALSE
