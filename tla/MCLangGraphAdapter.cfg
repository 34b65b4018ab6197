CONSTANTS
    t1 = t1
    t2 = t2
    a1 = a1
    a2 = a2
    b1 = b1
    alice = alice
    bob = bob
    Tasks <- MCTasks
    Msgs <- MCMsgs
    Threads <- MCThreads
    ThreadOf <- MCThreadOf
    NoMsg = NoMsg
    Stalled = Stalled
    MaxCalls = 4
    MaxHangs = 1
    MaxCrashes = 1
SPECIFICATION FairSpec
INVARIANTS
    TypeOK
    ResumeMeetsInterrupt
PROPERTIES
    TurnsInOrder
    OtherThreadsProceed
CHECK_DEADLOCK FALSE
