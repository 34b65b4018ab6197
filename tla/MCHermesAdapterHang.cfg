CONSTANTS
    t1 = t1
    t2 = t2
    alice = alice
    bob = bob
    carol = carol
    Tasks <- OneTask
    Senders <- MCSenders
    PoolSizes <- MCPoolSizes
    Workers = 2
    MaxHangs = 2
SPECIFICATION FairSpec
PROPERTY
    HangLeavesLoopAlive
CHECK_DEADLOCK FALSE
