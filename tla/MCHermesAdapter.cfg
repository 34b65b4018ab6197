CONSTANTS
    t1 = t1
    t2 = t2
    alice = alice
    bob = bob
    carol = carol
    Tasks <- MCTasks
    Senders <- MCSenders
    PoolSizes <- MCPoolSizes
    Workers = 2
    MaxHangs = 1
SPECIFICATION FairSpec
INVARIANTS
    TypeOK
    PoolIsRecent
PROPERTY
    InjectReturns
CHECK_DEADLOCK FALSE
