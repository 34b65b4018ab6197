CONSTANTS
    m1 = m1
    m2 = m2
    m3 = m3
    Msgs <- MCMsgs
    Absent = Absent
    Corrupt = Corrupt
    NoCall = NoCall
    MaxDamages = 1
    MaxAttempts = 2
    DeadLetterCap = 2
    RepliedCap = 2
SPECIFICATION Spec
INVARIANTS
    TypeOK
    EntriesConsistent
PROPERTIES
    OrderKept
    CorruptionBackedUp
    PromiseKept
