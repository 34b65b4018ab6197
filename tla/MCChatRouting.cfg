SPECIFICATION Spec
CONSTANTS
    Names = {alice, bob}
    Default = Default
    Chats = {c1, c2}
    NoChat = NoChat
    NoName = NoName
    Junk = Junk
    MaxEntries = 2
    MaxUpdates = 2
SYMMETRY Symmetry
INVARIANTS
    TypeOK
    FlattenMeaning
    DiscoveryTakesEffect
    SendTestTruth
    ConfirmsNoMessage
PROPERTIES
    RoutesKept
