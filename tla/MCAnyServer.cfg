SPECIFICATION AnySpec
CONSTANTS
    Packetver = 20180307
    MapLoadDelay = TRUE
    Slots = {1, 2}
    Indices = {0, 1}
    HasOnReady = TRUE
    UserActions = {}
    MaxConnects = 2
    MaxBatch = 2
    MaxReads = 3
INVARIANTS
    ReadyIsHonest
    SentInOrder
    TokensFresh
    BanNotified
PROPERTY ImplementsLogin
