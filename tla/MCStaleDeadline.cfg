\* The connection OnReady hands over.
SPECIFICATION AnySpec
CONSTANTS
    Packetver = 20180307
    MapLoadDelay = FALSE
    Slots = {1}
    Indices = {0}
    HasOnReady = TRUE
    UserActions = {}
    MaxConnects = 1
    MaxBatch = 2
    MaxReads = 2
INVARIANTS
    DeadlineGone
