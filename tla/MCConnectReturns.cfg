SPECIFICATION AnyFairSpec
CONSTANTS
    Packetver = 20120410
    MapLoadDelay = TRUE
    Slots = {1}
    Indices = {0, 1}
    HasOnReady = FALSE
    UserActions = {"SC_NOTIFY_BAN"}
    MaxConnects = 1
    MaxBatch = 2
    MaxReads = 2
PROPERTIES
    ConnectReturns
