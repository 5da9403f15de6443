SPECIFICATION RathenaSpec
CONSTANTS
    Packetver = 20180307
    MapLoadDelay = FALSE
    Slots = {1, 2}
    Indices = {0}
    HasOnReady = TRUE
    UserActions = {}
    MaxConnects = 3
    Chars = 2
    MaxFaults = 2
INVARIANTS
    IdentityMatchesSelection
PROPERTIES
    EventuallyReady
