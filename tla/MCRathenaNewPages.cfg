\* The pages of a character list of a version that has renumbered them.
SPECIFICATION RathenaSpec
CONSTANTS
    Packetver = 20201007
    MapLoadDelay = FALSE
    Slots = {1, 2}
    Indices = {0}
    HasOnReady = TRUE
    UserActions = {}
    MaxConnects = 1
    Chars = 2
    MaxFaults = 0
PROPERTIES
    EventuallyReady
