\* Streams of pieces of any kind, and of enough frames for the ring to wrap
\* around, cut anywhere; one panic, one change of handlers or hooks.
SPECIFICATION FairSpec
CONSTANTS
    lengths <- MCLengths
    Streams <- MCStreams
    MaxPieces = 3
    BufLen = 65536
    recentMaxFrameBytes = 2
    MaxPanics = 1
    MaxConfigs = 1
INVARIANTS
    TypeOK
    BytesConserved
    ChunkingInvisible
    CallsAccounted
    TraceInOrder
    RecentIsHistory
    EventsFaithful
PROPERTIES
    ImplementsFrameStream
    FaultIsFinal
    FeedReturns
