CONSTANTS
    NLucky = 2
    SeedBits = 4
    SeedMod = 6
    HashLen = 14
    TICKETPOOL_HEIGHT_LATENCY = 2
    TICKET_VALVE = 3
    TICKET_POOL_MAX_SIZE = 3
    MIN_BLOCKS_TO_KEEP = 3
    fPruneMode = FALSE
    MaxHeight = 5
    Genesis <- MCGenesis
    Blocks <- MCBlocks
SPECIFICATION Spec
PROPERTY SignersLeave
