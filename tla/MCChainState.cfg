CONSTANTS
    t1 = t1
    t2 = t2
    Threads = {t1}
    NBlocks = 4
    pprev <- MCFork
    nHeight <- MCForkHeight
    nChainWork <- MCForkWork
    Chain <- MCForkChain
    ContextOk = {1, 2, 3, 4}
    ConnectOk = {0, 1, 2, 3}
    Corruptible = {3}
    Calls = {"invalidateblock", "pruneblockchain", "restart"}
    MIN_BLOCKS_TO_KEEP = 1
    nMinimumChainWork = 2
    MinReverseSequenceId <- MCMinReverse
    MaxSequenceId = 8
SPECIFICATION Spec
INVARIANTS
    TypeOK
    BestChainActive
    CandidatesComplete
    ActiveChainValid
    
    LinkedWhenReceived
PROPERTIES
    WorkKept
CHECK_DEADLOCK FALSE
