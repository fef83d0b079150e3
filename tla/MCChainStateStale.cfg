CONSTANTS
    t1 = t1
    t2 = t2
    Threads = {t1, t2}
    NBlocks = 4
    pprev <- MCRival
    nHeight <- MCRivalHeight
    nChainWork <- MCRivalWork
    Chain <- MCRivalChain
    ContextOk = {1, 2, 3, 4}
    ConnectOk = {0, 1, 2, 3, 4}
    Corruptible = {}
    Calls = {}
    MIN_BLOCKS_TO_KEEP = 1
    nMinimumChainWork = 0
    MinReverseSequenceId <- MCMinReverse
    MaxSequenceId = 8
SPECIFICATION Spec
INVARIANTS
    BestChainActive
CHECK_DEADLOCK FALSE
