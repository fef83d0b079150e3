CONSTANTS
    t1 = t1
    t2 = t2
    Threads = {t1, t2}
    NBlocks = 5
    pprev <- MCLong
    nHeight <- MCLongHeight
    nChainWork <- MCLongWork
    Chain <- MCLongChain
    ContextOk = {1, 2, 3, 4}
    ConnectOk = {0, 1, 4}
    Corruptible = {}
    Calls = {"preciousblock", "reconsiderblock"}
    MIN_BLOCKS_TO_KEEP = 1
    nMinimumChainWork = 0
    MinReverseSequenceId <- MCMinReverse
    MaxSequenceId = 5
SPECIFICATION Spec
INVARIANTS
    CandidatesLeft
PROPERTIES
    ActivationEnds
CHECK_DEADLOCK FALSE
