CONSTANTS
    n1 = n1
    n2 = n2
    n3 = n3
    NoOne = NoOne
    Nodes = {n1, n2}
    NSigs = 2
    RelayingBlockMinLimit = 0
    RelayingBlockMaxLimit = 1
    Preempt <- Ops
    Outcomes = {"connects", "refused"}
    MaxBlocks = 2
    MaxDrops = 1
    Owner <- MCOwnerOffline
SPECIFICATION Spec
INVARIANT TimerRunsWithBlock
CHECK_DEADLOCK FALSE
