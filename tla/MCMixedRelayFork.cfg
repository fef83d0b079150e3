CONSTANTS
    n1 = n1
    n2 = n2
    n3 = n3
    NoOne = NoOne
    Nodes = {n1, n2}
    NSigs = 1
    RelayingBlockMinLimit = 0
    RelayingBlockMaxLimit = 0
    Preempt = {"drop"}
    Outcomes = {"connects"}
    MaxBlocks = 4
    MaxDrops = 0
    Owner <- MCOwner
SPECIFICATION Spec
INVARIANT RelayedNotOverridden
PROPERTY ChainsConverge
CHECK_DEADLOCK FALSE
