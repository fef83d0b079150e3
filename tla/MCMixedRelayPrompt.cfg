CONSTANTS
    n1 = n1
    n2 = n2
    n3 = n3
    NoOne = NoOne
    Nodes = {n1, n2, n3}
    NSigs = 2
    RelayingBlockMinLimit = 0
    RelayingBlockMaxLimit = 1
    Preempt = {"drop"}
    Outcomes = {"connects", "fails", "refused"}
    MaxBlocks = 1
    MaxDrops = 0
    Owner <- MCOwner
SPECIFICATION PromptSpec
PROPERTY ValidBlockConnects
CHECK_DEADLOCK FALSE
