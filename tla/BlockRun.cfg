CONSTANTS
    XLEN = 8
    Regs = {0, 1, 2, 3}
    Ram = {0, 1, 2, 3, 4, 5, 6, 7}
    Mailbox = 240
    Depth = 1
    Pcs <- MCPcs
    Setups <- MCSetups
    Bytes = {2}
    Words = {8}
    Capacity = 2
    RemoveLimit = 256
SPECIFICATION BlockSpec
INVARIANT ZeroIsZero
INVARIANT ConstantsHold
INVARIANT IsaResults
PROPERTY ImplementsPlain
