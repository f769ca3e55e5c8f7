CONSTANTS
    Lanes = {0, 1}
    GenRegs = {0, 1}
    ConstRegs = {9}
    ProgRegs = {11}
    IndexReg = 1
    RegAt <- MCRegAt
    Side = 2
    Cols = 1
    Results = {0, 3}
    Width = 2
    Depth = 2
SPECIFICATION SfpuSpec
INVARIANTS
    FlagStackBounded
    LanesFollowBranches
    ConstantsStay
PROPERTIES
    BranchIsIsolated
CHECK_DEADLOCK FALSE
