CONSTANTS
    Kernels <- MCKernels
    Configs <- MCConfigs
    AddrMods <- MCAddrMods
    Params <- MCParams
    LoBits = 2
    ZMasks <- MCZMasks
    Wrapped = 2
    MaxMops = 3
    MaxWrites = 1
    DestSize = 4
    CountMod = 8
    Block = 2
SPECIFICATION MuSpec
INVARIANTS
    MopTypeOK
    ExpansionExact
    EachProductOnce
PROPERTIES
    ExpansionEnds
CHECK_DEADLOCK FALSE
