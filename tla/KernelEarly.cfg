SPECIFICATION KernelSpec
CONSTANTS
    t0 = t0
    t1 = t1
    b = b
    TRISCs <- MCTriscs
    BRISC = b
    Launches <- TriscLaunches
    MaxLaunches = 3
PROPERTY
    ClearIsSafe
