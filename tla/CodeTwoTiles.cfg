SPECIFICATION CodeSpec
CONSTANTS
    t0 = t0
    nc1 = nc1
    nc2 = nc2
    a1 = a1
    a2 = a2
    v1 = v1
    v2 = v2
    Tracked <- NoTracked
    NCRISCs <- TwoNcriscs
    Addrs <- MCAddrs
    Versions <- MCVersions
INVARIANT
    CodeIsFresh
