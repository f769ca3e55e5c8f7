SPECIFICATION BanksSpec
CONSTANTS
    t1 = t1
    t2 = t2
    Tiles <- MCTiles
    Instrs <- DestReuseInstrs
    Stalled <- AllStalled
INVARIANT
    ZeroedIsCleared
