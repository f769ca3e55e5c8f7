SPECIFICATION BanksSpec
CONSTANTS
    t1 = t1
    t2 = t2
    Tiles <- MCTiles
    Instrs <- CarefulInstrs
    Stalled <- AllStalled
INVARIANTS
    BanksTypeOK
    BankSync
    NoStandoff
PROPERTIES
    ImplementsQueue
    OwnedStable
