SPECIFICATION CopSpec
CONSTANTS
    tile = tile
    Tiles <- MCTiles
    Instrs <- MCInstrs
    Stalled <- NoStall
    Sems = {0, 1}
    Mutexes = {}
    SemCap = 2
    Threads <- JustMath
    Hosts <- StreamHosts
    Programs <- ForgetPrograms
    FifoSize = 2
    ReplaySize = 2
INVARIANT
    FifoConservation
