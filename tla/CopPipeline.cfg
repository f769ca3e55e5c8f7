SPECIFICATION CopFairSpec
CONSTANTS
    tile = tile
    Tiles <- MCTiles
    Instrs <- MCInstrs
    Stalled <- NoStall
    Sems = {0, 1}
    Mutexes = {0}
    SemCap = 2
    Threads <- ThreeThreads
    Hosts <- ThreeThreads
    Programs <- PipelinePrograms
    FifoSize = 2
    ReplaySize = 2
INVARIANTS
    SemWithinMax
    PostsAwaited
PROPERTIES
    MutexByHolder
    AllFinish
