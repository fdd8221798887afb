SPECIFICATION Spec
CONSTANTS
    Fractal = 2
    L0Bytes = 64
    L1Bytes = 256
    L0CBytes = 128
    IdleTiles = 3
    MinTiles = 4
    TileCap = 6
    ScalarCap = 4
    Cores = 3
    UbBytes = 160
    Block = 2
    DmaBytes = 4
    LaneGrain = 4
    EltTile = 4
    LineElems = 4
    MaxRank = 3
    MaxLabel = 4
    Sizes <- MCSizes
    Envs <- MCEnvs
    Problems <- MCProblems
INVARIANTS
    TypeOK
    RunRight
    Compiles
    KernelFits
    SymbolsResolve
    SplitKInStep
    ReadsInBounds
    TransposesRight
    ProductsApart
CHECK_DEADLOCK FALSE
