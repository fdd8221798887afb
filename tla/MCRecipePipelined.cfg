SPECIFICATION Spec
CONSTANTS
    Fractal = 16
    L0Bytes = 65536
    L1Bytes = 524288
    L0CBytes = 131072
    IdleTiles = 16
    MinTiles = 32
    TileCap = 4096
    ScalarCap = 8192
    Cores = 24
    UbBytes = 188416
    Block = 64
    DmaBytes = 32
    LaneGrain = 128
    EltTile = 2048
    LineElems = 2048
    MaxRank = 3
    MaxLabel = 4
    Sizes <- MCSizes
    Envs <- MCEnvs
    Problems <- ThinRows
INVARIANT PipelinedTilesFull
CHECK_DEADLOCK FALSE
