SPECIFICATION ExchangeSpec
CONSTANTS
    Configs <- MCConfigs
    ChunkSizes <- MCChunkSizes
    MaxSize <- MCMaxSize
    BodyLimits <- MCBodyLimits
    MaxRequest <- MCMaxRequest
INVARIANT ClientGetsWholeBody
CHECK_DEADLOCK FALSE
