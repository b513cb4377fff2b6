SPECIFICATION ExchangeSpec
CONSTANTS
    Configs <- MCConfigs
    ChunkSizes <- MCChunkSizes
    MaxSize <- MCMaxSize
    BodyLimits <- MCBodyLimits
    MaxRequest <- MCMaxRequest
INVARIANTS
    ExchangeTypeOK
    CaptureIsExact
    CapturedIsWhole
    MemoryBounded
    SpoolOwned
    UpstreamGetsBody
    RecordIsHonest
CHECK_DEADLOCK FALSE
