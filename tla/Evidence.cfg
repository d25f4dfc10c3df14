SPECIFICATION MCSpec
CONSTANTS
    Requests = {r1, r2}
    Trusted = {r1}
    Frames <- MCFrames
    Contracts = {c1, c2}
    k1 = k1
    k2 = k2
    Keys <- MCKeys
    Aliases = {k1}
    MaxFrames = 2
    MaxFrameBytes = 2
    MaxTotalBytes = 4
    QueueSize = 2
    MaxEvents = 5
    MaxFaults = 1
    NULL = NULL
    Half = 16
    MaxBytes = 3
    Modulus = 1024
    Fixed64 = 2
    Fixed32 = 1
    MaxFields = 5
    GzipMagic <- MCGzipMagic
    Texts <- MCTexts
    GZIP <- MCGzip
    XGZIP <- MCXGzip
    NONE <- MCNone
    IDENTITY <- MCIdentity
    ProbeFrames <- MCProbeFrames
    max_frames = 3
    MaxBeats = 2
    MaxIoErrors = 1
CHECK_DEADLOCK FALSE
INVARIANT BundleIsComplete
INVARIANT FixtureIsEvidence
INVARIANT WireIsExact
INVARIANT ReportIsHonest
