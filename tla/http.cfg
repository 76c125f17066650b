\* The parts of the HTTP crate, one per behaviour.
SPECIFICATION MCSpec
CONSTANTS
    Clients = {"c1", "c2"}
    Limits <- MCLimits
    MaxReadBuf = 30
    MaxBody = 2
    ChunkSlack = 12
    MaxRequests = 3
    MaxChunk = 8
    ReadSize = 16
    ReadSizes = {1, 16}
    Routes = {"/a"}
    Scripts <- MCScripts
    MaxConns = 1
    Peek = 4
    StreamIds = {1, 3}
    MaxConcurrent = 1
    MaxFrameSize = 1
    DefaultWindow = 2
    MaxWindow = 3
    HeaderTable = 36
    Fields <- PathField
    MoreFields <- NewField
    Resizes = {33}
    ClientSettings <- MCSettings
    DataLens = {1}
    Bodies = {0, 2}
    MaxFrames = 3
    LenBytes = 3
    WsScripts <- MCWsScripts
    MaskKey <- MCKey
    MaxFragment = 3
    MaxSends = 1
    ExClients <- MCExClients
    Signatures <- MCSignatures
    ra = ra  rb = rb
    MwRequests = {ra, rb}
    Chains <- MCChains
    Inputs <- MCInputs
    SeqWidth = 4
    Patterns <- MCPatterns
    NestPrefixes <- MCPrefixes
    UrlPaths <- MCPaths
    MaxRoutes = 3
INVARIANTS
    RequestsExact
    AnswersExact
    HeadersExact
    SentWithinGrant
    MessagesExact
    ExtractsExact
    LayersApplied
    RouteBest
PROPERTIES
    ShutdownEnds
    GoawayEnds
CHECK_DEADLOCK FALSE
