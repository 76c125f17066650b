\* A transaction with a statement that failed is committed.
SPECIFICATION MCSpec
CONSTANTS
    c1 = c1  c2 = c2
    Monitor = Monitor
    Clients = {c1, c2}
    MaxSize = 1
    MinIdle = 1
    MaxAcquires = 1
    MaxSweeps = 1
    Opens = {TRUE, FALSE}
    MayDrop = TRUE
    Servers <- MCServers
    Noise = {"N"}
    MaxPgCalls <- MCCalls
    MaxNoise = 1
    Dirs <- MCDirs
    Runners = {c1, c2}
    MaxRuns = 3
    Idents <- MCIdents
    Values <- MCValues
    Raw <- MCRaw
    Base = {0, 9}
    MaxConds = 2
    UsizeMax = 99
    I4Max = 1
    I8Max = 2
    Texts <- MCTexts
    Names = {"a", "b"}
INVARIANT CommitCommits
CHECK_DEADLOCK FALSE
