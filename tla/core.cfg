\* The life cycle and the parts an application is assembled from, one per behaviour.
SPECIFICATION MCSpec
CONSTANTS
    N = 3
    Priorities = {0, 1}
    MaxDeps = 1
    RgN = 3
    RgPriorities = {0, 1}
    RgDeps = 3
    Trees <- MCTrees
    Dirs <- MCDirs
    EnvSets <- MCEnvSets
    Profiles = {"", "PROD", "qa"}
    BdModules = {"m1", "m2", "m3"}
    MaxRequired = 1
    Ranks = {0, 1}
    Types = {"t", "u"}
    Raised <- MCRaised
    MaxContext = 1
    ta = ta  tb = tb
    Threads = {ta, tb}
    MtThreads = {ta, tb}
    W = 4
    MaxSpans = 3
    MaxClock = 2
    Bounds <- MCBounds
    Observed = {2, 3}
    Program <- MCProgram
    MaxObserved = 2
    Messages <- MCMessages
    MaxEvents = 2
    Envs <- MCEnvs
    SyncChecks = {"d"}
    AsyncChecks = {"p", "r"}
    MaxChanges = 2
INVARIANTS
    StopsReverse
    SortsDependencyFirst
    ScopedIsHighest
    BootWired
    TraceIsRoot
    MetricsExact
    LogLinesExact
    AggregateIsWorst
PROPERTIES
    ShutdownEnds
CHECK_DEADLOCK FALSE
