\* The primitives of the runtime, one per behaviour.
SPECIFICATION Spec
CONSTANTS
    v1 = v1  v2 = v2
    NoValue = NoValue
    Values = {v1, v2}
    s1 = s1  s2 = s2
    Senders = {s1, s2}
    First = s1
    Capacity = 0
    MaxSends = 3
    c1 = c1  c2 = c2  c3 = c3
    Contenders = {c1, c2, c3}
    MaxLocks = 2
    Sleepers = {s1, s2}
    SLOTS = 64
    LEVELS = 6
    Res = 2
    Instants <- Edges
    Period = 3
    MaxAdvance = 4
    Horizon = 25
    Fds = {1, 2}
    t1 = t1  t2 = t2  m = m  wk = wk
    NetTasks = {t1, t2}
    Threads = {m, wk}
    MaxToken = 2
    MaxCalls = 7
    SignalTasks = {t1, t2}
    MaxSignals = 2
    h1 = h1  h2 = h2  h3 = h3  h4 = h4
    QWorkers = {1, 2}
    Headers = {h1, h2, h3, h4}
    CAPACITY = 2
    Wrap = 4
    BATCH = 2
    ScopeTasks = {"a", "b", "c"}
    ScopesOf <- Scopes
INVARIANTS
    NoLostWake
    TicksAccounted
    WaiterArmed
    SignalsConserved
    NoHeaderLost
    InnermostScope
PROPERTIES
    ImplementsChannel
    SendResumes
    QueuedLockResumes
    ShortSleepFires
CHECK_DEADLOCK FALSE
