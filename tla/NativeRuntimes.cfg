CONSTANTS
    j1 = j1
    j2 = j2
    p1 = p1
    p2 = p2
    k1 = k1
    k2 = k2
    s1 = s1
    s2 = s2
    Job = {j1, j2}
    Maint = Maint
    None = None
    Device = {d1, d2, d3, d4, d5, d6, d7, d8, d9, d10, d11}
    Queue = {q1, q2, q3, q4}
    Module = {m1, m2, m3, m4, m5, m6, m7}
    Kernel = {x1, x2, x3, x4, x5, x6, x7}
    Key = {k1, k2}
    Source = {s1, s2}
    Program = {p1, p2}
    Entries <- TableFirst
    Shaders <- OneAndTwo
    Chains <- TicketAndChain
    Archive <- OneEntry
    MaxFaults = 1
    MaxModules = 1
    MaxCodes = 2
    MaxCodeBytes = 2
    CodeBytes <- SourceAndCode
    MaxPipelines = 1
    MaxBuffers = 2
    MaxTables = 1
    MaxTableBytes = 3
    TableBytes <- ThreeTimes
SPECIFICATION Spec
VIEW UpToHandles
INVARIANTS
    TypeOK
    ReferencesKept
    UsedHandlesLive
    ReturnsOwnResult
    ActiveCounts
    CachesAccounted
PROPERTIES
    ImplementsExclusiveTickets
CHECK_DEADLOCK FALSE
