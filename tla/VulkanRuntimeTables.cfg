\* Two threads, async and sync, sharing one lookup table.
CONSTANTS
    j1 = j1
    j2 = j2
    k1 = k1
    s1 = s1
    Job = {j1, j2}
    Maint = Maint
    None = None
    Staging = {b1, b2}
    Transient = {}
    Pipe = {p1, p2, p3}
    Slot = {c1, c2}
    LutBuffer = {l1, l2, l3}
    Key = {k1}
    Shader = {s1}
    Plan <- OneTable
    Shaders <- OnePass
    ShaderOfPipe <- OneShader
    Modes <- AsyncOrSync
    Clears <- ClearTables
    MaxFaults = 0
    IdleCanFail = FALSE
SPECIFICATION Spec
INVARIANTS
    CachedTablesUploaded
    TablesReadyForExecution
\* The context may be dropped, and then nothing happens any more.
CHECK_DEADLOCK FALSE
