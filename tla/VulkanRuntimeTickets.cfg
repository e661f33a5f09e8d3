\* Two threads, async and sync, a program that dispatches one shader twice.
CONSTANTS
    j1 = j1
    j2 = j2
    k1 = k1
    s1 = s1
    Job = {j1, j2}
    Maint = Maint
    None = None
    Staging = {b1, b2}
    Transient = {t1, t2}
    Pipe = {p1, p2, p3, p4}
    Slot = {c1, c2}
    LutBuffer = {}
    Key = {}
    Shader = {s1}
    Plan <- OneTransient
    Shaders <- OneTwiceOneOnce
    ShaderOfPipe <- OneShader
    Modes <- AsyncOrSync
    Clears <- ClearRuntimeObjects
    MaxFaults = 0
    IdleCanFail = FALSE
SPECIFICATION Spec
INVARIANTS
    InFlightStaysOwned
    NothingOutlivesDevice
PROPERTIES
    DescriptorsStable
\* The context may be dropped, and then nothing happens any more.
CHECK_DEADLOCK FALSE
