\* Liveness with one injected failure.
CONSTANTS
    j1 = j1
    j2 = j2
    k1 = k1
    s1 = s1
    Job = {j1, j2}
    Maint = Maint
    None = None
    Staging = {b1, b2}
    Transient = {t1, t2}
    Pipe = {p1, p2}
    Slot = {c1, c2}
    LutBuffer = {}
    Key = {}
    Shader = {s1}
    Plan <- OneTransient
    Shaders <- OnePass
    ShaderOfPipe <- OneShader
    Modes <- AsyncBesideSync
    Clears <- ClearTransients
    MaxFaults = 1
    IdleCanFail = FALSE
SPECIFICATION FairSpec
PROPERTIES
    TicketsFinish
    LockReleased
\* The context may be dropped, and then nothing happens any more.
CHECK_DEADLOCK FALSE
