\* A chain of two programs beside an async submission, one injected failure.
CONSTANTS
    j1 = j1
    j2 = j2
    k1 = k1
    s1 = s1
    Job = {j1, j2}
    Maint = Maint
    None = None
    Staging = {b1, b2, b3}
    Transient = {t1, t2, t3}
    Pipe = {p1, p2}
    Slot = {c1, c2}
    LutBuffer = {}
    Key = {}
    Shader = {s1}
    Plan <- OneAndTwoTransients
    Shaders <- OnePass
    ShaderOfPipe <- OneShader
    Modes <- AsyncBesideChain
    Clears <- ClearSlots
    MaxFaults = 1
    IdleCanFail = FALSE
SPECIFICATION Spec
INVARIANTS
    TypeOK
    ExclusiveOwnership
    NothingForgotten
    InFlightStaysOwned
PROPERTIES
    ImplementsExclusiveTickets
\* The context may be dropped, and then nothing happens any more.
CHECK_DEADLOCK FALSE
