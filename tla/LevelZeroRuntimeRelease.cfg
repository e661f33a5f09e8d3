\* A release build: the arguments of debug_assert! are not evaluated.
CONSTANTS
    j1 = j1
    j2 = j2
    k1 = k1
    s1 = s1
    s2 = s2
    b1 = b1
    b2 = b2
    Job = {j1, j2}
    Maint = Maint
    None = None
    Device = {d1, d2, d3, d4}
    Host = {h1, h2, h3, h4}
    Queue = {q1, q2}
    List = {l1, l2}
    Kernel = {x1, x2, x3}
    Module = {m1, m2}
    Key = {k1}
    Source = {s1, s2}
    Binary <- TwoBinaries
    Plan <- TableAndDevice
    Shaders <- OneAndTwo
    MaxModules = 1
    MaxKernels = 2
    MaxLists = 1
    DebugAssertions = FALSE
    MaxFaults = 0
SPECIFICATION Spec
INVARIANT KernelsPooled
\* The context may be dropped, and then nothing happens any more.
CHECK_DEADLOCK FALSE
