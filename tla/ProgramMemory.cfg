\* Programs of four passes over three scratch resources or two tables.
CONSTANT Programs <- UniformPrograms
SPECIFICATION Spec
INVARIANTS
    TypeOK
    ReadsAreLogical
    OutputIsLogical
    PassesIsolated
    AllocationsFit
