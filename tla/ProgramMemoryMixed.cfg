\* A double-double program whose padded input is scratch of another scalar.
CONSTANT Programs <- PaddedDoubleDouble
SPECIFICATION Spec
INVARIANT AllocationsFit
