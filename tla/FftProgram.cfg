CONSTANTS
  Q = 3359
  Root <- MCRoot
  Cases <- MCCases
  Resident = 2
SPECIFICATION Spec
CHECK_DEADLOCK FALSE
INVARIANTS
  TypeOK
  OutputIsTransform
  NothingFromUnwritten
  WorkgroupsIndependent
  OutputsFullyOverwritten
