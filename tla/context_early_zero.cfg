SPECIFICATION Spec
CONSTANTS
  a1 = a1
  a2 = a2
  NULL = NULL
  Addr <- Cells2
  UserApi <- TwoApis
  PortMayBeTaken = FALSE
  Entry <- Numbers
  MaxOps = 1
INVARIANT ShutdownNeverCrashes
