SPECIFICATION Spec
CONSTANTS
  a1 = a1
  a2 = a2
  NULL = NULL
  Addr <- Cells2
  UserApi <- TwoApis
  PortMayBeTaken = TRUE
  Entry <- AnyEntry
  MaxOps = 2
INVARIANTS
  TeardownInOrder
  ShutdownIsAsked
PROPERTY ZeroEndsProgram
