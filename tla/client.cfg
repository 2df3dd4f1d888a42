SPECIFICATION Spec
CONSTANTS
  a1 = a1
  a2 = a2
  a3 = a3
  NULL = NULL
  Addr <- Cells3
  UserApi <- TwoApis
INVARIANTS
  TypeOK
  TagListExact
  PopFindsEntry
  NoDanglingCall
  NothingLeftToSweep
  NoLeak
PROPERTY ImplementsLedger
