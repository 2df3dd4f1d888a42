SPECIFICATION Spec
CONSTANTS
  a1 = a1
  a2 = a2
  a3 = a3
  a4 = a4
  a5 = a5
  r1 = r1
  r2 = r2
  NULL = NULL
  Registrations <- TwoMethods
  Addr <- Cells4
  Rpc <- Calls2
  CallApi <- SomeApis
INVARIANTS
  TypeOK
  TagListExact
  OneAcceptorPerMethod
  OneOperationPerObject
  OneObjectPerCall
PROPERTY EveryCallAnswered
