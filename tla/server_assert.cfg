SPECIFICATION Spec
CONSTANTS
  a1 = a1
  a2 = a2
  a3 = a3
  a4 = a4
  a5 = a5
  r1 = r1
  r2 = r2
  NULL = NULL
  Registrations <- FourMethods
  Addr <- Cells5
  Rpc <- Calls1
  CallApi <- OneApi
INVARIANT AssertOkHolds
