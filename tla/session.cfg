SPECIFICATION SystemSpec
CONSTANTS
  a1 = a1
  a2 = a2
  a3 = a3
  a4 = a4
  b1 = b1
  b2 = b2
  r1 = r1
  r2 = r2
  NULL = NULL
  Registrations <- TwoMethods
  Addr <- Cells4
  Rpc <- Calls2
  CallApi <- All
  CAddr <- ClientCells2
  UserApi <- Served1Unserved1
  OtherApi <- Other
SYMMETRY Symmetric
INVARIANTS
  LinkExact
  UnservedNeverOk
  AbortOnlyAfterDeath
