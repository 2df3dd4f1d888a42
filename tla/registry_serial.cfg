SPECIFICATION Spec
CONSTANTS
  h1 = h1
  h2 = h2
  ip1 = ip1
  ip2 = ip2
  p1 = p1
  p2 = p2
  NULL = NULL
  Torn = Torn
  TxIp <- TwoIps
  ClockSteps <- Seconds
  Handler <- OneHandler
  Peer <- TwoPeers
  PortKind <- AllPorts
  BodyKind <- AllBodies
  ClockMayGoBack = FALSE
  AgeCap = 11
  MaxEntries = 3
INVARIANTS
  NoDuplicateTx
  EveryEntryTimed
  AcceptedIsListed
PROPERTIES
  EveryRequestSettles
  ImplementsTable
