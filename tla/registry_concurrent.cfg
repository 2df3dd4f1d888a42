SPECIFICATION Spec
CONSTANTS
  h1 = h1
  h2 = h2
  ip1 = ip1
  ip2 = ip2
  p1 = p1
  p2 = p2
  NULL = NULL
  Torn = Torn
  TxIp <- TwoIps
  ClockSteps <- Seconds
  Handler <- TwoHandlers
  Peer <- TwoPeers
  PortKind <- AllPorts
  BodyKind <- GoodBodies
  ClockMayGoBack = TRUE
  AgeCap = 11
  MaxEntries = 2
SYMMETRY Symmetry
INVARIANT TypeOK
PROPERTIES
  CriticalSectionStable
  RmIsFinal
