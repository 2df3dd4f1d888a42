SPECIFICATION Spec
CONSTANTS
  h1 = h1
  h2 = h2
  ip1 = ip1
  ip2 = ip2
  p1 = p1
  p2 = p2
  NULL = NULL
  Torn = Torn
  TxIp <- TwoIps
  ClockSteps <- LongSeconds
  Handler <- OneHandler
  Peer <- OnePeer
  PortKind <- GoodPorts
  BodyKind <- GoodBodies
  ClockMayGoBack = FALSE
  AgeCap = 301
  MaxEntries = 2
PROPERTY KeptForStorageBoot
