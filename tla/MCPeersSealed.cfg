\* Two goroutines of each side share a line of CS1a.
SPECIFICATION SealedSpec
CONSTANTS
  Pipes = {p1, p2, p3}
  None = None
  Unset = Unset
  cMaxAddressBookEntries = 2
  cNumBackupAddresses = 1
  Lifetime = 1
  InitLatency = 1
  MaxTime = 4
  MayRoam = {}
  MaxSeconds = 2
  HighSends = 2
  LowSends = 1
  HighIncarnations = 1
  LowIncarnations = 2
  Workers = {w1, w2}
  Workers1a = {w1, w2}
  Nonces = {n1, n2}
  AStates = 1
  BStates = 1
  MaxPackets = 2
  MaxPackets1a = 2
  Readers = {r1, r2}
  Accepters = {a1, a2}
  Ids = {i1}
  maxBacklogSize = 1
  MaxChannels = 3
  Peers = {p1, p2}
  MaxExchanges = 3
  MaxLines = 2
  A = A
  B = B
  MaxBridgeConns = 2
  MaxEndings = 2
  OpenExchanges = {x1, x2}
  High = {x1}
  IdLimit = 4
  Types = {t1}
  MaxHooks = 2
  MaxOpened = 3
  Callers = {c1, c2}
  Connects = {h1, h2}
  KeyIds = {k1}
  MaxIntroductions = 2
CHECK_DEADLOCK FALSE
INVARIANT SealedPacketsVerify
