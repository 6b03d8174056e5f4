SPECIFICATION WireSpec
CONSTANTS
  None = None
  Nil = Nil
  Pkts = {p1, p2}
  Buffers = {b1, b2}
  MaxWires = 1
  Ciphers = {1, 2}
  Unknown = {3}
  Chunks = 2
  Hashnames = {h1, h2}
  IPs = {i1}
  MaxUpdates = 3
  Ports = {1, 3}
  MaxPort = 3
  Base = 2
  MaxLen = 2
  BufLen = 3
  Writers = {"w1", "w2"}
  Readers = {"r1", "r2"}
  MaxMessages = 2
  Users = {u1, u2}
  DgramAddrs = {a1, a2}
  cAcceptQueue = 1
  MaxDgramConns = 2
  HalfPipeReaders = {r1, r2}
  MaxQueue = 2
  LanIPs = {"i1", "i2"}
  WanIPs = {"x1"}
  ExtPorts = {1, 2}
  Sockets <- NatSockets
  GatewayKinds = {"upnp", "natpmp"}
  GrantsAsked = TRUE
  MaxEvents = 1
  numSends = 2
  MaxResponses = 3
  nAT_TRIES = 1
  Hosts = {h1, h2, h3}
  Chunk = 2
  Ids = {1}
  Addressed = {h1, h2, h3}
  Sizes = {3}
  MaxCalls = 3
  BufSize = 2
  Codes = {200, 404}
  HeadLens = {1, 2}
  MaxWrites = 2
  MaxArgs = 3
  Primes = {3, 7, 11, 19, 23}
  ByteBits = 2
  MaxBytes = 40
  Tests = {"sanity", "net-link", "channel-reliable", "channel-unreliable"}
CHECK_DEADLOCK FALSE
INVARIANTS
  
  NamesAgree
  KnownCanBeCalled
  UsageIsFollowed
  
  
  
  ArrivalsAreHeard

  
