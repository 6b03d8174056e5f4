SPECIFICATION EndpointSpec
CONSTANTS
  None = None
  Subs = {s1, s2}
  MaxArrivals = 4
  UserModules = {"m"}
  MaxOptions = 2
  NilOptions = 2
  Addresses = {"a1", "a2"}
  Unreadable = {"a2"}
  Exchanges = {x}
  Updates = {u1, u2}
  MaxChanges = 1
  PipeWriters = {w1, w2}
  PipeClosers = {k1, k2}
  MaxConns = 3
  Writers = {w1, w2}
  Cap = 1
  MaxOpen = 2
  MaxWrites = 1
CHECK_DEADLOCK FALSE
INVARIANTS
  NoSendOnClosed
  
  WorkingIsRead
PROPERTIES
  
  PipeCloseReturns
  
  InprocDrains
