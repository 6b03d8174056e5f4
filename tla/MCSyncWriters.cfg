SPECIFICATION FairSpec
CONSTANTS
  Writers = {w1}
  Readers = {}
  Closers = {c1}
  Failers = {}
  cReadBufferSize = 1
  cWriteBufferSize = 1
  MaxReceived = 1
  Apps = {"plain"}
  DeadlineCalls = {}
  ErrorCalls = {}
CHECK_DEADLOCK FALSE
PROPERTIES
  BrokenReleasesWriters
