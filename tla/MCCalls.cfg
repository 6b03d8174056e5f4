\* One channel of each side of an exchange; the one the application opened transmits.
\* Two writers, two readers and a closer on one side of a channel with buffers of one
\* packet; or a writer and two readers with deadlines; or one of each and a call of Error.
SPECIFICATION CallsSpec
CONSTANTS
  Local = {c1}
  Remote = {c2}
  MayWrite = {c1}
  Dialer = Dialer
  Writers = {w1, w2}
  Readers = {r1, r2}
  Closers = {k1}
  Failers = {e1}
  cReadBufferSize = 1
  cWriteBufferSize = 1
  MaxReceived = 2
  Apps = {"plain", "deadlines", "errors"}
  DeadlineCalls = {w1, r1, r2}
  ErrorCalls = {w1, r1, k1, e1}
CHECK_DEADLOCK FALSE
INVARIANTS
  Supervised
  NoLostWakeup
  DeadlineGuardsChannel
PROPERTIES
  CallersReturn
  ExpireFinishes
  BrokenReleasesReaders
  CloseReturnsInTime
