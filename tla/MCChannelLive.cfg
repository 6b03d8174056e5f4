\* Both sides close at once over a network that loses packets; the client may
\* break.
CONSTANTS
  Data = {}
  NoData = none
  cReadBufferSize = 2
  cWriteBufferSize = 1
  earlyAdHocAck = 2
  InlineAckPeriod = 3
  ClientSeqs = 1
  ServerSeqs = 1
  MayBreak = {"client"}
  MayResend = {"client", "server"}
  MayLose = {"client", "server"}
SPECIFICATION FairSpec
PROPERTIES OneCloseReturns EventuallyAcked
