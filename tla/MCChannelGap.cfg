\* A packet that fills a gap of the read buffer.
CONSTANTS
  Data = {d1}
  NoData = none
  cReadBufferSize = 2
  cWriteBufferSize = 2
  earlyAdHocAck = 1
  InlineAckPeriod = 2
  ClientSeqs = 3
  ServerSeqs = 1
  MayBreak = {}
  MayResend = {}
  MayLose = {}
SPECIFICATION Spec
PROPERTY GapIsFilled
