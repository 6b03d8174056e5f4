\* A window of two packets; one packet opens the channel and three come back.
\* The server resends and the client may break.  The loops run over every read
\* buffer of a window of five packets.
CONSTANTS
  Data = {d1}
  NoData = none
  cReadBufferSize = 2
  cWriteBufferSize = 2
  earlyAdHocAck = 2
  InlineAckPeriod = 2
  ClientSeqs = 1
  ServerSeqs = 3
  MayBreak = {"client"}
  MayResend = {"server"}
  MayLose = {}
  ListWindow = 5
  SeqModulus = 16
  MaxRead = 2
SPECIFICATION PartsSpec
CHECK_DEADLOCK FALSE
INVARIANTS
  TypeOK
  InOrder
  UnreadIsRetained
  NeverRefusedForRoom
  LoopsBuildTheList
PROPERTIES
  ImplementsStream
