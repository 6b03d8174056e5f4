SPECIFICATION ExchangeFairSpec
CONSTANTS
  Local = {c1}
  Remote = {}
  MayWrite = {c1}
  Dialer = Dialer
CHECK_DEADLOCK FALSE
PROPERTIES
  ExpireAlwaysFinishes
