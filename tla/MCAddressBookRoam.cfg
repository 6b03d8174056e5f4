SPECIFICATION Spec
CONSTANTS
  Pipes = {p1, p2}
  None = None
  cMaxAddressBookEntries = 2
  cNumBackupAddresses = 2
  Lifetime = 6
  InitLatency = 1
  MaxTime = 6
  MayRoam = {p2}
CHECK_DEADLOCK FALSE
INVARIANTS
  NeverStuck
