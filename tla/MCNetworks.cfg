SPECIFICATION Spec
CONSTANTS
  Ids = {1, 2, 3}
  Encrypted = {3}
  Data = {2}
  Capacity = 5
  Pieces = 2
  PollTime = 1
  HangTime = 2
  WatchdogTime = 1
  MaxElapse = 1
INVARIANTS OneTransmission ToldUnderOneId Drained
PROPERTY NeverStuck
CHECK_DEADLOCK FALSE
