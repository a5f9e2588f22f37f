SPECIFICATION Spec
CONSTANTS
  Timeouts = {0, 1}
  WatchdogTime = 2
  ReplyTime = 1
  Counts = 3
  MaxBlocks = 2
  Pieces = 3
  Slots = 3
  MaxPages = 2
  MaxElapse = 2
INVARIANTS Coherent ToldWhole HeardWhole
PROPERTIES NetworkReleased ImplementsExchange
CHECK_DEADLOCK FALSE
