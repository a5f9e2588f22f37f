SPECIFICATION Spec
CONSTANTS
  Superframe = 4
  JitterSlots = 4
  JitterTime = 2
  Timeouts = {0, 1}
  WatchdogTime = 2
  PacketTime = 1
  LastNumber = 4
  MaxBlocks = 2
  MaxElapse = 2
INVARIANTS LinkControlKnown SuperframesWhole StreamHasHeader ActivityShown
PROPERTY SlotReleased
CHECK_DEADLOCK FALSE
