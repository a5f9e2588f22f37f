SPECIFICATION Spec
CONSTANTS
  Threads <- MCThreads
  Protos <- MCFour
  Duplex = TRUE
  Beacons = TRUE
  RFHang = 2
  NetHang = 1
  CWIdTime = 4
  TXHang = 3
  BeaconTime = 2
  MaxTick = 3
INVARIANTS Listening IdentificationDue CarrierTimed LockoutHonoured
PROPERTY NoHandover
