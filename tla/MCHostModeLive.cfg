SPECIFICATION FairSpec
CONSTANTS
  Threads <- MCThreads
  Protos <- MCTwo
  Duplex = TRUE
  Beacons = TRUE
  RFHang = 2
  NetHang = 1
  CWIdTime = 4
  TXHang = 2
  BeaconTime = 2
  MaxTick = 1
PROPERTIES ReturnsToIdle Identifies
