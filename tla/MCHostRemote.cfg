SPECIFICATION RemoteSpec
CONSTANTS
  Threads <- MCThreads
  Protos <- MCOne
  Duplex = TRUE
  Beacons = FALSE
  RFHang = 1
  NetHang = 1
  CWIdTime = 0
  TXHang = 3
  BeaconTime = 1
  MaxTick = 2
  RemoteTimeouts = {1}
INVARIANT CarrierTimed
