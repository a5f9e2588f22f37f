SPECIFICATION Spec
CONSTANTS
  ShortMax = 5
  FrameStart = 9
  Version = 0
  OtherTypes <- MCTypes
  Reply <- MCReply
  Links <- MCLinks
  MaxFrames = 4
  MaxReopens = 1
  Modes <- MCModes
  FMParameters = {1}
  Protocols = {1, 2}
  MaxResponses = 2
  Attempts = 2
  SilenceTime = 2
  MaxElapse = 3
  MaxOutages = 1
  MaxRefusals = 1
  MaxOthers = 1
  MaxReconfigures = 1
  MaxBusyPorts = 1
  MaxStalls = 1
  MaxBadWrites = 1
  MaxTroubles = 3
  MaxTransit = 3
  Fits <- MCFits
  Length <- MCLength
  Payload = 30
  Room <- MCRoom
INVARIANTS   ModesAgree FramesKept FrameFits
PROPERTIES SilenceNoticed ComesBack AllFed
CHECK_DEADLOCK FALSE
