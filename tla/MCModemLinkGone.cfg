SPECIFICATION Spec
CONSTANTS
  Modes <- MCModes
  FMParameters = {1}
  Protocols = {1, 2}
  MaxResponses = 2
  Attempts = 2
  SilenceTime = 2
  MaxElapse = 3
  MaxOutages = 1
  MaxRefusals = 1
  MaxOthers = 1
  MaxReconfigures = 1
  MaxBusyPorts = 1
  MaxStalls = 1
  MaxBadWrites = 1
  MaxTroubles = 3
  MaxTransit = 3
INVARIANT PortThere
CHECK_DEADLOCK FALSE
