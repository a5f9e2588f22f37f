SPECIFICATION Spec
CONSTANTS
  Signals <- TermHup
  Messages <- All
  Gateways <- Dmr
  Failing <- MayFail
  MaxSignals = 2
  MaxRuns = 3
INVARIANTS CommandFindsModem
PROPERTIES TermExits ReloadServed
CHECK_DEADLOCK FALSE
