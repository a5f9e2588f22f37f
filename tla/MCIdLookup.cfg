SPECIFICATION Spec
CONSTANTS
  ReloadTimes = {0, 2}
  LastFile = 4
  Lines <- MCLines
  Missing <- MCMissing
INVARIANT FindsWhole
PROPERTIES NeverForgets RequestServed StopReturns
CHECK_DEADLOCK FALSE
