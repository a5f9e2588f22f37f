SPECIFICATION Spec
CONSTANTS
  T <- MCT
  Zero = 0
  Length = 5
  MaxCall = 5
PROPERTY ImplementsFifo
