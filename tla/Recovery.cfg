SPECIFICATION Both
CONSTANTS
  N = 3
  OldRing = {1, 2, 3}
  Pasts <- MCPasts
  Seg <- MCSeg
  MAX_REPS = 25
  Starts <- MCStarts
  MaxForms = 2
  MaxAir = 1
  MaxTimeouts = 4
INVARIANTS ExchangeSound ExtendedVirtualSynchrony SafeReached SearchSound ListedOnce
PROPERTIES ExchangeEnds
CHECK_DEADLOCK FALSE
