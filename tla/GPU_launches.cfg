SPECIFICATION FairSpec
CONSTANTS
  Sizes <- MixedSizes
  Room = 2
  NumSMs = 2
  GridSizes = {0, 2, 5, 6}
  MayThrow = TRUE
  MaxLaunches = 2
  Block <- MCBlock
  Demand <- MCDemand
  Limit <- MCLimit
INVARIANTS
  OneHomePerBlock
  AccountsBalance
  NoBlockDropped
  ReturnsWhenGridDone
  NoIdleSmWhilePending
  ImpossibleIsImpossible
PROPERTIES
  Terminates
