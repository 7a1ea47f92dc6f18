SPECIFICATION Spec
CONSTANTS
  NumBlocks = 1
  WarpsPerBlock = 3
  LanesPerWarp = 1
  MaxBlocks = 1
  OversizeBlock = 0
  Block <- MCBlock
  Warp <- MCWarp
  BlockOf <- MCBlockOf
  WarpId <- MCWarpId
  Priority <- MCWarpId
  Lanes <- MCLanes
  Demand <- MCDemand
  Limit <- MCLimit
  Kernels <- MatchedBarriers
  Leftovers <- OnlyFresh
  Policies = {"TwoLevel"}
  ActiveSetSize = 2
  Latencies = {1, 3}
  MayFaultInMemory = FALSE
  StarvationLimit = 3
  MaxCycles = 20
  SizeT = 64
INVARIANTS
  NoSilentDeadlock
