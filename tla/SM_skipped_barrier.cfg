SPECIFICATION Spec
CONSTANTS
  NumBlocks = 1
  WarpsPerBlock = 2
  LanesPerWarp = 1
  MaxBlocks = 1
  OversizeBlock = 0
  Block <- MCBlock
  Warp <- MCWarp
  BlockOf <- MCBlockOf
  WarpId <- MCWarpId
  Priority <- MCWarpId
  Lanes <- MCLanes
  Demand <- MCDemand
  Limit <- MCLimit
  Kernels <- SkippedBarrier
  Leftovers <- OnlyFresh
  Policies = {"RR"}
  ActiveSetSize = 4
  Latencies = {1, 3}
  MayFaultInMemory = FALSE
  StarvationLimit = 3
  MaxCycles = 14
  SizeT = 64
INVARIANTS
  NoSilentDeadlock
