SPECIFICATION Spec
CONSTANTS
  NumBlocks = 1
  WarpsPerBlock = 1
  LanesPerWarp = 3
  MaxBlocks = 1
  OversizeBlock = 0
  Block <- MCBlock
  Warp <- MCWarp
  BlockOf <- MCBlockOf
  WarpId <- MCWarpId
  Priority <- MCWarpId
  Lanes <- MCLanes
  Demand <- MCDemand
  Limit <- MCLimit
  Kernels <- Divergent
  Leftovers <- OnlyFresh
  Policies = {"Greedy"}
  ActiveSetSize = 4
  Latencies = {1, 2}
  MayFaultInMemory = FALSE
  StarvationLimit = 3
  MaxCycles = 34
  SizeT = 64
INVARIANTS
  Reconverges
PROPERTIES
  LanesFollowProgram
