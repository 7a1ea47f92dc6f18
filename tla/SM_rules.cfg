SPECIFICATION Spec
CONSTANTS
  NumBlocks = 2
  WarpsPerBlock = 3
  LanesPerWarp = 2
  MaxBlocks = 1
  OversizeBlock = 2
  Block <- MCBlock
  Warp <- MCWarp
  BlockOf <- MCBlockOf
  WarpId <- MCWarpId
  Priority <- MCWarpId
  Lanes <- MCLanes
  Demand <- MCDemand
  Limit <- MCLimit
  Kernels <- IllFormedOrNone
  Leftovers <- MCLeftovers
  Policies = {"RR", "Greedy", "Priority", "OldestFirst", "GTO", "TwoLevel"}
  ActiveSetSize = 2
  Latencies = {2, 4}
  MayFaultInMemory = TRUE
  StarvationLimit = 1
  MaxCycles = 26
  SizeT = 64
INVARIANTS
  WaitConservation
  LatencyPaid
