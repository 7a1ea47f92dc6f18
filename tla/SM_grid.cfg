SPECIFICATION FairSpec
CONSTANTS
  NumBlocks = 3
  WarpsPerBlock = 2
  LanesPerWarp = 1
  MaxBlocks = 2
  OversizeBlock = 0
  Block <- MCBlock
  Warp <- MCWarp
  BlockOf <- MCBlockOf
  WarpId <- MCWarpId
  Priority <- MCWarpId
  Lanes <- MCLanes
  Demand <- MCDemand
  Limit <- MCLimit
  Kernels <- MatchedBarriers
  Leftovers <- MCLeftovers
  Policies = {"RR", "Greedy", "Priority", "OldestFirst", "GTO", "TwoLevel"}
  ActiveSetSize = 4
  Latencies = {1, 3}
  MayFaultInMemory = FALSE
  StarvationLimit = 3
  MaxCycles = 1000
  SizeT = 64
INVARIANTS
  TypeOK
  BarrierAgreement
  NoWorkDropped
  SelectsWhenReady
  NoSilentDeadlock
  RoundRobinBound
  WaitsNotOvercounted
PROPERTIES
  Terminates
  ImplementsBarrier
