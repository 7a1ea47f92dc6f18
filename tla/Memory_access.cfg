SPECIFICATION Spec
CONSTANTS
  NumSMs = 2
  L1 <- MCL1
  L2 <- MCL2
  SharedLatency = 1
  L1Latency = 2
  L2Latency = 5
  GlobalLatency = 11
  WritebackLatency = 7
  GlobalSize = 5
  SharedSize = 18
  SharedBase = 16
  NumBanks = 2
  Request <- Requests
  MaxInstructions = 2
INVARIANTS
  MemoryMatchesLanes
  L2SeesOnlyMisses
  AmatIsExact
  TransactionsMinimal
  ConflictsAreExtraRounds
