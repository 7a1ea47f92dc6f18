SPECIFICATION FairSpec
CONSTANTS
  SizeT = 1000
  SharedBase = 268435456
  Jobs <- MCJobs
INVARIANTS
  MatchesReference
  NoRaces
  NoFault
PROPERTY
  Terminates
