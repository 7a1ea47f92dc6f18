SPECIFICATION Spec
CONSTANTS
  SizeT = 1000
  SharedBase = 268435456
  Jobs <- PartialJobs
INVARIANT
  MatchesReference
