SPECIFICATION Spec
CONSTANTS
  Outcomes <- MCOutcomes
  Studies <- MCStudies
INVARIANTS
  SweepIsProduct
  AdmitsAsPredicted
  LimitingFactorLimits
  EvidenceBacksDiagnosis
  OccupancyClaimEarned
  BestIsFastest
