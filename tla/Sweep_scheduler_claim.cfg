SPECIFICATION Spec
CONSTANTS
  Outcomes <- MCOutcomes
  Studies <- AnalysisRuns
INVARIANT
  SchedulerClaimIsolated
