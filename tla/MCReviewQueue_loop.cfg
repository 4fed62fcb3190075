SPECIFICATION Spec
CONSTANTS
  Jobs = {j1}
  Workers = {w1}
  NoWorker = NoWorker
  NoJob = NoJob
  Replicas = 1
  MaxAttempts = 2
  Lease = 3
  BaseBackoff = 1
  MaxBackoff = 2
  MaxLateness = 0
  MaxFaults = 1
  MaxClaims = 3
INVARIANTS
  LoopRunsUntilShutdown
