SPECIFICATION FairSpec
CONSTANTS
  Jobs = {j1}
  Workers = {w1, w2, w3}
  NoWorker = NoWorker
  NoJob = NoJob
  Replicas = 2
  MaxAttempts = 2
  Lease = 3
  BaseBackoff = 1
  MaxBackoff = 2
  MaxLateness = 2
  MaxFaults = 2
  MaxClaims = 5
INVARIANTS
  LeaseIsExclusive
  ExtraAttemptsComeFromFaults
PROPERTIES
  EnqueuedJobEnds
