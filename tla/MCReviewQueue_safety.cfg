SPECIFICATION Spec
CONSTANTS
  Jobs = {j1, j2}
  Workers = {w1, w2, w3}
  NoWorker = NoWorker
  NoJob = NoJob
  Replicas = 2
  MaxAttempts = 3
  Lease = 3
  BaseBackoff = 1
  MaxBackoff = 1
  MaxLateness = 3
  MaxFaults = 1
  MaxClaims = 4
SYMMETRY Symmetry
INVARIANTS
  TypeOK
  AttemptFencesWorkers
  RetriesAreAccounted
PROPERTIES
  EndedRowsAreFinal
  OnlyLatestAttemptDecides
  ImplementsLifecycle
