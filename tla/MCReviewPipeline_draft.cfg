SPECIFICATION Spec
CONSTANTS
  Jobs = {j1, j2}
  Events = {"draft", "ready"}
  Faults = {}
  MaxAttempts = 2
  MaxTries = 2
  MaxKinds = 1
CHECK_DEADLOCK FALSE
INVARIANTS
  DraftIsResumed
