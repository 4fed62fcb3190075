SPECIFICATION Spec
CONSTANTS
  Jobs = {j1, j2}
  Events = {"open", "draft", "ready"}
  Faults = {"analysis", "github", "database", "crash", "overlap"}
  MaxAttempts = 2
  MaxTries = 2
  MaxKinds = 1
CHECK_DEADLOCK FALSE
SYMMETRY Symmetry
INVARIANTS
  TypeOK
  FirstAttemptsShareNothing
  ReviewSettles
  CrashesCostNothing
PROPERTIES
  OutcomeIsKept
