SPECIFICATION Spec
CONSTANTS
  Requests = {r1, r2}
  Kinds = {"reject", "feedback"}
  Findings = {f1}
  Faults = {}
  Nobody = Nobody
CHECK_DEADLOCK FALSE
INVARIANTS
  AckedFeedbackIsKept
