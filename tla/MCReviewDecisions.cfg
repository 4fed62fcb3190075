SPECIFICATION FairSpec
CONSTANTS
  Requests = {r1, r2}
  Kinds = {"approve", "reject", "request_changes", "post_final", "rerun", "feedback"}
  Findings = {f1, f2}
  Faults = {"graph", "github", "database", "crash"}
  Nobody = Nobody
CHECK_DEADLOCK FALSE
INVARIANTS
  TypeOK
  ApprovalIsExclusive
  FeedbackIsSerialised
  PublishedOnce
  PublicationIsReal
  CheckAgrees
PROPERTIES
  DecidersRespectEachOther
  FinalizingEnds
