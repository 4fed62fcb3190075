SPECIFICATION FairSpec
CONSTANTS
  Calls = {c1, c2}
  Nobody = Nobody
  Modes = {"filesystem", "local"}
  Commands = 2
  Timeout = 4
  CommandTimeout = 2
  Margin = 2
  MaxTime = 5
  MaxCrashes = 1
CHECK_DEADLOCK FALSE
INVARIANTS
  AnsweredOnce
  CommandsHaveAWaiter
  TimeoutHasACause
PROPERTIES
  EveryCallEnds
