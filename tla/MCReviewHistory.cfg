SPECIFICATION Spec
CONSTANTS
  Commits = {c1, c2}
  Jobs = {j1, j2, j3}
  Nobody = Nobody
  Keys = {k1}
  MaxTwins = 1
  Grave = {k1}
  MaxReruns = 2
SYMMETRY Symmetry
CHECK_DEADLOCK FALSE
INVARIANTS
  TypeOK
  VersionsAreGapless
  DismissalsAreKept
  LifecycleIsTrue


  
