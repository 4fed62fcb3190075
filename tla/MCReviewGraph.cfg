SPECIFICATION Spec
CONSTANTS
  Reviews = {t1, t2}
  Runs = {r1, r2, r3}
  NoRun = NoRun
  Kinds = {"analysis", "rerun", "approval"}
  Failing <- OneFails
  Grades = {"none", "low", "high"}
  Overlap = TRUE
  MaxCrashes = 1
SYMMETRY Symmetry
CHECK_DEADLOCK FALSE
INVARIANTS
  IncompleteIsNotApproved
  OldErrorsOnlyHarden
  DecidesWhatWasShown
  MemoryIsExact
