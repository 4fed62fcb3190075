SPECIFICATION Spec
CONSTANTS
  a = a
  b = b
  Names = {a}
  NoName = NoName
  MaxFiles = 1
  MaxLines = 4
  MaxOdd = 0
  Gaps = {1}
  Stray = {1}
  Asked <- AskedBudgets
  DefaultFiles = 2
  DefaultLines = 2
  DefaultTotal = 3
CHECK_DEADLOCK FALSE
INVARIANTS
  CommentsLandOnTheirLine
