SPECIFICATION Spec
CONSTANTS
  a = a
  b = b
  Names = {a, b}
  NoName = NoName
  MaxFiles = 2
  MaxLines = 4
  MaxOdd = 2
  Gaps = {1}
  Stray <- StrayNumbers
  Asked <- AskedBudgets
  DefaultFiles = 2
  DefaultLines = 2
  DefaultTotal = 3
SYMMETRY Symmetry
CHECK_DEADLOCK FALSE
INVARIANTS
  TypeOK
  
  CommentsAreDisplacedByHunks
  BudgetBoundsTheChunks
  OmissionsAreTold
