CONSTANTS
  Wake = {m1, m2}
  PromptId = {i1}
  NoTurn = NoTurn
  MaxEvents = 4
  MaxLives = 3
SYMMETRY Symmetry
SPECIFICATION Spec
INVARIANTS
  NothingTwice
  ReceiptsAreTrue
  ResumeOnlyFinished
CHECK_DEADLOCK FALSE
