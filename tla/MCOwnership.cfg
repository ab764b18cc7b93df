CONSTANTS
  Adapter = {a1, a2}
  NoAdapter = NoAdapter
  Child = {c1, c2}
  MaxAttempts = 2
  MaxRecorded = 1
SYMMETRY Symmetry
SPECIFICATION Spec
INVARIANTS
  WorkersAreAlone
  FilesAreTrue
CHECK_DEADLOCK FALSE
