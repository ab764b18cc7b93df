CONSTANTS
  Two = {h1, h2}
  Session = {"a"}
  Bound = 1
  Room = {"r1", "r2"}
  MaxSeq = 3
  RowCap = 1
  PageSize = 2
  Text = {"t1"}
  NoText = NoText
  MaxConns = 2
  MaxChanges = 2
SPECIFICATION Spec
INVARIANTS
  DrainsAreExact
  MailFindsTheResting
  NamedWasAlerted
  ReadWasRendered
  RoomsAreTrue
SYMMETRY Symmetry
CHECK_DEADLOCK FALSE
