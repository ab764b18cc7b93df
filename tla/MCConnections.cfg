CONSTANTS
  Session = {a}
  Cap = 1
  MaxEntries = 2
  MaxConns = 3
  MaxFails = 2
  Caller = {c1, c2}
  MaxQueries = 4
  Use = {u1, u2}
  Path = {"p", "q", "s"}
  FewPaths = {"p", "q"}
  MaxPending = 2
  BatchMax = 1
  CorrelationMax = 1
  MaxTurns = 1
SPECIFICATION Spec
INVARIANTS
  ConnectionsAreKnown
  AnswerIsOwn
  RenewalsAreTrue
PROPERTIES
  ComesOnline
  LateReplyResumes
  PendingIsApplied
CHECK_DEADLOCK FALSE
