CONSTANTS
  Repo = {"outer", "nested"}
  Place = {"x", "n", "away"}
  NoRepo = "no repository"
  Session = {s1, s2}
  Label = {"w/s-1", s1}
  Short = {"s-1"}
  Slug = {s1}
  Legacy = {"w/s-1"}
  Operator = {"o1"}
  Names = {"a", "b"}
  Entry <- MCEntry
  LinkTarget <- MCLinkTarget
  MaxPath = 3
  MaxLinks = 6
  Depth = 2
  Redirects = {"present"}
  MaxChanges = 2
SPECIFICATION Spec
INVARIANTS
  VerdictIsALedgers
  PausesAreKept
  EveryLandingIsAsked
  VerdictIsProven
CHECK_DEADLOCK FALSE
