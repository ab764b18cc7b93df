CONSTANTS
  Session = {a, b}
  Waiter = {a}
  ClaimId = {c1, c2}
  NoClaim = NoClaim
  NoSession = NoSession
  NoSlug = NoSlug
  Slug <- MCSlug
  Path <- MCPath
  Request <- MCRequest
  TTL = 1
  ForceAfter = 1
  MaxRegistrations = 2
  MaxTime = 1
  Until = {1}
  MaxDeclared = 2
  MaxSent = 1
SYMMETRY Symmetry
SPECIFICATION WaitSpec
PROPERTIES
  VerdictStands
