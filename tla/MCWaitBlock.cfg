CONSTANTS
  Session = {a, b, d}
  Waiter = {a}
  ClaimId = {c1, c2}
  Other = d
  OtherId = c2
  NoClaim = NoClaim
  NoSession = NoSession
  NoSlug = NoSlug
  Slug <- MCSlug
  Path <- MCPath
  Request <- MCRequest
  TTL = 1
  ForceAfter = 1
  MaxRegistrations = 2
  MaxTime = 1
  Until = {1}
  MaxDeclared = 2
  MaxSent = 2
SPECIFICATION PartSpec
INVARIANTS
  WaitsAreOwn
PROPERTIES
  ExpiresJustly
  ExitsAreTrue
  BlockComesOut
