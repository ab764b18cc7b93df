CONSTANTS
  Session = {a, b}
  ClaimId = {c1, c2}
  NoClaim = NoClaim
  NoSession = NoSession
  NoSlug = NoSlug
  Slug <- MCSlug
  Path <- MCPath
  Request <- MCRequest
  TTL = 1
  ForceAfter = 1
  MaxRegistrations = 2
  MaxTime = 2
SYMMETRY Symmetry
SPECIFICATION Spec
INVARIANTS
  ClaimsAreHeld
PROPERTIES
  ClaimsEndOnce
