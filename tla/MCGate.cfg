CONSTANTS
  Session = {a, b}
  ClaimId = {c1, c2, c3}
  NoClaim = NoClaim
  NoSession = NoSession
  NoSlug = NoSlug
  Slug <- MCSlug
  Path <- MCPath
  Request <- MCRequest
  TTL = 1
  ForceAfter = 1
  MaxRegistrations = 1
  MaxTime = 0
SYMMETRY Symmetry
SPECIFICATION Spec
INVARIANTS
  OverlapsAreAdmitted
  GateExclusion
PROPERTIES
  GateAgrees
