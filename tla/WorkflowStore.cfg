\* Two processes, two phases; crashes, failing unlinks and writes.
CONSTANTS
  p1 = p1
  p2 = p2
  s1 = s1
  s2 = s2
  Proc = {p1, p2}
  Nobody = Nobody
  NPhases = 2
  Scope = {s1, s2}
  Unset = Unset
  MaxClaims = 3
  MaxRevision = 7
  MaxCrashes = 1
  ConcurrentBreak = FALSE
  IoErrors = TRUE
SPECIFICATION Spec
SYMMETRY Interchangeable
INVARIANTS
  NoConcurrentControl
  OneScope
PROPERTIES
  NoLostUpdate
  DecidesWhatWasShown
  FollowsProtocol
CHECK_DEADLOCK FALSE
