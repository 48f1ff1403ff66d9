\* Two callers judge the same left-behind lock stale before either unlinks it.
CONSTANTS
  p1 = p1
  p2 = p2
  s1 = s1
  Proc = {p1, p2}
  Nobody = Nobody
  NPhases = 1
  Scope = {s1}
  Unset = Unset
  MaxClaims = 2
  MaxRevision = 2
  MaxCrashes = 1
  ConcurrentBreak = TRUE
  IoErrors = FALSE
SPECIFICATION Spec
INVARIANTS
  NoConcurrentControl
CHECK_DEADLOCK FALSE
