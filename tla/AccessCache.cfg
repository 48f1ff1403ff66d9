SPECIFICATION AccessSpec
CONSTANTS
  ann = ann
  bob = bob
  c1 = c1
  c2 = c2
  Users = {ann, bob}
  Callers = {c1, c2}
  Ttl = 2
  MaxTime = 3
  MaxGrants = 1
  MaxAttempts = 3
  MaxInvalidations = 1
INVARIANTS ChangeTakesHold NeverOlder
CHECK_DEADLOCK FALSE
