SPECIFICATION FairSpec
CONSTANTS
  t1 = t1  t2 = t2   c = c  none = none  open = open
  Turns = {t1, t2}
  Clears = {c}
  Requests <- AskedInstance
  NoAccess = open
  MaxEntries = 1
  ActivityLimit = 1
  ActivityKept = 1
  None = none
INVARIANTS OneAtATime HistoryOfOnePerson FreshAfterClear
PROPERTIES NobodyWaitsForever
CHECK_DEADLOCK FALSE
