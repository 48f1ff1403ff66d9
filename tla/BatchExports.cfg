SPECIFICATION Spec
CONSTANTS
  j1 = j1
  j2 = j2
  c1 = c1
  jan = jan
  None = None
  Jobs = {j1, j2}
  Callers = {c1}
  Janitor = jan
  Workers = 1
  MaxQueued = 2
  Ttl = 2
  Hold = 1
INVARIANTS HandedOutStays NoOrphan
PROPERTIES EveryJobEnds FilesGo
