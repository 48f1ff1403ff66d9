SPECIFICATION Spec
CONSTANTS
  Dbs = {prod, test}
  Requests = {r1, r2}
  r1 = r1
  r2 = r2
  MaxReloads = 1
  None = None
INVARIANTS CatalogOfItsDatabase OneRefresh
PROPERTIES DiskKeepsVerified RefreshEnds
