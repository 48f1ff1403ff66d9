SPECIFICATION FairSpec
CONSTANTS
  t1 = t1  t2 = t2  a = a  b = b  c = c  nobody = nobody  none = none
  Thread = {t1, t2}
  Nobody = nobody
  Pool = {a, b}
  None = none
  PoolMax = 1
  Rows = 1
  MaxDrops = 2
INVARIANTS RefusedOncePerThread StreamExact FailsForCause RetryIsFresh
PROPERTIES QueryReturns
