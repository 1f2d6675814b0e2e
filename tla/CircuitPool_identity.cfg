CONSTANTS
  f1 = f1
  f2 = f2
  NoFetch = NoFetch
  PoolCids = {1, 2, 3}
  Fetches = {f1, f2}
  PoolTarget = 2
SPECIFICATION PoolSpec
INVARIANTS PooledIsUnused
CHECK_DEADLOCK FALSE
