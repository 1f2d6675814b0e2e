CONSTANTS
  p = p
  q = q
  k1 = k1
  NoKey = NoKey
  Peers = {p, q}
  Cids = {1}
  NextCids = {11}
  Cookies = {k1}
  MaxEarly = 2
  MaxRestarts = 0
SPECIFICATION Spec
INVARIANTS CircuitIdsAreLocal
CHECK_DEADLOCK FALSE
