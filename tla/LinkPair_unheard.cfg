CONSTANTS
  a = a
  b = b
  c1 = c1
  c2 = c2
  End = {a, b}
  Conn = {c1, c2}
  Dialler <- MCDialler
  Probe = {c2}
  StaleAfter = 1
  MaxStalls = 1
  MaxReadErrors = 1
SPECIFICATION PairSpec
PROPERTIES ListedIsHeard
CHECK_DEADLOCK FALSE
