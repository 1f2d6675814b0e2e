CONSTANTS
  p = p
  q = q
  k1 = k1
  NoKey = NoKey
  Peers = {p, q}
  Cids = {1}
  NextCids = {11}
  Cookies = {k1}
  MaxEarly = 1
  MaxRestarts = 1
  f1 = f1
  f2 = f2
  NoFetch = NoFetch
  PoolCids = {1, 2}
  Fetches = {f1, f2}
  PoolTarget = 2
  h1 = h1
  h2 = h2
  h3 = h3
  h4 = h4
  me = me
  Hop = {h1, h2, h3, h4, me}
  Self = me
  Position <- MCPosition
  Kbs <- MCKbs
  Subnet <- MCSubnet
  Family <- MCFamily
  Unaffiliated = "none"
  MaxLayer2 = 1
  Layer2Life = 3
  Layer2MinLife = 2
  UnreachableFor = 1
  PathEnd = 3
  a1 = a1
  a2 = a2
  r1 = r1
  Authority = {a1, a2}
  DirRelay = {r1}
  Node = {n1}
  Host = {1, 2}
  Genesis <- MCGenesis
  Speeds <- MCSpeeds
  Passes = 1
  Epoch = 1
  Window = 0
  End = 1
  MaxDraws = 3
  ReplayId = {i1, i2}
  ReplayTTL = 2
  ReplayMax = 2
  CompactLines = 2
  LogBound = 4
  ReplayEnd = 3
  ReplayCrashes = 2
  Addr = {d1, d2}
  Link = {l1, l2}
  MaxConns = 1
  Ceiling = 2
  StaleAfter = 2
  DosEnd = 3
  Post = {p1, p2, p3}
  Forged = {p3}
  BoardTask = {t1, t2}
  MaxPosts = 2
  SeenCap = 3
  MaxLines = 3
  BoardCrashes = 1
SPECIFICATION TablesSpec
INVARIANTS TablesTypeOK TablesAgree CircuitsAccounted PathsHold DirectoriesAgree CommitmentHonoured AcceptedOnce AccountsHold ShownOnce
SYMMETRY PeerSymmetry
CHECK_DEADLOCK FALSE
