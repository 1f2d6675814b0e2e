CONSTANTS
  a = a
  b = b
  z = z
  c1 = c1
  c2 = c2
  c3 = c3
  u1 = u1
  u2 = u2
  f1 = f1
  Nodes = {a, b}
  Dialers = {a, b}
  Conns = {c1, c2, c3}
  NoConn = NoConn
  MaxFaults = 1
  Dir = {d, z}
  Looker = {z}
  EntryTTL = 1
  MarkTTL = 2
  EpochTicks = 2
  MaxClients = 2
  Faults = TRUE
  Urls <- MCUrls
  Site = {u1, u2}
  MaxRedirects = 1
  Cold = 1
  ColdMax = 2
  Refresh = 3
  Retry = 1
  Life = 5
  User = {a, b, z}
  Talker = {a}
  Address <- MCAddress
  Edge <- MCEdge
  Group = {g1}
  Restarting = {z}
  EpochLen = 2
  MailTTL = 2
  BoxCap = 1
  MaxMsgs = 2
  ComFaults = 1
  ComEnd = 2
  Fetch = {f1, f2}
  QueueCap = 1
  Chunks = 2
  RdvFaults = 2
SPECIFICATION ServicesSpec
INVARIANTS ServicesTypeOK RegisteredHasReader UnsentStaysUnsent FetchOutcome
PROPERTIES SilentPeerRemoved ServiceComesBack NodeStaysCurrent MailIsFetched FetchEnds
CHECK_DEADLOCK FALSE
