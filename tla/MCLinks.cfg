CONSTANTS
  a = a
  b = b
  c1 = c1
  c2 = c2
  d1 = d1
  d2 = d2
  d3 = d3
  Circuits = {1, 2}
  MaxPush <- MCPush
  MaxDecay = 2
  Senders <- MCSenders
  MaxSends = 1
  MaxCells <- MCCells
  ChanCap = 1
  End = {a, b}
  Conn = {c1, c2}
  Dialler <- MCDialler
  Probe = {}
  StaleAfter = 1
  MaxStalls = 1
  MaxReadErrors = 1
  Small = {3, 5, 7}
  Witnesses = {2, 3}
  Bits = 7
  StaleAge = 2
  MaxRotations = 2
  MaxLinks = 2
  Describer = {d1, d2, d3}
  Speaker = {d1}
  Rebooting = {d1}
  Edge <- MCEdge
  DescLifetime = 1
  DescEnd = 2
  MaxReboots = 1
  MaxMishaps = 1
  PathLen = 3
  MaxPadding = 2
  MaxRequests = 2
SPECIFICATION LinksSpec
INVARIANTS LinksTypeOK NoLostWakeup NonceUsedOnce BoundedOvertaking CertIsAccepted BindingHolds LayersInStep
PROPERTIES ImplementsOrderedLink CellsArrive EndsLetGo
CHECK_DEADLOCK FALSE
