CONSTANTS
  p1 = p1
  p2 = p2
  SendmeInc = 2
  CwndMin = 4
  CwndInit = 4
  CwndMax = 8
  Alpha = 1
  Beta = 1
  Gamma = 1
  None = none
  MaxSent = 12
  MaxTime = 8
  Streams = {1, 2}
  StreamWindow = 4
  StreamInc = 3
  CircInc = 2
  FlowCwndMin = 2
  FlowCwndMax = 3
  AppCap = 1
  MaxUp <- MCUp
  MaxDown <- MCDown
  Opens <- MCOpens
  Credit = 1
  BwCells = 1
  MaxCells = 2
  Builder = {b1, b2}
  Guard = {g1}
  BuildHops = 2
  Window = 3
  MinSamples = 2
  DefaultTimeout = 2
  MinTimeout = 1
  MaxTimeout = 3
  MinAttempts = 3
  SlowHop = 2
  MaxAttempts = 3
  PadCircuit = {c1}
  MaxSleep = 3
  Interval = 3
  IdleThreshold = 2
  AgeCap = 6
  Relay = {r1, r2}
  SampleSize = 1
  MinFiltered = 1
  PrimaryCount = 1
  MaxGuards = 1
  SampleLife = 2
  GuardLife = 1
  DropAfter = 1
  TornWrites = TRUE
  MaxChanges = 2
  GuardEnd = 2
  ClientOnly = FALSE
  Watchers = {gc, pool}
  Unwatched = {drain}
  Caller = {cli, scanner}
  Holder = {cli}
  Job = {j1, j2}
  Payload = 2
  MaxCalls = 2
SPECIFICATION FlowsSpec
INVARIANTS FlowsTypeOK AcksExact FlowAccounted BuildsJudged PaddingIsSpaced RejectedIsNotServed MeasurementCleansUp
PROPERTIES PumpDrains WaitsEnd LinkIsServed GuardIsRelinked 
CHECK_DEADLOCK FALSE
