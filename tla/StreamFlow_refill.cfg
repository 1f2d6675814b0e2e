CONSTANTS
  Streams = {1}
  StreamWindow = 2
  StreamInc = 3
  CircInc = 2
  FlowCwndMin = 2
  FlowCwndMax = 3
  AppCap = 4
  MaxUp <- MCLongUp
  MaxDown <- MCLongDown
SPECIFICATION FlowFairSpec
PROPERTIES StreamWindowRefilled
CHECK_DEADLOCK FALSE
