CONSTANTS
  Circuits = {1}
  MaxPush <- MCPush
  MaxDecay = 0
  Senders <- MCSenders
  MaxSends = 1
  MaxCells <- MCCells
  ChanCap = 1
SPECIFICATION Spec
INVARIANTS SealOrderIsWireOrder
CHECK_DEADLOCK FALSE
