CONSTANTS
  Dir = {d, c}
  Looker = {c}
  EntryTTL = 3
  MarkTTL = 9
  EpochTicks = 9
  MaxClients = 0
  Faults = FALSE
SPECIFICATION PubSpec
PROPERTIES EntryNeverLapses
CHECK_DEADLOCK FALSE
