SPECIFICATION PanelFairSpec
CONSTANTS
  HotSets <- MCHotSets
  Written <- MCWritten
  MaxFlight = 2
  MaxEvents = 2
INVARIANTS GreenIsReported
CHECK_DEADLOCK FALSE
PROPERTY CatchesUp
