SPECIFICATION ClosingSpec
CONSTANTS
  Hosts = {h1, h2}
  MaxStarts = 2
  Free = Free
INVARIANTS
  SessionsCounted
  RegisteredIsOwned
PROPERTIES
  OnlyRacingStopLosesWorker
  StopReturns
