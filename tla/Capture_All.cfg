SPECIFICATION FairCapture
CONSTANTS
  Options = 3
  Resolution = 2
  Devices <- SomeDevices
  Chunk = 2
  Totals <- SomeTotals
  Sizes <- SomeSizes
  MaxTries = 2
  MaxIdle = 1
INVARIANTS OptionsHold StaysInside PageIsWhole
PROPERTY CaptureEnds
CHECK_DEADLOCK FALSE
