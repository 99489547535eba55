CONSTANTS
  Units = {0, 1}
  Values = {0, 3}
  Cap = 2
  PowerPeriod = 3
  PreScale = 1
  Speeds = {0, 1}
  Halts = {FALSE}
  Protections = {}
  Cells = {}
  Samples = {0, 1}
  FrameLengths = {4}
  SpillTop = 5
  Never = never
  Wrap = 5
  Check = TRUE
  Songs <- EnvSongs
SPECIFICATION Spec
INVARIANT NoAbort
CHECK_DEADLOCK FALSE
