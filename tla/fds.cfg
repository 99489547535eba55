CONSTANTS
  Units = {0}
  Values = {0, 3}
  Cap = 2
  PowerPeriod = 3
  PreScale = 1
  Speeds = {0, 1}
  Halts = {FALSE, TRUE}
  Protections = {FALSE, TRUE}
  Cells = {0, 1}
  Samples = {0, 1}
  FrameLengths = {4}
  SpillTop = 5
  Never = never
  Wrap = 5
  Check = FALSE
  Songs <- BothSongs
SPECIFICATION Spec
INVARIANTS TypeOK LevelsAreHeard ClocksInStep WaveIsHeard
