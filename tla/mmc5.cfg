CONSTANTS
  Pulses = {0, 1}
  Reload = 2
  FrameLengths = {4}
  Lengths = {2}
  Check = FALSE
  MaxQueue = 2
SPECIFICATION Spec
INVARIANTS TypeOK StatusIsHeard FramesInStep
