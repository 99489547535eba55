CONSTANTS
  Chips = {vrc6, fds}
  NoChip = nochip
  RingSize = 4
  HalfWrites = 1
  Lag = 0
  MaxSent = 3
  MaxSessions = 2
SPECIFICATION FairSpec
INVARIANTS TypeOK InOrder RightChip RingQuiet
PROPERTIES UpdateHeard StartReturns ImplementsSession StopReturns
