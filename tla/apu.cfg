SPECIFICATION Spec
CONSTANTS
  FcPeriod = 5
  TriDelay = 3
  Lengths = {1, 2}
  EnvTop = 2
  EnvPeriods = {1}
  SweepPeriods = {0, 1}
  Mults = {2}
  MultUnit = 4
  FreqLow = 4
  FreqTop = 7
  FreqMin = 2
  LowBytes = {3}
  HighBits = {0, 1}
  LinearCounts = {0, 3}
  DmcPeriods = {2, 6}
  DmcLengths = {1, 2}
  DmcStarts = {3}
  AddrTop = 3
  AddrBase = 1
  Bits = 2
  Rom <- MCRom
  PcmTop = 2
  PcmLevels = {0, 2}
  SampleLen = 3
  Slots = 4
  FrameMin = 8
  FrameMax = 8
  Never = 9999
  MaxFrames = 2
  Songs <- MCSongs
CHECK_DEADLOCK FALSE
INVARIANTS TypeOK AssertsHold StatusIsPrompt LazyIsExact CountersAgree FifoCurrent SlotsExact
