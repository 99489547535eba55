SPECIFICATION Spec
CONSTANTS
    Ring = 8
    Lead = 5
    Phases = 4
    SampleRing = 16
    Latency = 3
    SunCycles = 2
    Stamp = 32
    SunScale = 5
    SunFull = 8
    EnvTop = 3
    LfsrLen = 3
    LfsrTap = 2
    LowByte = 2
    NamcoCycles = 3
    NamcoStamp = 32
    NamcoScale = 3
    NamcoFull = 8
    NamcoByte = 4
    TopChannel = 1
    VolRange = 2
    WaveCells = {w}
    VrcScale = 3
    Sample = 16
    VrcRing = 8
    VrcByte = 2
    Parts = 4
    PartLen = 2
    PhaseRange = 16
    SawDividend = 20
    AccRange = 4
    Songs <- MCPairSongs
    Gaps = {2, 7}
    FrameMin = 8
    FrameMax = 10
    PeriodBytes = {0, 1}
    VrcVolumes = {1, 3}
    TonePeriods = {1}
    SunVolumes = {1}
    NoisePeriods = {0, 2}
    EnvPeriods = {1}
    Mixers <- MCMixers
    NamcoAddresses <- MCNamcoAddresses
    NamcoBytes = {1, 2}
    PairGap = 2
    PairRest = 3
INVARIANT
    PulseWhole
CHECK_DEADLOCK FALSE
