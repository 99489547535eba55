SPECIFICATION Spec
CONSTANTS
    Disc <- MCDisc
    MaxEntries = 4
    Strays <- MCStrays
    MaxStray = 1
    Content <- MCContent
    RomSize = 8
    Presses <- MCPresses
    LongHold = 3
    RepeatFrom = 3
    RepeatEvery = 3
    HeldMax = 4
    Rows = 2
    MaxDepth = 2
    TextLines <- MCTextLines
    Images <- MCImages
    Root = 1
    SongBanks <- MCSongBanks
    MaxCredit = 1
    MaxFaults = 1
VIEW MCView
INVARIANTS
    TypeOK
    SelectionVisible
    PathHome
    SongInPlace
    LoadIsOwn
    MapIsSongs
    PressActsOnce
    ModeIsUsers
