CONSTANTS
  SectorSize = 2
  Buffers = 3
  Keep = 2
  Window = 2
  LastFad = 3
  ReadSizes = {1, 3}
  MaxTroubles = 1
SPECIFICATION FairSpec
INVARIANTS TypeOK Mirror SectorRightInside
PROPERTY ReadEnds
