CONSTANTS
  SectorSize = 2
  Buffers = 3
  Keep = 2
  Window = 2
  LastFad = 3
  ReadSizes = {1, 3}
  MaxTroubles = 0
SPECIFICATION Spec
INVARIANT SectorRight
