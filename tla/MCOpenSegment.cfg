SPECIFICATION Spec
CONSTANTS
  Names <- SomeNames
  FirstPages <- SomePages
  FileSizes = {0, 16, 32, 40, 128, 130}
  DefaultBlcksz = 16
  LongHdr = 10
  MaxAlign = 2
  MaxBlcksz = 32
  MinSeg = 32
  MaxSeg = 128
  IdSpace = 256
INVARIANT GeometryIsSound
PROPERTY SoundIsOpened
