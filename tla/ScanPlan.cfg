SPECIFICATION Spec
CONSTANTS
  Word = 64
  Limbs = 2
  MAX_BATCH_SIZE = 8
  THREADS_PER_BLOCK = 2
  MIN_THREADS_PER_BLOCK = 1
  BLOCKS_PER_SM = 2
  Devices <- SmallDevices
  Requests <- All
INVARIANTS
  LengthIsExact
  PartsTile
  NoKeyMissed
  NoKeyTwice
  OverscanBounded
PROPERTIES
  ScanEnds
