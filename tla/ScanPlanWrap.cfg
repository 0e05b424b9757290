SPECIFICATION Spec
CONSTANTS
  Word = 8
  Limbs = 3
  MAX_BATCH_SIZE = 4
  THREADS_PER_BLOCK = 2
  MIN_THREADS_PER_BLOCK = 1
  BLOCKS_PER_SM = 2
  Devices <- OneDevice
  Requests <- Edge
INVARIANTS
  NeverTruncated
