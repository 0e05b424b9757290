SPECIFICATION Spec
CONSTANTS
  N = 4
  W = 6
  R = 1296
  K = 5
  A6 = 3
  G <- Base
  Order = 1303
  Scalars <- Keys
  HostScalars <- Tabled
  B = 8
  Batches = 2
INVARIANTS
  DevicePrefixMultiple
  HostSuffixMultiple
  HashedIsPublicKey
  InverseServesPair
