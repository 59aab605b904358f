\* Every platform and every library, one part at a time.
CONSTANTS
  KeysOf <- EveryKey
  BufferSizes = {0, 1, 2, 3}
  VaultSize = 2
  PageSize = 3
  TempSize = 2
  EmbeddedSize = 2
  System = {"linux", "macos", "windows"}
  Requests <- Configurations
  MaxConfigures = 2
  Libraries = {"openssl", "bcrypt"}
SPECIFICATION Spec
CHECK_DEADLOCK FALSE
INVARIANTS
  IInv
  NothingLeaks
  PoolHoldsTheLargestLayerTwice
PROPERTY ImplementsKeyStore
