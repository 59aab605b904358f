\* A tiered pool for small layers: its large slots have 32 MB all the same.
CONSTANTS
  KeysOf <- NoKeys
  BufferSizes = {}
  VaultSize = 2
  PageSize = 3
  TempSize = 2
  EmbeddedSize = 2
  System = {"linux", "macos", "windows"}
  Requests <- Configurations
  MaxConfigures = 1
  Libraries = {"openssl"}
SPECIFICATION Spec
CHECK_DEADLOCK FALSE
INVARIANT PoolStaysWithinItsBudget
