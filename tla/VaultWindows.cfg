\* The key vault alone, with a key that is longer than the page of Windows.
CONSTANTS
  KeysOf <- TwoKeys
  BufferSizes = {1, 2}
  VaultSize = 2
  PageSize = 3
  TempSize = 2
  EmbeddedSize = 2
  System = {"linux", "macos", "windows"}
  Requests = {}
  MaxConfigures = 0
  Libraries = {"openssl"}
SPECIFICATION Spec
CHECK_DEADLOCK FALSE
INVARIANT RetrievesAStoredKey
