\* One layer in one thread; a decryption may fail.
CONSTANTS
  t1 = t1
  t2 = t2
  crypto = crypto
  obfuscated = obfuscated
  base = base
  lora = lora
  s1 = s1
  p1 = p1
  p2 = p2
  Threads = {t1}
  Modules = {crypto}
  Kind <- CryptoKind
  HasBias = {crypto}
  HasMixer = {}
  Slots = {s1}
  JitPages = {p1, p2}
  DecryptMayFail = TRUE
  ForwardMayRaise = FALSE
  SerialModules = TRUE
  Absent = Absent
  Nothing = Nothing
SPECIFICATION Spec
CHECK_DEADLOCK FALSE
INVARIANT WipedAfterEachPass
