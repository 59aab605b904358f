\* Two threads, each layer in one thread at a time, nothing fails.
CONSTANTS
  t1 = t1
  t2 = t2
  crypto = crypto
  obfuscated = obfuscated
  base = base
  lora = lora
  s1 = s1
  s2 = s2
  p1 = p1
  p2 = p2
  p3 = p3
  p4 = p4
  Threads = {t1, t2}
  Modules = {crypto, obfuscated, base, lora}
  Kind <- AllKinds
  HasBias = {crypto, obfuscated, base}
  HasMixer = {obfuscated}
  Slots = {s1, s2}
  JitPages = {p1, p2, p3, p4}
  DecryptMayFail = FALSE
  ForwardMayRaise = FALSE
  SerialModules = TRUE
  Absent = Absent
  Nothing = Nothing
SPECIFICATION Spec
SYMMETRY PageSymmetry
INVARIANTS
  SerialInv
  QuietMeansReturned
  WipedAfterEachPass
