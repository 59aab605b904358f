\* Failing decryptions and raising layers, each layer in one thread at a time.
\* The crypto layer has no bias.
CONSTANTS
  t1 = t1
  t2 = t2
  crypto = crypto
  obfuscated = obfuscated
  base = base
  lora = lora
  s1 = s1
  p1 = p1
  p2 = p2
  p3 = p3
  Threads = {t1, t2}
  Modules = {crypto, obfuscated, base}
  Kind <- ThreeKinds
  HasBias = {obfuscated, base}
  HasMixer = {obfuscated}
  Slots = {s1}
  JitPages = {p1, p2, p3}
  DecryptMayFail = TRUE
  ForwardMayRaise = TRUE
  SerialModules = TRUE
  Absent = Absent
  Nothing = Nothing
SPECIFICATION Spec
SYMMETRY PageSymmetry
INVARIANTS
  ExclusiveInv
  ComputeReadsOwnLayer
  ForwardFindsItsParameters
