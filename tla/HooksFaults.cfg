\* Failing decryptions, raising layers, and two threads in one layer.
CONSTANTS
  t1 = t1
  t2 = t2
  crypto = crypto
  obfuscated = obfuscated
  base = base
  lora = lora
  s1 = s1
  s2 = s2
  p1 = p1
  p2 = p2
  Threads = {t1, t2}
  Modules = {crypto, obfuscated}
  Kind <- WrappedKinds
  HasBias = {crypto}
  HasMixer = {obfuscated}
  Slots = {s1, s2}
  JitPages = {p1, p2}
  DecryptMayFail = TRUE
  ForwardMayRaise = TRUE
  SerialModules = FALSE
  Absent = Absent
  Nothing = Nothing
SPECIFICATION Spec
SYMMETRY PageSymmetry
INVARIANTS
  OwnershipInv
  EveryLeaseHasOneOwner
PROPERTY HooksFollowLeaseProtocol
