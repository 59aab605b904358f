--------------------------- MODULE MCForwardHooks ---------------------------
(***************************************************************************)
(* Instances of ForwardHooks for TLC.                                      *)
(***************************************************************************)
EXTENDS ForwardHooksInvariant, TLC

CONSTANTS crypto, obfuscated, base, lora   \* layers, named after their hooks

\* secure_wrap_model gives the first and the last layer the crypto hooks and
\* the ones between the obfuscating hooks; secure_wrap_base and
\* secure_wrap_lora have hooks of their own.
CryptoKind == crypto :> "crypto"
BaseKind == base :> "base"
WrappedKinds == CryptoKind @@ (obfuscated :> "obfuscated")
ThreeKinds == WrappedKinds @@ BaseKind
AllKinds == WrappedKinds @@ BaseKind @@ (lora :> "lora")

\* Which of the pages and slots a thread gets does not matter.
PageSymmetry == Permutations(JitPages) \cup Permutations(Slots)
==============================================================================
