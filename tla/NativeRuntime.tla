--------------------------- MODULE NativeRuntime ---------------------------
(***************************************************************************)
(* The parts of the native library that differ from platform to platform:  *)
(* the key vault, the slots of the pool, and the AES-GCM engine.  They     *)
(* share no state, so that an interleaving of them shows nothing that one  *)
(* at a time does not: a behaviour exercises one of them.                  *)
(***************************************************************************)
EXTENDS KeyVault, NativeSlots, CryptoEngine

VARIABLE subject   \* the part that is exercised

vars == <<vaultVars, slotVars, engineVars, subject>>

Init ==
  /\ subject \in {"vault", "slots", "engine"}
  /\ VaultInit /\ SlotsInit /\ EngineInit

Vault == subject = "vault" /\ VaultNext /\ UNCHANGED <<slotVars, engineVars, subject>>
Slots == subject = "slots" /\ SlotsNext /\ UNCHANGED <<vaultVars, engineVars, subject>>
Engine == subject = "engine" /\ EngineNext /\ UNCHANGED <<vaultVars, slotVars, subject>>

Next == Vault \/ Slots \/ Engine

Spec == Init /\ [][Next]_vars

-----------------------------------------------------------------------------
\* The state of the three parts is well formed.
TypeOK == VaultTypeOK /\ SlotsTypeOK /\ EngineTypeOK

\* Whatever call fails, and wherever: between two calls the process holds
\* two views and one descriptor or handle for each slot of the pool, and
\* nothing of the cryptographic library, the copy of the key included.
NothingLeaks ==
  /\ Quiet => objects = Len(g_pool) /\ views = 2 * Len(g_pool)
  /\ step = "idle" => held = {}

\* The vault of every platform implements the key store that pal.h
\* describes: what the bytes recombine to is the key that was stored last,
\* of whatever length the keys before it were.
ImplementsKeyStore == Abstract!Spec
=============================================================================
