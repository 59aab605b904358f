----------------------- MODULE NativeRuntimeInvariant -----------------------
(***************************************************************************)
(* Inductive invariants of the parts of NativeRuntime, checked by TLC and  *)
(* proved in NativeRuntimeProofs.                                          *)
(***************************************************************************)
EXTENDS NativeRuntime

\* CryptoEngine: what has been acquired when the library is called at s.
Acquired(s) ==
  CASE s \in {"cipher", "ivlen", "key", "aad", "update", "tag", "final"} -> {"ctx"}
    [] s \in {"chaining", "blob"}                                     -> {"hAlg"}
    [] s = "import"                                                   -> {"hAlg", "pKeyBlob"}
    [] s = "decrypt"                                                  -> {"hAlg", "hKey"}
    [] OTHER                                                          -> {}

EngineInv ==
  /\ EngineTypeOK
  /\ held = Acquired(step)
  /\ step # "idle" => result = "none"

-----------------------------------------------------------------------------
\* NativeSlots: the slot in creation.
SlotInCreation ==
  /\ slot \in [size : Nat, stage : {"none", "object", "views"}, write : BOOLEAN, read : BOOLEAN]
  /\ slot.stage = "none" => slot = NoSlot
  /\ slot.stage = "object" => ~slot.write /\ ~slot.read
  /\ to_create \in Seq(Nat)

\* Every descriptor and every view is one of a slot of the pool, or of the
\* slot in creation.
ObjectsAreAccounted ==
  /\ objects = Len(g_pool) + (IF slot.stage = "none" THEN 0 ELSE 1)
  /\ views = 2 * Len(g_pool) + (IF slot.write THEN 1 ELSE 0) + (IF slot.read THEN 1 ELSE 0)

\* As long as nothing has failed, the pool and the slots that are still to be
\* created are those that the request asks for.
PoolIsAsRequested ==
  ~failed /\ (to_create # <<>> \/ g_pool_initialized) =>
    /\ request \in Requests
    /\ Len(g_pool) + Len(to_create) = Len(SlotSizes(request))
    /\ \A i \in 1..Len(g_pool) : g_pool[i] = SlotSizes(request)[i]
    /\ \A i \in 1..Len(to_create) : to_create[i] = SlotSizes(request)[Len(g_pool) + i]

\* The slots of the pool have room in the sizes of the request that are no
\* longer to be created, whichever of them could be.
PoolIsPartOfTheRequest ==
  to_create # <<>> \/ g_pool # <<>> =>
    LET sizes == SlotSizes(request)
        tried == Len(sizes) - Len(to_create) IN
    /\ request \in Requests /\ UsePool(request)
    /\ tried \in Nat
    /\ \A i \in 1..Len(to_create) : to_create[i] = sizes[tried + i]
    /\ Total(g_pool) <= Total(SubSeq(sizes, 1, tried))

\* A view is missing only after a call has failed.
ViewsFail == slot.stage = "views" /\ ~(slot.write /\ slot.read) => failed

SlotsInv ==
  /\ SlotsTypeOK
  /\ SlotInCreation
  /\ ObjectsAreAccounted
  /\ PoolIsAsRequested
  /\ PoolIsPartOfTheRequest
  /\ ViewsFail

\* The largest layer of a tiered pool needs a large slot: pool_cost counts
\* all that is mapped.
LargeLayers == \A r \in Requests : r.use_tiered => r.max_layer_size >= MediumSlot

-----------------------------------------------------------------------------
\* KeyVault: only Windows has a page, and no key before it.
VaultInv ==
  /\ VaultTypeOK
  /\ platform # "windows" => g_encrypted_key = "null"
  /\ platform = "windows" /\ g_encrypted_key = "null" => g_key_len = 0

IInv == EngineInv /\ SlotsInv /\ VaultInv
=============================================================================
