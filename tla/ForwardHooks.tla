---------------------------- MODULE ForwardHooks ----------------------------
(***************************************************************************)
(* The forward pre-hooks and post-hooks that decrypt the parameters of a   *)
(* wrapped layer and wipe them again: secure_wrap_model                    *)
(* (pytorch_wrapper.py), secure_wrap_base (base_shield.py) and             *)
(* secure_wrap_lora (lora_shield.py).                                      *)
(*                                                                         *)
(* Threads run layers of one model.  A hook gets its buffers from the      *)
(* slot pool, seen through SlotLease, or, when the pool refuses or there   *)
(* is none, allocates a page of its own.  Between pre-hook and post-hook   *)
(* the buffers are known only to the dictionary _active_leases, under the  *)
(* identity of the layer, and to the layer's attributes.                   *)
(***************************************************************************)
EXTENDS Naturals, FiniteSets

CONSTANTS
  Threads,
  Modules,          \* the wrapped layers
  Kind,             \* which of the hooks each layer has
  HasBias,          \* layers with an encrypted bias (_enc_bias)
  HasMixer,         \* obfuscated layers with a mixer (_enc_mixer)
  Slots,            \* slots of the model's pool
  JitPages,         \* bound: pages pal_alloc_secure can hand out
  DecryptMayFail,   \* pal_decrypt_gcm may return False
  ForwardMayRaise,  \* the layer's own forward() may raise
  SerialModules,    \* no layer runs in two threads at once
  Absent,           \* the attribute does not exist
  Nothing           \* no buffer; no data

Buffers == Slots \cup JitPages
Params == Modules \X {"weight", "bias", "mixer"}

ASSUME HookAssumption ==
  /\ Kind \in [Modules -> {"crypto", "obfuscated", "base", "lora"}]
  /\ HasBias \subseteq {m \in Modules : Kind[m] # "lora"}
  /\ HasMixer \subseteq {m \in Modules : Kind[m] = "obfuscated"}
  /\ Slots \cap JitPages = {}
  /\ {Absent, Nothing} \cap Buffers = {} /\ Nothing \notin Params
  /\ Absent # Nothing
  /\ DecryptMayFail \in BOOLEAN /\ ForwardMayRaise \in BOOLEAN
  /\ SerialModules \in BOOLEAN

VARIABLES
  mapped,    \* the pool's slots
  lease,     \* the slots each thread got from the pool and nobody returned
  jit,       \* the pages allocated and not freed
  content,   \* the parameter whose plaintext is in each buffer
  weight,    \* mod.weight: the buffer behind it, Nothing for None, or Absent
  bias,      \* mod.bias, likewise
  active,    \* _active_leases[id(mod)]: the weight and the bias buffer
  pc, mod,   \* where each thread is, and in which layer
  local,     \* the hook's variable lease: the weight and the bias buffer
  temp,      \* the hook's variable ptr
  reads      \* the weight and the bias buffer forward() computes with

poolVars == <<mapped, lease, jit, content>>
moduleVars == <<weight, bias, active>>
threadVars == <<pc, mod, local, temp, reads>>
vars == <<poolVars, moduleVars, threadVars>>

LeaseRecord == [w : Buffers \cup {Nothing}, b : Buffers \cup {Nothing}]
NoLease == [w |-> Nothing, b |-> Nothing]

Phases ==
  {"idle", "acquireW", "decryptW", "acquireB", "decryptB", "register", "forward",
   "compute", "pop", "zeroW", "zeroB", "releaseW", "releaseB", "clear",
   "acquireM", "decryptM", "mix"}

TypeOK ==
  /\ mapped \subseteq Slots
  /\ lease \in [Threads -> SUBSET Slots]
  /\ jit \subseteq JitPages
  /\ content \in [Buffers -> Params \cup {Nothing}]
  /\ weight \in [Modules -> Buffers \cup {Nothing, Absent}]
  /\ bias \in [Modules -> Buffers \cup {Nothing, Absent}]
  /\ active \in [Modules -> LeaseRecord]
  /\ pc \in [Threads -> Phases]
  /\ mod \in [Threads -> Modules]
  /\ local \in [Threads -> LeaseRecord]
  /\ temp \in [Threads -> Buffers \cup {Nothing}]
  /\ reads \in [Threads -> LeaseRecord]

\* The wrappers register None for the parameters they have encrypted; a layer
\* built without a bias has None from the start.
Init ==
  /\ mapped = {}
  /\ lease = [t \in Threads |-> {}]
  /\ jit = {}
  /\ content = [b \in Buffers |-> Nothing]
  /\ weight = [m \in Modules |-> Nothing]
  /\ bias = [m \in Modules |-> Nothing]
  /\ active = [m \in Modules |-> NoLease]
  /\ pc = [t \in Threads |-> "idle"]
  /\ mod \in [Threads -> Modules]
  /\ local = [t \in Threads |-> NoLease]
  /\ temp = [t \in Threads |-> Nothing]
  /\ reads = [t \in Threads |-> NoLease]

Held == UNION {lease[t] : t \in Threads}
MoveTo(t, phase) == pc' = [pc EXCEPT ![t] = phase]

-----------------------------------------------------------------------------
(* Buffers.                                                                *)

UsesPool(m) == Kind[m] \in {"crypto", "obfuscated"}

\* pool.lease_slot, or pal_alloc_secure when the pool refuses: what a pool
\* may refuse, and when, is the matter of VajraaMemoryPool.
Acquire(t, b) ==
  /\ temp' = [temp EXCEPT ![t] = b]
  /\ \/ /\ UsesPool(mod[t])
        /\ b \in mapped \ Held
        /\ lease' = [lease EXCEPT ![t] = @ \cup {b}]
        /\ UNCHANGED jit
     \/ /\ b \in JitPages \ jit
        /\ jit' = jit \cup {b}
        /\ UNCHANGED lease

\* release_slot, or pal_secure_zero and pal_free_secure.
Wipe(B) == content' = [b \in Buffers |-> IF b \in B THEN Nothing ELSE content[b]]

\* Mutant of Free: the page is unmapped, or the slot released, as it is.
FreeWithoutWipe(B) ==
  /\ content' = content
  /\ lease' = [t \in Threads |-> lease[t] \ B]
  /\ jit' = jit \ B

Free(B) ==
  /\ Wipe(B)
  /\ lease' = [t \in Threads |-> lease[t] \ B]
  /\ jit' = jit \ B

\* An exception leaves the hook or the layer: its local variables are gone.
Raise(t) ==
  /\ MoveTo(t, "idle")
  /\ local' = [local EXCEPT ![t] = NoLease]
  /\ temp' = [temp EXCEPT ![t] = Nothing]
  /\ reads' = [reads EXCEPT ![t] = NoLease]

\* initialize() and compact() of the pool, on its own account.
PoolStep ==
  /\ \/ mapped' = Slots
     \/ Held = {} /\ mapped' = {}
  /\ UNCHANGED <<lease, jit, content, moduleVars, threadVars>>

-----------------------------------------------------------------------------
(* Pre-hook.                                                               *)

\* model(x) reaches the layer m in thread t.
CallModule(t, m) ==
  /\ pc[t] = "idle"
  /\ SerialModules => \A u \in Threads : pc[u] = "idle" \/ mod[u] # m
  /\ mod' = [mod EXCEPT ![t] = m]
  /\ MoveTo(t, "acquireW")
  /\ UNCHANGED <<poolVars, moduleVars, local, temp, reads>>

\* A buffer for the weight, the bias, or (in the post-hook) the mixer.
AcquireBuffer(t) ==
  /\ \/ pc[t] = "acquireW" /\ MoveTo(t, "decryptW")
     \/ pc[t] = "acquireB" /\ MoveTo(t, "decryptB")
     \/ pc[t] = "acquireM" /\ MoveTo(t, "decryptM")
  /\ \E b \in Buffers : Acquire(t, b)
  /\ UNCHANGED <<mapped, content, moduleVars, mod, local, reads>>

\* Mutant of AcquireFails: the hook goes on with the null pointer.
AcquireFailsUnnoticed(t) ==
  /\ pc[t] = "acquireW"
  /\ jit = JitPages
  /\ temp' = [temp EXCEPT ![t] = Absent]
  /\ MoveTo(t, "decryptW")
  /\ UNCHANGED <<poolVars, moduleVars, mod, local, reads>>

\* pal_alloc_secure returned 0: MemoryError.  (VirtualAlloc's failure; mmap's
\* is not recognised and ends the process.)
AcquireFails(t) ==
  /\ pc[t] \in {"acquireW", "acquireB", "acquireM"}
  /\ jit = JitPages
  /\ Raise(t)
  /\ UNCHANGED <<poolVars, moduleVars, mod>>

Fill(t, part) == content' = [content EXCEPT ![temp[t]] = <<mod[t], part>>]

\* Mutant of DecryptWeight: the plaintext is written, the parameter is the one
\* that was there.
DecryptWeightStale(t) ==
  /\ pc[t] = "decryptW"
  /\ Fill(t, "weight")
  /\ weight' = [weight EXCEPT ![mod[t]] = IF @ = Absent THEN temp[t] ELSE @]
  /\ local' = [local EXCEPT ![t].w = temp[t]]
  /\ temp' = [temp EXCEPT ![t] = Nothing]
  /\ MoveTo(t, IF mod[t] \in HasBias THEN "acquireB" ELSE "register")
  /\ UNCHANGED <<mapped, lease, jit, bias, active, mod, reads>>

\* The weight is decrypted, and the layer's parameter made from the buffer.
DecryptWeight(t) ==
  /\ pc[t] = "decryptW"
  /\ Fill(t, "weight")
  /\ weight' = [weight EXCEPT ![mod[t]] = temp[t]]
  /\ local' = [local EXCEPT ![t].w = temp[t]]
  /\ temp' = [temp EXCEPT ![t] = Nothing]
  /\ MoveTo(t, IF mod[t] \in HasBias THEN "acquireB" ELSE "register")
  /\ UNCHANGED <<mapped, lease, jit, bias, active, mod, reads>>

\* The obfuscated layer's hook leaves mod.bias alone: its post-hook adds the
\* bias to the unscrambled output.
DecryptBias(t) ==
  /\ pc[t] = "decryptB"
  /\ Fill(t, "bias")
  /\ bias' = IF Kind[mod[t]] = "obfuscated" THEN bias
             ELSE [bias EXCEPT ![mod[t]] = temp[t]]
  /\ local' = [local EXCEPT ![t].b = temp[t]]
  /\ temp' = [temp EXCEPT ![t] = Nothing]
  /\ MoveTo(t, "register")
  /\ UNCHANGED <<mapped, lease, jit, weight, active, mod, reads>>

\* The tag does not match: the buffer at hand is released, SecurityError.
\* What the hook had leased before is in its local variable only.
DecryptFails(t) ==
  /\ DecryptMayFail
  /\ pc[t] \in {"decryptW", "decryptB", "decryptM"}
  /\ Free({temp[t]})
  /\ Raise(t)
  /\ UNCHANGED <<mapped, moduleVars, mod>>

RegisterLease(t) ==
  /\ pc[t] = "register"
  /\ active' = [active EXCEPT ![mod[t]] = local[t]]
  /\ local' = [local EXCEPT ![t] = NoLease]
  /\ MoveTo(t, "forward")
  /\ UNCHANGED <<poolVars, weight, bias, mod, temp, reads>>

-----------------------------------------------------------------------------
(* The layer itself.                                                       *)

\* forward() fetches self.weight and self.bias and computes with them.
BeginForward(t) ==
  LET m == mod[t] IN
  /\ pc[t] = "forward"
  /\ weight[m] # Absent /\ bias[m] # Absent
  /\ reads' = [reads EXCEPT ![t] = [w |-> weight[m], b |-> bias[m]]]
  /\ MoveTo(t, "compute")
  /\ UNCHANGED <<poolVars, moduleVars, mod, local, temp>>

\* An attribute is missing, or the computation fails: no post-hook runs.  The
\* product with the mixer may fail as well.
ForwardRaises(t) ==
  /\ \/ pc[t] = "forward" /\ Absent \in {weight[mod[t]], bias[mod[t]]}
     \/ pc[t] \in {"compute", "mix"} /\ ForwardMayRaise
  /\ Raise(t)
  /\ UNCHANGED <<poolVars, moduleVars, mod>>

EndForward(t) ==
  /\ pc[t] = "compute"
  /\ reads' = [reads EXCEPT ![t] = NoLease]
  /\ MoveTo(t, "pop")
  /\ UNCHANGED <<poolVars, moduleVars, mod, local, temp>>

-----------------------------------------------------------------------------
(* Post-hook.                                                              *)

\* Mutant of PopLease: the entry is read and left in the dictionary.
PopLeaseKeepsEntry(t) ==
  LET m == mod[t] IN
  /\ pc[t] = "pop"
  /\ local' = [local EXCEPT ![t] = active[m]]
  /\ weight' = IF Kind[m] = "obfuscated" THEN [weight EXCEPT ![m] = Absent] ELSE weight
  /\ MoveTo(t, "zeroW")
  /\ UNCHANGED <<poolVars, active, bias, mod, temp, reads>>

\* _active_leases.pop(id(mod), None).  The obfuscated layer's hook drops the
\* weight attribute before it wipes the weight, the others last.
PopLease(t) ==
  LET m == mod[t] IN
  /\ pc[t] = "pop"
  /\ local' = [local EXCEPT ![t] = active[m]]
  /\ active' = [active EXCEPT ![m] = NoLease]
  /\ weight' = IF Kind[m] = "obfuscated" THEN [weight EXCEPT ![m] = Absent] ELSE weight
  /\ MoveTo(t, "zeroW")
  /\ UNCHANGED <<poolVars, bias, mod, temp, reads>>

\* w_trans.zero_(): the tensor is the buffer.
ZeroWeight(t) ==
  /\ pc[t] = "zeroW"
  /\ Wipe({local[t].w})
  /\ MoveTo(t, IF Kind[mod[t]] = "obfuscated" THEN "releaseW" ELSE "zeroB")
  /\ UNCHANGED <<mapped, lease, jit, moduleVars, mod, local, temp, reads>>

\* b_trans.zero_(); the obfuscated layer's hook first adds the bias.
ZeroBias(t) ==
  /\ pc[t] = "zeroB"
  /\ Wipe({local[t].b})
  /\ MoveTo(t, IF Kind[mod[t]] = "obfuscated" THEN "releaseB" ELSE "releaseW")
  /\ UNCHANGED <<mapped, lease, jit, moduleVars, mod, local, temp, reads>>

ReleaseWeight(t) ==
  /\ pc[t] = "releaseW"
  /\ Free({local[t].w})
  /\ local' = [local EXCEPT ![t].w = Nothing]
  /\ MoveTo(t, IF Kind[mod[t]] = "obfuscated" THEN "zeroB" ELSE "releaseB")
  /\ UNCHANGED <<mapped, moduleVars, mod, temp, reads>>

ReleaseBias(t) ==
  /\ pc[t] = "releaseB"
  /\ Free({local[t].b})
  /\ local' = [local EXCEPT ![t].b = Nothing]
  /\ MoveTo(t, "clear")
  /\ UNCHANGED <<mapped, moduleVars, mod, temp, reads>>

\* Mutant of DropsBias: no guard on what the wrapper has encrypted.
DropsBiasAlways(m) == TRUE

\* The attributes each hook deletes: the crypto hook only those it encrypted,
\* the base hook both, whether it had encrypted a bias or not, the LoRA hook
\* the weight; the obfuscated layer's weight is gone already.
DropsWeight(m) == Kind[m] # "obfuscated"
DropsBias(m) == Kind[m] = "base" \/ (Kind[m] = "crypto" /\ m \in HasBias)

ClearAttributes(t) ==
  LET m == mod[t] IN
  /\ pc[t] = "clear"
  /\ weight' = IF DropsWeight(m) THEN [weight EXCEPT ![m] = Absent] ELSE weight
  /\ bias' = IF DropsBias(m) THEN [bias EXCEPT ![m] = Absent] ELSE bias
  /\ MoveTo(t, IF m \in HasMixer THEN "acquireM" ELSE "idle")
  /\ UNCHANGED <<poolVars, active, mod, local, temp, reads>>

\* The mixer is decrypted ...
DecryptMixer(t) ==
  /\ pc[t] = "decryptM"
  /\ Fill(t, "mixer")
  /\ MoveTo(t, "mix")
  /\ UNCHANGED <<mapped, lease, jit, moduleVars, mod, local, temp, reads>>

\* ... applied to the output, zeroed and released.
ApplyMixer(t) ==
  /\ pc[t] = "mix"
  /\ Free({temp[t]})
  /\ temp' = [temp EXCEPT ![t] = Nothing]
  /\ MoveTo(t, "idle")
  /\ UNCHANGED <<mapped, moduleVars, mod, local, reads>>

-----------------------------------------------------------------------------
PreHook(t) ==
  \/ AcquireBuffer(t) \/ AcquireFails(t)
  \/ DecryptWeight(t) \/ DecryptBias(t) \/ DecryptFails(t)
  \/ RegisterLease(t)

Layer(t) == BeginForward(t) \/ ForwardRaises(t) \/ EndForward(t)

PostHook(t) ==
  \/ PopLease(t)
  \/ ZeroWeight(t) \/ ZeroBias(t)
  \/ ReleaseWeight(t) \/ ReleaseBias(t)
  \/ ClearAttributes(t)
  \/ DecryptMixer(t) \/ ApplyMixer(t)

Next ==
  \/ PoolStep
  \/ \E t \in Threads :
       \/ \E m \in Modules : CallModule(t, m)
       \/ PreHook(t) \/ Layer(t) \/ PostHook(t)

Spec == Init /\ [][Next]_vars

-----------------------------------------------------------------------------
(* Safety.                                                                 *)

Quiet == \A t \in Threads : pc[t] = "idle"

\* When no forward pass runs, everything the hooks have taken has been given
\* back: no slot is leased, no page is left, no lease is registered, and no
\* layer has a parameter that points into a buffer.
QuietMeansReturned ==
  Quiet =>
    /\ Held = {} /\ jit = {}
    /\ \A m \in Modules :
         active[m] = NoLease /\ weight[m] \notin Buffers /\ bias[m] \notin Buffers

\* docs/index.html: "Weights are zero-wiped immediately after each forward
\* pass".  A pre-hook that fails on the bias, or a forward() that raises,
\* refutes this: nobody wipes what the pre-hook has decrypted.
WipedAfterEachPass == Quiet => \A b \in Buffers : content[b] = Nothing

\* While forward() computes, the buffers it fetched hold the parameters of its
\* own layer: no other thread's hooks wipe, free or refill them.
\* This needs SerialModules: the hooks of two threads in one layer share its
\* attributes and its entry of _active_leases, although
\* docs/memory-security.html has concurrent requests "safely queue for slot
\* availability".
ComputeReadsOwnLayer ==
  \A t \in Threads : pc[t] = "compute" =>
    LET m == mod[t] IN
    /\ reads[t].w \in Buffers /\ content[reads[t].w] = <<m, "weight">>
    /\ m \in HasBias /\ Kind[m] # "obfuscated" =>
         reads[t].b \in Buffers /\ content[reads[t].b] = <<m, "bias">>

\* forward() finds the attributes it fetches, the first time and every time
\* after: what the post-hook deletes the pre-hook puts back.  The base
\* shield's hooks refute this for a layer without a bias.
ForwardFindsItsParameters ==
  \A t \in Threads : pc[t] = "forward" =>
    weight[mod[t]] # Absent /\ bias[mod[t]] # Absent

\* The variables through which a hook can release the buffer b.
Owners(b) ==
  {<<"temp", t>> : t \in {u \in Threads : temp[u] = b}}
    \cup {<<"local", t>> : t \in {u \in Threads : b \in {local[u].w, local[u].b}}}
    \cup {<<"active", m>> : m \in {n \in Modules : b \in {active[n].w, active[n].b}}}

\* A buffer is known to one variable at most, and a known buffer has not been
\* given back: no slot is released twice and no page is freed twice or
\* touched after it was freed, even when decryptions fail, layers raise and
\* threads meet in one layer.
EveryLeaseHasOneOwner ==
  \A b \in Buffers :
    /\ Cardinality(Owners(b)) <= 1
    /\ Owners(b) # {} => b \in Held \cup jit

\* The hooks keep to the protocol of the pool they lease from: whatever goes
\* wrong around them, they write only to a slot that is leased.
SlotLease == INSTANCE SlotLease WITH
  Clients <- Threads,
  secret <- {s \in Slots : content[s] # Nothing}

HooksFollowLeaseProtocol == SlotLease!LeaseSpec
==============================================================================
