-------------------------- MODULE ForwardHooksProofs --------------------------
(***************************************************************************)
(* What TLAPS proves of the hooks, for any number of threads, layers,      *)
(* slots and pages: who owns a buffer when decryptions fail, layers raise  *)
(* and threads meet in one layer; that a program that runs each layer in   *)
(* one thread finds and reads its own parameters, whatever fails; and that *)
(* such a program, if nothing fails, gives everything back.                *)
(***************************************************************************)
EXTENDS ForwardHooksInvariant, TLAPS, FiniteSetTheorems, FunctionTheorems

USE HookAssumption

-----------------------------------------------------------------------------
(* What the steps have in common.                                          *)

\* What release_slot and pal_free_secure leave leased and allocated.
LEMMA FreeFacts ==
  ASSUME NEW B, TypeOK, Free(B)
  PROVE  /\ Held' = Held \ B /\ jit' = jit \ B
         /\ lease' \in [Threads -> SUBSET Slots] /\ jit' \subseteq JitPages
         /\ content' \in [Buffers -> Params \cup {Nothing}]
         /\ \A t \in Threads : lease'[t] = lease[t] \ B
BY DEF Free, Wipe, Held, TypeOK

\* The hook's variable lease keeps its type.
LEMMA LocalFacts ==
  ASSUME NEW f \in [Threads -> LeaseRecord], NEW t \in Threads, NEW b \in Buffers \cup {Nothing}
  PROVE  /\ [f EXCEPT ![t].w = b] \in [Threads -> LeaseRecord]
         /\ [f EXCEPT ![t].b = b] \in [Threads -> LeaseRecord]
         /\ [f EXCEPT ![t] = NoLease] \in [Threads -> LeaseRecord]
<1>1. [f[t] EXCEPT !.w = b] \in LeaseRecord /\ [f[t] EXCEPT !.b = b] \in LeaseRecord
      /\ NoLease \in LeaseRecord
  BY DEF LeaseRecord, NoLease
<1>. QED
  BY <1>1

\* A step that forgets buffers, and returns only what it forgets.
LEMMA ForgetOwnership ==
  ASSUME OwnershipInv, TypeOK', NEW B,
         \A t \in Threads : lease'[t] = lease[t] \ B,
         jit' = jit \ B,
         \A t \in Threads : /\ temp'[t] \in {temp[t], Nothing} \ B
                            /\ local'[t].w \in {local[t].w, Nothing} \ B
                            /\ local'[t].b \in {local[t].b, Nothing} \ B,
         \A m \in Modules : /\ active'[m].w \in {active[m].w, Nothing} \ B
                            /\ active'[m].b \in {active[m].b, Nothing} \ B
  PROVE  OwnershipInv'
<1>1. Held' = Held \ B
  BY DEF Held
<1>2. BuffersAreKnownOnce'
  <2>. SUFFICES ASSUME NEW b \in Buffers
                PROVE  KnownOnce(b)'
    BY DEF BuffersAreKnownOnce
  <2>1. KnownOnce(b) /\ b # Nothing
    BY DEF OwnershipInv, BuffersAreKnownOnce
  <2>. QED
    BY <2>1 DEF KnownOnce, InTemp, InLocal, Registered
<1>3. KnownIsHeld'
  <2>. SUFFICES ASSUME NEW b \in Buffers, Known(b)'
                PROVE  b \in (Held \cup jit)'
    BY DEF KnownIsHeld
  <2>1. Known(b) /\ b \notin B
    BY DEF Known, InTemp, InLocal, Registered
  <2>. QED
    BY <2>1, <1>1 DEF OwnershipInv, KnownIsHeld
<1>4. LeasesAreExclusive'
  BY DEF OwnershipInv, LeasesAreExclusive
<1>. QED
  BY <1>2, <1>3, <1>4 DEF OwnershipInv

-----------------------------------------------------------------------------
(* Ownership.                                                              *)

LEMMA OwnershipInit == Init => OwnershipInv
<1>. SUFFICES ASSUME Init
              PROVE  OwnershipInv
  OBVIOUS
<1>1. TypeOK
  BY DEF Init, TypeOK, LeaseRecord, NoLease, Phases
<1>2. /\ \A t \in Threads : temp[t] = Nothing /\ local[t].w = Nothing /\ local[t].b = Nothing
      /\ \A m \in Modules : active[m].w = Nothing /\ active[m].b = Nothing
  BY DEF Init, NoLease
<1>3. BuffersAreKnownOnce /\ KnownIsHeld
  BY <1>2 DEF BuffersAreKnownOnce, KnownOnce, KnownIsHeld, Known, InTemp, InLocal, Registered
<1>. QED
  BY <1>1, <1>3 DEF Init, OwnershipInv, LeasesAreExclusive

\* A buffer is leased, or a page allocated, that nobody has.
LEMMA AcquireOwnership ==
  ASSUME OwnershipInv, NEW t \in Threads, AcquireBuffer(t)
  PROVE  OwnershipInv'
<1>1. PICK b \in Buffers : Acquire(t, b)
  BY DEF AcquireBuffer
<1>2. /\ temp' = [temp EXCEPT ![t] = b]
      /\ UNCHANGED <<mapped, content, moduleVars, mod, local, reads>>
      /\ b \notin Held \cup jit /\ b # Nothing
  BY <1>1 DEF AcquireBuffer, Acquire, OwnershipInv, TypeOK, Held, Buffers
<1>3. \/ /\ b \in mapped \ Held /\ lease' = [lease EXCEPT ![t] = @ \cup {b}]
         /\ jit' = jit
      \/ b \in JitPages \ jit /\ jit' = jit \cup {b} /\ lease' = lease
  BY <1>1 DEF Acquire
<1>4. /\ (Held \cup jit)' = Held \cup jit \cup {b}
      /\ lease' \in [Threads -> SUBSET Slots] /\ jit' \subseteq JitPages
  BY <1>3 DEF Held, OwnershipInv, TypeOK
<1>5. TypeOK'
  BY <1>2, <1>4 DEF OwnershipInv, TypeOK, AcquireBuffer, MoveTo, Phases, moduleVars
<1>6. /\ temp'[t] = b /\ \A u \in Threads \ {t} : temp'[u] = temp[u]
      /\ UNCHANGED <<local, active>>
  BY <1>2 DEF OwnershipInv, TypeOK, moduleVars
<1>7. ~Known(b)
  BY <1>2 DEF OwnershipInv, KnownIsHeld
<1>8. BuffersAreKnownOnce'
  <2>. SUFFICES ASSUME NEW c \in Buffers
                PROVE  KnownOnce(c)'
    BY DEF BuffersAreKnownOnce
  <2>1. KnownOnce(c)
    BY DEF OwnershipInv, BuffersAreKnownOnce
  <2>. QED
    BY <2>1, <1>6, <1>7 DEF KnownOnce, Known, InTemp, InLocal, Registered
<1>9. KnownIsHeld'
  <2>. SUFFICES ASSUME NEW c \in Buffers, Known(c)'
                PROVE  c \in (Held \cup jit)'
    BY DEF KnownIsHeld
  <2>1. Known(c) \/ c = b
    BY <1>6 DEF Known, InTemp, InLocal, Registered
  <2>. QED
    BY <2>1, <1>4 DEF OwnershipInv, KnownIsHeld
<1>10. LeasesAreExclusive'
  <2>1. CASE lease' = lease
    BY <2>1 DEF OwnershipInv, LeasesAreExclusive
  <2>2. CASE b \notin Held /\ lease' = [lease EXCEPT ![t] = @ \cup {b}]
    <3>1. \A u \in Threads : b \notin lease[u]
      BY <2>2 DEF Held
    <3>. QED
      BY <2>2, <3>1 DEF OwnershipInv, TypeOK, LeasesAreExclusive
  <2>. QED
    BY <2>1, <2>2, <1>3
<1>. QED
  BY <1>5, <1>8, <1>9, <1>10 DEF OwnershipInv

\* A hook loses its variables, and with them what it has not registered.
LEMMA RaiseOwnership ==
  ASSUME OwnershipInv, NEW t \in Threads, AcquireFails(t) \/ ForwardRaises(t)
  PROVE  OwnershipInv'
<1>1. /\ Raise(t) /\ UNCHANGED <<poolVars, moduleVars, mod>>
  BY DEF AcquireFails, ForwardRaises
<1>2. TypeOK'
  BY <1>1 DEF OwnershipInv, TypeOK, Raise, MoveTo, Phases, poolVars, moduleVars,
     NoLease, LeaseRecord
<1>3. /\ \A u \in Threads : /\ temp'[u] \in {temp[u], Nothing} \ {}
                            /\ local'[u].w \in {local[u].w, Nothing} \ {}
                            /\ local'[u].b \in {local[u].b, Nothing} \ {}
      /\ \A m \in Modules : /\ active'[m].w \in {active[m].w, Nothing} \ {}
                            /\ active'[m].b \in {active[m].b, Nothing} \ {}
  BY <1>1 DEF Raise, OwnershipInv, TypeOK, poolVars, moduleVars, NoLease
<1>4. (\A u \in Threads : lease'[u] = lease[u] \ {}) /\ jit' = jit \ {}
  BY <1>1 DEF poolVars
<1>. QED
  BY <1>2, <1>3, <1>4, ForgetOwnership

\* Steps that leave the variables alone through which buffers are known.
LEMMA KeepOwnership ==
  ASSUME OwnershipInv, TypeOK', UNCHANGED <<lease, jit, temp, local, active>>
  PROVE  OwnershipInv'
BY DEF OwnershipInv, BuffersAreKnownOnce, KnownOnce, KnownIsHeld, Known, InTemp, InLocal,
       Registered, LeasesAreExclusive, Held

LEMMA ControlOwnership ==
  ASSUME OwnershipInv,
         \/ PoolStep
         \/ \E t \in Threads :
              \/ \E m \in Modules : CallModule(t, m)
              \/ BeginForward(t) \/ EndForward(t) \/ ClearAttributes(t)
              \/ ZeroWeight(t) \/ ZeroBias(t) \/ DecryptMixer(t)
         \/ UNCHANGED vars
  PROVE  OwnershipInv'
<1>. USE DEF OwnershipInv, TypeOK, poolVars, moduleVars, threadVars
<1>1. CASE PoolStep \/ UNCHANGED vars
  BY <1>1, KeepOwnership DEF PoolStep, vars
<1>2. ASSUME NEW t \in Threads, NEW m \in Modules, CallModule(t, m)
      PROVE  OwnershipInv'
  BY <1>2, KeepOwnership DEF CallModule, MoveTo, Phases
<1>3. ASSUME NEW t \in Threads, BeginForward(t)
      PROVE  OwnershipInv'
  BY <1>3, KeepOwnership DEF BeginForward, MoveTo, Phases, LeaseRecord
<1>4. ASSUME NEW t \in Threads, EndForward(t)
      PROVE  OwnershipInv'
  BY <1>4, KeepOwnership DEF EndForward, MoveTo, Phases, LeaseRecord, NoLease
<1>5. ASSUME NEW t \in Threads, ClearAttributes(t)
      PROVE  OwnershipInv'
  BY <1>5, KeepOwnership DEF ClearAttributes, MoveTo, Phases
<1>6. ASSUME NEW t \in Threads, ZeroWeight(t) \/ ZeroBias(t)
      PROVE  OwnershipInv'
  BY <1>6, KeepOwnership DEF ZeroWeight, ZeroBias, Wipe, MoveTo, Phases
<1>7. ASSUME NEW t \in Threads, DecryptMixer(t)
      PROVE  OwnershipInv'
  BY <1>7, KeepOwnership DEF DecryptMixer, Fill, Params, MoveTo, Phases
<1>. QED
  BY <1>1, <1>2, <1>3, <1>4, <1>5, <1>6, <1>7

\* A decrypted buffer is handed from the hook's ptr to its lease.
LEMMA DecryptOwnership ==
  ASSUME OwnershipInv, NEW t \in Threads, DecryptWeight(t) \/ DecryptBias(t)
  PROVE  OwnershipInv'
<1>1. TypeOK'
  <2>1. local' \in [Threads -> LeaseRecord]
    <3>1. local \in [Threads -> LeaseRecord] /\ temp[t] \in Buffers \cup {Nothing}
      BY DEF OwnershipInv, TypeOK
    <3>2. /\ [local EXCEPT ![t].w = temp[t]] \in [Threads -> LeaseRecord]
          /\ [local EXCEPT ![t].b = temp[t]] \in [Threads -> LeaseRecord]
      BY <3>1, LocalFacts
    <3>. QED
      BY <3>2 DEF DecryptWeight, DecryptBias
  <2>2. /\ temp' \in [Threads -> Buffers \cup {Nothing}] /\ pc' \in [Threads -> Phases]
        /\ weight' \in [Modules -> Buffers \cup {Nothing, Absent}]
        /\ bias' \in [Modules -> Buffers \cup {Nothing, Absent}]
        /\ UNCHANGED <<mapped, lease, jit, active, mod, reads>>
    BY DEF DecryptWeight, DecryptBias, OwnershipInv, TypeOK, MoveTo, Phases
  <2>3. content' \in [Buffers -> Params \cup {Nothing}]
    <3>1. <<mod[t], "weight">> \in Params /\ <<mod[t], "bias">> \in Params
      BY DEF Params, OwnershipInv, TypeOK
    <3>. QED
      BY <3>1 DEF DecryptWeight, DecryptBias, OwnershipInv, TypeOK, Fill
  <2>. QED
    BY <2>1, <2>2, <2>3 DEF OwnershipInv, TypeOK
<1>2. /\ temp'[t] = Nothing
      /\ \/ local'[t].w = temp[t] /\ local'[t].b = local[t].b
         \/ local'[t].b = temp[t] /\ local'[t].w = local[t].w
      /\ \A u \in Threads \ {t} : temp'[u] = temp[u] /\ local'[u] = local[u]
      /\ UNCHANGED <<lease, jit, active>>
  BY DEF DecryptWeight, DecryptBias, OwnershipInv, TypeOK, LeaseRecord
<1>3. BuffersAreKnownOnce'
  <2>. SUFFICES ASSUME NEW b \in Buffers
                PROVE  KnownOnce(b)'
    BY DEF BuffersAreKnownOnce
  <2>1. KnownOnce(b) /\ b # Nothing
    BY DEF OwnershipInv, BuffersAreKnownOnce
  <2>. QED
    BY <2>1, <1>2 DEF KnownOnce, InTemp, InLocal, Registered
<1>4. KnownIsHeld'
  <2>. SUFFICES ASSUME NEW b \in Buffers, Known(b)'
                PROVE  b \in (Held \cup jit)'
    BY DEF KnownIsHeld
  <2>1. Known(b)
    BY <1>2 DEF Known, InTemp, InLocal, Registered
  <2>. QED
    BY <2>1, <1>2 DEF OwnershipInv, KnownIsHeld, Held
<1>. QED
  BY <1>1, <1>2, <1>3, <1>4 DEF OwnershipInv, LeasesAreExclusive

\* The lease goes to the dictionary and comes back from it.  What the entry
\* held before is forgotten.
LEMMA RegisterOwnership ==
  ASSUME OwnershipInv, NEW t \in Threads, RegisterLease(t) \/ PopLease(t)
  PROVE  OwnershipInv'
<1>0. PICK m \in Modules : m = mod[t]
  BY DEF OwnershipInv, TypeOK
<1>1. TypeOK'
  <2>1. /\ local' \in [Threads -> LeaseRecord] /\ active' \in [Modules -> LeaseRecord]
        /\ UNCHANGED <<poolVars, bias, mod, temp, reads>>
    <3>1. NoLease \in LeaseRecord
      BY DEF NoLease, LeaseRecord
    <3>. QED
      BY <3>1 DEF RegisterLease, PopLease, OwnershipInv, TypeOK
  <2>2. pc' \in [Threads -> Phases] /\ weight' \in [Modules -> Buffers \cup {Nothing, Absent}]
    BY DEF RegisterLease, PopLease, OwnershipInv, TypeOK, MoveTo, Phases
  <2>. QED
    BY <2>1, <2>2 DEF OwnershipInv, TypeOK, poolVars
<1>2. /\ \/ active'[m] = local[t] /\ local'[t] = NoLease
         \/ active'[m] = NoLease /\ local'[t] = active[m]
      /\ \A u \in Threads \ {t} : local'[u] = local[u]
      /\ \A n \in Modules \ {m} : active'[n] = active[n]
      /\ UNCHANGED <<lease, jit, temp>>
  BY <1>0 DEF RegisterLease, PopLease, OwnershipInv, TypeOK, poolVars
<1>3. BuffersAreKnownOnce'
  <2>. SUFFICES ASSUME NEW b \in Buffers
                PROVE  KnownOnce(b)'
    BY DEF BuffersAreKnownOnce
  <2>1. KnownOnce(b) /\ b # Nothing
    BY DEF OwnershipInv, BuffersAreKnownOnce
  <2>. QED
    BY <2>1, <1>2 DEF KnownOnce, InTemp, InLocal, Registered, NoLease
<1>4. KnownIsHeld'
  <2>. SUFFICES ASSUME NEW b \in Buffers, Known(b)'
                PROVE  b \in (Held \cup jit)'
    BY DEF KnownIsHeld
  <2>1. Known(b)
    BY <1>2 DEF Known, InTemp, InLocal, Registered, NoLease
  <2>. QED
    BY <2>1, <1>2 DEF OwnershipInv, KnownIsHeld, Held
<1>. QED
  BY <1>1, <1>2, <1>3, <1>4 DEF OwnershipInv, LeasesAreExclusive

\* A buffer is returned by the only variable that knew it, which forgets it.
LEMMA ReleaseOwnership ==
  ASSUME OwnershipInv, NEW t \in Threads,
         DecryptFails(t) \/ ReleaseWeight(t) \/ ReleaseBias(t) \/ ApplyMixer(t)
  PROVE  OwnershipInv'
<1>1. PICK b \in Buffers \cup {Nothing} :
        /\ Free({b})
        /\ \/ b = temp[t] /\ temp' = [temp EXCEPT ![t] = Nothing]
              /\ (local' = local \/ local' = [local EXCEPT ![t] = NoLease])
           \/ b = local[t].w /\ local' = [local EXCEPT ![t].w = Nothing] /\ temp' = temp
           \/ b = local[t].b /\ local' = [local EXCEPT ![t].b = Nothing] /\ temp' = temp
        /\ active' = active
  BY DEF DecryptFails, Raise, ReleaseWeight, ReleaseBias, ApplyMixer, OwnershipInv, TypeOK,
     LeaseRecord, moduleVars
<1>2. PICK B : B = {b} \cap Buffers
  OBVIOUS
<1>3. /\ \A u \in Threads : lease'[u] = lease[u] \ B
      /\ jit' = jit \ B
  BY <1>1, <1>2, FreeFacts DEF OwnershipInv, TypeOK, Buffers
<1>4. TypeOK'
  <2>1. /\ temp' \in [Threads -> Buffers \cup {Nothing}]
        /\ local' \in [Threads -> LeaseRecord]
    <3>1. \/ local' = local \/ local' = [local EXCEPT ![t] = NoLease]
          \/ local' = [local EXCEPT ![t].w = Nothing]
          \/ local' = [local EXCEPT ![t].b = Nothing]
      BY <1>1
    <3>2. local \in [Threads -> LeaseRecord] /\ temp \in [Threads -> Buffers \cup {Nothing}]
      BY DEF OwnershipInv, TypeOK
    <3>3. /\ [local EXCEPT ![t] = NoLease] \in [Threads -> LeaseRecord]
          /\ [local EXCEPT ![t].w = Nothing] \in [Threads -> LeaseRecord]
          /\ [local EXCEPT ![t].b = Nothing] \in [Threads -> LeaseRecord]
      BY <3>2, LocalFacts
    <3>. QED
      BY <1>1, <3>1, <3>2, <3>3
  <2>2. pc' \in [Threads -> Phases] /\ reads' \in [Threads -> LeaseRecord]
        /\ UNCHANGED <<mapped, weight, bias, mod>>
    <3>1. NoLease \in LeaseRecord
      BY DEF NoLease, LeaseRecord
    <3>2. reads' = reads \/ reads' = [reads EXCEPT ![t] = NoLease]
      BY DEF DecryptFails, Raise, ReleaseWeight, ReleaseBias, ApplyMixer
    <3>. QED
      BY <3>1, <3>2 DEF DecryptFails, Raise, ReleaseWeight, ReleaseBias, ApplyMixer,
         OwnershipInv, TypeOK, MoveTo, Phases, moduleVars
  <2>. QED
    BY <1>1, <2>1, <2>2, FreeFacts DEF OwnershipInv, TypeOK
<1>5. b \in Buffers => KnownOnce(b)
  BY DEF OwnershipInv, BuffersAreKnownOnce
<1>6. /\ \A u \in Threads \ {t} : temp'[u] = temp[u] /\ local'[u] = local[u]
      /\ temp'[t] \in {temp[t], Nothing}
      /\ local'[t].w \in {local[t].w, Nothing} /\ local'[t].b \in {local[t].b, Nothing}
      /\ \/ b = temp[t] /\ temp'[t] = Nothing
         \/ b = local[t].w /\ local'[t].w = Nothing
         \/ b = local[t].b /\ local'[t].b = Nothing
  BY <1>1 DEF OwnershipInv, TypeOK, LeaseRecord, NoLease
<1>7. /\ \A u \in Threads : /\ temp'[u] \in {temp[u], Nothing} \ B
                            /\ local'[u].w \in {local[u].w, Nothing} \ B
                            /\ local'[u].b \in {local[u].b, Nothing} \ B
      /\ \A m \in Modules : /\ active'[m].w \in {active[m].w, Nothing} \ B
                            /\ active'[m].b \in {active[m].b, Nothing} \ B
  BY <1>1, <1>2, <1>5, <1>6 DEF KnownOnce, InTemp, InLocal, Registered
<1>. QED
  BY <1>3, <1>4, <1>7, ForgetOwnership

LEMMA OwnershipNext == OwnershipInv /\ [Next]_vars => OwnershipInv'
BY AcquireOwnership, RaiseOwnership, ControlOwnership, DecryptOwnership, RegisterOwnership,
   ReleaseOwnership
DEF Next, PreHook, Layer, PostHook

\* The owners that EveryLeaseHasOneOwner counts are those that know the buffer.
LEMMA OwnersFacts ==
  ASSUME OwnershipInv
  PROVE  EveryLeaseHasOneOwner
<1>. SUFFICES ASSUME NEW b \in Buffers
              PROVE  /\ Cardinality(Owners(b)) <= 1
                     /\ Owners(b) # {} => b \in Held \cup jit
  BY DEF EveryLeaseHasOneOwner
<1>1. KnownOnce(b)
  BY DEF OwnershipInv, BuffersAreKnownOnce
<1>2. \A o \in Owners(b) :
        \/ \E t \in Threads : o = <<"temp", t>> /\ InTemp(t, b)
        \/ \E t \in Threads : o = <<"local", t>> /\ InLocal(t, b)
        \/ \E m \in Modules : o = <<"active", m>> /\ Registered(m, b)
  BY DEF Owners, InTemp, InLocal, Registered
<1>3. \A o, q \in Owners(b) : o = q
  <2>. SUFFICES ASSUME NEW o \in Owners(b), NEW q \in Owners(b)
                PROVE  o = q
    OBVIOUS
  <2>1. CASE \E t \in Threads : o = <<"temp", t>> /\ InTemp(t, b)
    BY <2>1, <1>1, <1>2 DEF KnownOnce
  <2>2. CASE \E t \in Threads : o = <<"local", t>> /\ InLocal(t, b)
    BY <2>2, <1>1, <1>2 DEF KnownOnce
  <2>3. CASE \E m \in Modules : o = <<"active", m>> /\ Registered(m, b)
    BY <2>3, <1>1, <1>2 DEF KnownOnce
  <2>. QED
    BY <2>1, <2>2, <2>3, <1>2
<1>4. Cardinality(Owners(b)) <= 1
  <2>1. CASE Owners(b) = {}
    BY <2>1, FS_EmptySet
  <2>2. CASE Owners(b) # {}
    <3>1. PICK o : o \in Owners(b)
      BY <2>2
    <3>2. Owners(b) = {o}
      BY <3>1, <1>3
    <3>3. Cardinality({o}) = 1
      BY FS_Singleton
    <3>. QED
      BY <3>2, <3>3
  <2>. QED
    BY <2>1, <2>2
<1>5. ASSUME Owners(b) # {}
      PROVE  b \in Held \cup jit
  <2>1. Known(b)
    BY <1>2, <1>5 DEF Known
  <2>. QED
    BY <2>1 DEF OwnershipInv, KnownIsHeld
<1>. QED
  BY <1>4, <1>5

\* Whatever fails and whoever meets in one layer, a buffer that has not been
\* returned is known to one variable at most.
THEOREM HooksOwnershipInvariant == Spec => []OwnershipInv
BY OwnershipInit, OwnershipNext, PTL DEF Spec

\* The variables of the hooks keep their types.
THEOREM HooksTypeOK == Spec => []TypeOK
<1>1. OwnershipInv => TypeOK
  BY DEF OwnershipInv
<1>. QED
  BY <1>1, HooksOwnershipInvariant, PTL

\* No hook releases a slot twice, or frees a page twice or touches it after it
\* has freed it: not after a failed decryption, not after a layer that raised,
\* and not when two threads overwrite each other's entry of _active_leases.
THEOREM HooksEveryLeaseHasOneOwner == Spec => []EveryLeaseHasOneOwner
BY OwnersFacts, HooksOwnershipInvariant, PTL

-----------------------------------------------------------------------------
(* Refinement: the hooks keep to the lease protocol of the pool.           *)

\* A slot that the hooks know is leased to one thread.
LEMMA HolderFacts ==
  ASSUME OwnershipInv, NEW b \in Slots, Known(b)
  PROVE  \E t \in Threads : b \in lease[t] /\ \A u \in Threads \ {t} : b \notin lease[u]
<1>1. b \in Held
  BY DEF OwnershipInv, KnownIsHeld, TypeOK, Buffers
<1>2. PICK t \in Threads : b \in lease[t]
  BY <1>1 DEF Held
<1>. QED
  BY <1>2 DEF OwnershipInv, LeasesAreExclusive

\* Nothing that SlotLease sees has changed.
LEMMA HooksStutter ==
  ASSUME UNCHANGED <<mapped, lease>>,
         \A s \in Slots : (content'[s] # Nothing <=> content[s] # Nothing)
  PROVE  UNCHANGED SlotLease!leaseVars
<1>1. {s \in Slots : content[s] # Nothing}' = {s \in Slots : content[s] # Nothing}
  OBVIOUS
<1>. QED
  BY <1>1 DEF SlotLease!leaseVars

\* A plaintext is written into a buffer that a hook knows: Fill.
LEMMA FillRefines ==
  ASSUME OwnershipInv, NEW t \in Threads, NEW part \in {"weight", "bias", "mixer"},
         Fill(t, part), UNCHANGED <<mapped, lease>>
  PROVE  SlotLease!LeaseNext \/ UNCHANGED SlotLease!leaseVars
<1>1. PICK b : b = temp[t]
  OBVIOUS
<1>2. <<mod[t], part>> # Nothing
  BY DEF OwnershipInv, TypeOK, Params
<1>3. \A c \in Buffers : content'[c] # Nothing <=> content[c] # Nothing \/ c = b
  BY <1>1, <1>2 DEF Fill, OwnershipInv, TypeOK
<1>4. CASE b \in Slots
  <2>1. PICK c \in Threads : b \in lease[c]
    BY <1>1, <1>4, HolderFacts DEF Known, InTemp
  <2>2. {s \in Slots : content[s] # Nothing}' = {s \in Slots : content[s] # Nothing} \cup {b}
    BY <1>3, <1>4 DEF Buffers
  <2>3. SlotLease!Fill(c, b)
    BY <2>1, <2>2 DEF SlotLease!Fill
  <2>. QED
    BY <2>3, <1>4 DEF SlotLease!LeaseNext
<1>5. CASE b \notin Slots
  BY <1>3, <1>5, HooksStutter DEF Buffers
<1>. QED
  BY <1>4, <1>5

\* A buffer that a hook knows is zeroed: Erase.
LEMMA WipeRefines ==
  ASSUME OwnershipInv, NEW b \in Buffers \cup {Nothing}, b \in Buffers => Known(b),
         Wipe({b}), UNCHANGED <<mapped, lease>>
  PROVE  SlotLease!LeaseNext \/ UNCHANGED SlotLease!leaseVars
<1>1. \A c \in Buffers : content'[c] # Nothing <=> content[c] # Nothing /\ c # b
  BY DEF Wipe
<1>2. CASE b \in Slots
  <2>1. PICK c \in Threads : b \in lease[c]
    BY <1>2, HolderFacts DEF Buffers
  <2>2. {s \in Slots : content[s] # Nothing}' = {s \in Slots : content[s] # Nothing} \ {b}
    BY <1>1, <1>2 DEF Buffers
  <2>3. SlotLease!Erase(c, b)
    BY <2>1, <2>2 DEF SlotLease!Erase
  <2>. QED
    BY <2>3, <1>2 DEF SlotLease!LeaseNext
<1>3. CASE b \notin Slots
  BY <1>1, <1>3, HooksStutter DEF Buffers
<1>. QED
  BY <1>2, <1>3

\* A buffer that a hook knows is returned: Return.
LEMMA FreeRefines ==
  ASSUME OwnershipInv, NEW b \in Buffers \cup {Nothing}, b \in Buffers => Known(b),
         Free({b}), UNCHANGED mapped
  PROVE  SlotLease!LeaseNext \/ UNCHANGED SlotLease!leaseVars
<1>1. /\ \A c \in Buffers : content'[c] # Nothing <=> content[c] # Nothing /\ c # b
      /\ lease' = [t \in Threads |-> lease[t] \ {b}]
  BY DEF Free, Wipe
<1>2. CASE b \in Slots
  <2>1. PICK c \in Threads : b \in lease[c] /\ \A u \in Threads \ {c} : b \notin lease[u]
    BY <1>2, HolderFacts DEF Buffers
  <2>2. {s \in Slots : content[s] # Nothing}' = {s \in Slots : content[s] # Nothing} \ {b}
    BY <1>1, <1>2 DEF Buffers
  <2>3. lease' = [lease EXCEPT ![c] = @ \ {b}]
    <3>1. lease \in [Threads -> SUBSET Slots] /\ \A u \in Threads \ {c} : lease[u] \ {b} = lease[u]
      BY <2>1 DEF OwnershipInv, TypeOK
    <3>. QED
      BY <3>1, <1>1
  <2>4. SlotLease!Return(c, b)
    BY <2>1, <2>2, <2>3 DEF SlotLease!Return
  <2>. QED
    BY <2>4, <1>2 DEF SlotLease!LeaseNext
<1>3. CASE b \notin Slots
  <2>1. lease' = lease
    <3>1. lease \in [Threads -> SUBSET Slots] /\ \A u \in Threads : lease[u] \ {b} = lease[u]
      BY <1>3 DEF OwnershipInv, TypeOK
    <3>. QED
      BY <3>1, <1>1
  <2>. QED
    BY <1>1, <1>3, <2>1, HooksStutter DEF Buffers
<1>. QED
  BY <1>2, <1>3

\* The pool leases a slot: Grant.
LEMMA AcquireRefines ==
  ASSUME OwnershipInv, NEW t \in Threads, AcquireBuffer(t)
  PROVE  SlotLease!LeaseNext \/ UNCHANGED SlotLease!leaseVars
<1>1. PICK b \in Buffers : Acquire(t, b)
  BY DEF AcquireBuffer
<1>2. UNCHANGED <<mapped, content>>
  BY DEF AcquireBuffer
<1>3. CASE b \in mapped \ Held /\ lease' = [lease EXCEPT ![t] = @ \cup {b}]
  <2>1. SlotLease!Grant(t, b)
    BY <1>2, <1>3 DEF SlotLease!Grant, SlotLease!Held, Held
  <2>. QED
    BY <2>1, <1>3 DEF SlotLease!LeaseNext, OwnershipInv, TypeOK
<1>4. CASE lease' = lease
  BY <1>2, <1>4, HooksStutter
<1>. QED
  BY <1>1, <1>3, <1>4 DEF Acquire

\* The pool maps its slots, and unmaps them while none is leased: Map, Unmap.
LEMMA PoolStepRefines ==
  ASSUME OwnershipInv, PoolStep
  PROVE  SlotLease!LeaseNext
<1>1. UNCHANGED <<lease, content>> /\ mapped \subseteq Slots
  BY DEF PoolStep, OwnershipInv, TypeOK
<1>2. CASE mapped' = Slots
  <2>1. SlotLease!Map(Slots \ mapped)
    BY <1>1, <1>2 DEF SlotLease!Map
  <2>. QED
    BY <2>1 DEF SlotLease!LeaseNext
<1>3. CASE Held = {} /\ mapped' = {}
  <2>1. SlotLease!Unmap(mapped)
    BY <1>1, <1>3 DEF SlotLease!Unmap, SlotLease!Held, Held
  <2>. QED
    BY <2>1, <1>1 DEF SlotLease!LeaseNext
<1>. QED
  BY <1>2, <1>3 DEF PoolStep

LEMMA HooksNextRefines ==
  OwnershipInv /\ [Next]_vars => [SlotLease!LeaseNext]_(SlotLease!leaseVars)
<1>. SUFFICES ASSUME OwnershipInv, [Next]_vars
              PROVE  SlotLease!LeaseNext \/ UNCHANGED SlotLease!leaseVars
  OBVIOUS
<1>1. ASSUME UNCHANGED <<mapped, lease, content>>
      PROVE  UNCHANGED SlotLease!leaseVars
  BY <1>1, HooksStutter
<1>2. CASE PoolStep
  BY <1>2, PoolStepRefines
<1>3. ASSUME NEW t \in Threads,
             \/ \E m \in Modules : CallModule(t, m)
             \/ AcquireFails(t) \/ RegisterLease(t) \/ Layer(t) \/ PopLease(t)
             \/ ClearAttributes(t)
      PROVE  UNCHANGED SlotLease!leaseVars
  BY <1>1, <1>3 DEF CallModule, AcquireFails, RegisterLease, Layer, BeginForward,
     ForwardRaises, EndForward, PopLease, ClearAttributes, poolVars
<1>4. ASSUME NEW t \in Threads, DecryptWeight(t) \/ DecryptBias(t) \/ DecryptMixer(t)
      PROVE  SlotLease!LeaseNext \/ UNCHANGED SlotLease!leaseVars
  BY <1>4, FillRefines DEF DecryptWeight, DecryptBias, DecryptMixer
<1>5. ASSUME NEW t \in Threads,
             \/ DecryptFails(t) \/ ApplyMixer(t) \/ ZeroWeight(t) \/ ZeroBias(t)
             \/ ReleaseWeight(t) \/ ReleaseBias(t)
      PROVE  SlotLease!LeaseNext \/ UNCHANGED SlotLease!leaseVars
  <2>1. /\ temp[t] \in Buffers \cup {Nothing}
        /\ local[t].w \in Buffers \cup {Nothing} /\ local[t].b \in Buffers \cup {Nothing}
        /\ temp[t] \in Buffers => Known(temp[t])
        /\ local[t].w \in Buffers => Known(local[t].w)
        /\ local[t].b \in Buffers => Known(local[t].b)
    BY DEF OwnershipInv, TypeOK, LeaseRecord, Known, InTemp, InLocal
  <2>2. CASE DecryptFails(t) \/ ApplyMixer(t) \/ ReleaseWeight(t) \/ ReleaseBias(t)
    BY <2>1, <2>2, FreeRefines DEF DecryptFails, ApplyMixer, ReleaseWeight, ReleaseBias
  <2>3. CASE ZeroWeight(t) \/ ZeroBias(t)
    BY <2>1, <2>3, WipeRefines DEF ZeroWeight, ZeroBias
  <2>. QED
    BY <1>5, <2>2, <2>3
<1>6. ASSUME NEW t \in Threads, AcquireBuffer(t)
      PROVE  SlotLease!LeaseNext \/ UNCHANGED SlotLease!leaseVars
  BY <1>6, AcquireRefines
<1>7. CASE UNCHANGED vars
  BY <1>1, <1>7 DEF vars, poolVars
<1>. QED
  BY <1>2, <1>3, <1>4, <1>5, <1>6, <1>7 DEF Next, PreHook, PostHook

\* Whatever goes wrong around them, the hooks keep to the protocol of the pool
\* they lease from: they write only to a slot that is leased, and return no
\* slot that nobody holds.  LeaseInvariant says what follows.
THEOREM HooksImplementSlotLease == Spec => HooksFollowLeaseProtocol
<1>1. Init => SlotLease!LeaseInit
  BY DEF Init, SlotLease!LeaseInit, Buffers
<1>. QED
  BY <1>1, HooksNextRefines, HooksOwnershipInvariant, PTL
  DEF Spec, HooksFollowLeaseProtocol, SlotLease!LeaseSpec

-----------------------------------------------------------------------------
(***************************************************************************)
(* A program that runs each layer in one thread at a time: every forward   *)
(* pass that gets as far computes with its own layer's parameters, and     *)
(* finds them, whatever fails.                                             *)
(***************************************************************************)

(* A step of one pass.                                                     *)

\* The step leaves the other threads, the other layers and the buffers that
\* the thread's variables do not know as they were.
Frame(t) ==
  /\ mod' = mod
  /\ \A u \in Threads \ {t} :
       pc'[u] = pc[u] /\ local'[u] = local[u] /\ temp'[u] = temp[u] /\ reads'[u] = reads[u]
  /\ \A m \in Modules \ {mod[t]} :
       weight'[m] = weight[m] /\ bias'[m] = bias[m] /\ active'[m] = active[m]
  /\ \A b \in Buffers \ {temp[t], local[t].w, local[t].b} : content'[b] = content[b]

LEMMA NothingIsNoBuffer ==
  Nothing \notin Buffers /\ Absent \notin Buffers /\ Absent # Nothing
OBVIOUS

\* The other passes do not notice.
LEMMA OtherPassStays ==
  ASSUME ExclusiveInv, NEW t \in Threads, NEW u \in Threads \ {t},
         pc[t] # "idle", pc[u] # "idle", Frame(t)
  PROVE  /\ PassInPlace(u)' /\ ParametersDecrypted(u)'
         /\ WeightBuffer(u)' = WeightBuffer(u) /\ OtherBuffer(u)' = OtherBuffer(u)
<1>1. PICK m \in Modules : m = mod[u] /\ m # mod[t] /\ mod'[u] = m
  BY DEF ExclusiveInv, LayersAreExclusive, Frame, OwnershipInv, TypeOK
<1>2. /\ pc'[u] = pc[u] /\ local'[u] = local[u] /\ temp'[u] = temp[u] /\ reads'[u] = reads[u]
      /\ weight'[m] = weight[m] /\ bias'[m] = bias[m] /\ active'[m] = active[m]
  BY <1>1 DEF Frame
<1>3. WeightBuffer(u)' = WeightBuffer(u) /\ OtherBuffer(u)' = OtherBuffer(u)
  BY <1>1, <1>2 DEF WeightBuffer, OtherBuffer
<1>4. ASSUME NEW b \in Buffers, b \in {WeightBuffer(u), OtherBuffer(u)}
      PROVE  content'[b] = content[b]
  <2>1. KnownOnce(b) /\ (InTemp(u, b) \/ InLocal(u, b) \/ Registered(m, b))
    BY <1>1, <1>4 DEF ExclusiveInv, OwnershipInv, BuffersAreKnownOnce, WeightBuffer, OtherBuffer,
       InTemp, InLocal, Registered
  <2>2. b \notin {temp[t], local[t].w, local[t].b}
    BY <2>1 DEF KnownOnce, InTemp, InLocal
  <2>. QED
    BY <2>2 DEF Frame
<1>5. PassInPlace(u) /\ ParametersDecrypted(u)
  BY DEF ExclusiveInv
<1>6. PassInPlace(u)'
  BY <1>1, <1>2, <1>5 DEF PassInPlace
<1>7. /\ HasWeight(u)' <=> HasWeight(u)
      /\ HasItsBias(u)' <=> HasItsBias(u)
      /\ HasWeight(u) => WeightBuffer(u) \in Buffers
      /\ HasItsBias(u) => OtherBuffer(u) \in Buffers
  BY <1>1, <1>2, <1>5 DEF PassInPlace, HasWeight, HasItsBias, WeightBuffer, OtherBuffer,
     ExclusiveInv, OwnershipInv, TypeOK, LeaseRecord
<1>8. ParametersDecrypted(u)'
  BY <1>1, <1>2, <1>3, <1>4, <1>5, <1>7 DEF ParametersDecrypted
<1>. QED
  BY <1>3, <1>6, <1>8

LEMMA StepKeepsExclusiveInv ==
  ASSUME ExclusiveInv, OwnershipInv', NEW t \in Threads, pc[t] # "idle", Frame(t),
         pc'[t] # "idle" => PassInPlace(t)' /\ ParametersDecrypted(t)',
         pc'[t] = "idle" => temp'[t] = Nothing /\ local'[t] = NoLease,
         ~SetsBias(mod[t]) /\ ~DropsBias(mod[t]) => bias'[mod[t]] = Nothing
  PROVE  ExclusiveInv'
<1>1. LayersAreExclusive'
  BY DEF ExclusiveInv, LayersAreExclusive, Frame
<1>2. ASSUME NEW u \in Threads, pc'[u] # "idle"
      PROVE  PassInPlace(u)' /\ ParametersDecrypted(u)'
  BY <1>2, OtherPassStays DEF Frame
<1>3. ASSUME NEW u \in Threads, pc'[u] = "idle"
      PROVE  temp'[u] = Nothing /\ local'[u] = NoLease
  BY <1>3 DEF Frame, ExclusiveInv
<1>4. ASSUME NEW m \in Modules, ~SetsBias(m), ~DropsBias(m)
      PROVE  bias'[m] = Nothing
  BY <1>4 DEF Frame, ExclusiveInv
<1>. QED
  BY <1>1, <1>2, <1>3, <1>4 DEF ExclusiveInv

\* What the invariant says of the pass of one thread.
LEMMA OwnPassFacts ==
  ASSUME ExclusiveInv, NEW t \in Threads, pc[t] # "idle"
  PROVE  /\ PassInPlace(t) /\ ParametersDecrypted(t) /\ TypeOK
         /\ mod[t] \in Modules /\ local[t] \in LeaseRecord /\ active[mod[t]] \in LeaseRecord
         /\ ~SetsBias(mod[t]) /\ ~DropsBias(mod[t]) => bias[mod[t]] = Nothing
<1>1. TypeOK
  BY DEF ExclusiveInv, OwnershipInv
<1>. QED
  BY <1>1 DEF ExclusiveInv, TypeOK

-----------------------------------------------------------------------------
(* The steps of a pass, and its end by an exception.                       *)

LEMMA AcquireExclusive ==
  ASSUME ExclusiveInv, OwnershipInv', NEW t \in Threads, AcquireBuffer(t)
  PROVE  ExclusiveInv'
<1>1. PICK b \in Buffers : Acquire(t, b)
  BY DEF AcquireBuffer
<1>2. /\ pc[t] \in {"acquireW", "acquireB", "acquireM"}
      /\ PassInPlace(t) /\ ParametersDecrypted(t) /\ TypeOK /\ mod[t] \in Modules
      /\ ~SetsBias(mod[t]) /\ ~DropsBias(mod[t]) => bias[mod[t]] = Nothing
  <2>1. pc[t] \in {"acquireW", "acquireB", "acquireM"}
    BY DEF AcquireBuffer
  <2>. QED
    BY <2>1, OwnPassFacts
<1>3. /\ temp'[t] = b /\ b # Nothing
      /\ \/ pc[t] = "acquireW" /\ pc'[t] = "decryptW"
         \/ pc[t] = "acquireB" /\ pc'[t] = "decryptB"
         \/ pc[t] = "acquireM" /\ pc'[t] = "decryptM"
      /\ \A u \in Threads \ {t} : pc'[u] = pc[u] /\ temp'[u] = temp[u]
      /\ UNCHANGED <<content, weight, bias, active, mod, local, reads>>
  BY <1>1, <1>2, NothingIsNoBuffer DEF AcquireBuffer, Acquire, MoveTo, TypeOK, moduleVars
<1>4. Frame(t)
  BY <1>3 DEF Frame
<1>5. PassInPlace(t)' /\ ParametersDecrypted(t)'
  BY <1>2, <1>3 DEF PassInPlace, ParametersDecrypted, HasWeight, HasItsBias, WeightBuffer,
     OtherBuffer
<1>. QED
  BY <1>2, <1>3, <1>4, <1>5, StepKeepsExclusiveInv

LEMMA DecryptWeightExclusive ==
  ASSUME ExclusiveInv, OwnershipInv', NEW t \in Threads, DecryptWeight(t)
  PROVE  ExclusiveInv'
<1>1. PICK m \in Modules, b \in Buffers : m = mod[t] /\ b = temp[t]
  BY OwnPassFacts DEF DecryptWeight, PassInPlace, TypeOK
<1>2. /\ pc[t] = "decryptW" /\ pc'[t] = IF m \in HasBias THEN "acquireB" ELSE "register"
      /\ weight'[m] = b /\ content'[b] = <<m, "weight">>
      /\ local'[t].w = b /\ local'[t].b = local[t].b /\ temp'[t] = Nothing
      /\ UNCHANGED <<bias, active, mod, reads>>
  BY <1>1, OwnPassFacts DEF DecryptWeight, Fill, MoveTo, TypeOK, LeaseRecord
<1>3. Frame(t)
  BY <1>1, OwnPassFacts DEF DecryptWeight, Fill, MoveTo, TypeOK, Frame
<1>4. /\ b # Nothing /\ PassInPlace(t)
      /\ ~SetsBias(m) /\ ~DropsBias(m) => bias[m] = Nothing
  BY <1>1, <1>2, OwnPassFacts, NothingIsNoBuffer
<1>5. PassInPlace(t)' /\ ParametersDecrypted(t)'
  BY <1>1, <1>2, <1>4 DEF PassInPlace, ParametersDecrypted, HasWeight, HasItsBias, WeightBuffer,
     OtherBuffer
<1>. QED
  BY <1>1, <1>2, <1>3, <1>4, <1>5, StepKeepsExclusiveInv

LEMMA DecryptBiasExclusive ==
  ASSUME ExclusiveInv, OwnershipInv', NEW t \in Threads, DecryptBias(t)
  PROVE  ExclusiveInv'
<1>0. /\ pc[t] = "decryptB" /\ PassInPlace(t) /\ ParametersDecrypted(t) /\ TypeOK
      /\ mod[t] \in Modules /\ local[t] \in LeaseRecord
      /\ ~SetsBias(mod[t]) /\ ~DropsBias(mod[t]) => bias[mod[t]] = Nothing
  <2>1. pc[t] = "decryptB"
    BY DEF DecryptBias
  <2>. QED
    BY <2>1, OwnPassFacts
<1>1. PICK m \in Modules, b \in Buffers : m = mod[t] /\ b = temp[t]
  BY <1>0 DEF PassInPlace, TypeOK
<1>2. /\ pc'[t] = "register" /\ content' = [content EXCEPT ![b] = <<m, "bias">>]
      /\ local'[t].b = b /\ local'[t].w = local[t].w /\ temp'[t] = Nothing
      /\ bias' = IF Kind[m] = "obfuscated" THEN bias ELSE [bias EXCEPT ![m] = b]
      /\ UNCHANGED <<weight, active, mod, reads>>
  BY <1>0, <1>1 DEF DecryptBias, Fill, MoveTo, TypeOK, LeaseRecord
<1>3. Frame(t)
  BY <1>0, <1>1 DEF DecryptBias, Fill, MoveTo, TypeOK, Frame
<1>4. /\ local[t].w \in Buffers /\ local[t].w # b /\ b # Nothing /\ m \in HasBias
  <2>1. local[t].w \in Buffers /\ m \in HasBias /\ b # Nothing
    BY <1>0, <1>1, NothingIsNoBuffer DEF PassInPlace, LeaseRecord
  <2>2. KnownOnce(b)
    BY DEF ExclusiveInv, OwnershipInv, BuffersAreKnownOnce
  <2>3. local[t].w # b
    BY <1>1, <2>2 DEF KnownOnce, InTemp, InLocal
  <2>. QED
    BY <2>1, <2>3
<1>5. WeightBuffer(t)' = local[t].w /\ OtherBuffer(t)' = b
  BY <1>2 DEF WeightBuffer, OtherBuffer
<1>6. /\ content'[b] = <<m, "bias">>
      /\ weight[m] = local[t].w /\ content'[local[t].w] = <<m, "weight">>
      /\ SetsBias(m) => bias'[m] = b
      /\ ~SetsBias(m) /\ ~DropsBias(m) => bias'[m] = Nothing
  <2>1. weight[m] = local[t].w /\ content[local[t].w] = <<m, "weight">>
    BY <1>0, <1>1 DEF ParametersDecrypted, HasWeight, WeightBuffer
  <2>. QED
    BY <1>0, <1>1, <1>2, <1>4, <2>1 DEF SetsBias, TypeOK
<1>7. PassInPlace(t)'
  BY <1>0, <1>1, <1>2, <1>4 DEF PassInPlace
<1>8. ParametersDecrypted(t)'
  BY <1>1, <1>2, <1>4, <1>5, <1>6 DEF ParametersDecrypted, HasWeight, HasItsBias
<1>. QED
  BY <1>0, <1>1, <1>2, <1>3, <1>6, <1>7, <1>8, StepKeepsExclusiveInv

LEMMA RegisterExclusive ==
  ASSUME ExclusiveInv, OwnershipInv', NEW t \in Threads, RegisterLease(t) \/ PopLease(t)
  PROVE  ExclusiveInv'
<1>0. /\ pc[t] \in {"register", "pop"} /\ PassInPlace(t) /\ ParametersDecrypted(t) /\ TypeOK
      /\ mod[t] \in Modules
      /\ ~SetsBias(mod[t]) /\ ~DropsBias(mod[t]) => bias[mod[t]] = Nothing
  <2>1. pc[t] \in {"register", "pop"}
    BY DEF RegisterLease, PopLease
  <2>. QED
    BY <2>1, OwnPassFacts
<1>1. PICK m \in Modules : m = mod[t]
  BY <1>0
<1>2. /\ UNCHANGED <<content, bias, mod, temp, reads>>
      /\ \/ /\ pc[t] = "register" /\ pc'[t] = "forward" /\ weight' = weight
            /\ active'[m] = local[t] /\ local'[t] = NoLease
         \/ pc[t] = "pop" /\ pc'[t] = "zeroW" /\ local'[t] = active[m] /\ active'[m] = NoLease
  BY <1>0, <1>1 DEF RegisterLease, PopLease, MoveTo, TypeOK, poolVars
<1>3. Frame(t)
  BY <1>0, <1>1 DEF RegisterLease, PopLease, MoveTo, TypeOK, Frame, poolVars
<1>4. WeightBuffer(t)' = WeightBuffer(t) /\ OtherBuffer(t)' = OtherBuffer(t)
  BY <1>0, <1>1, <1>2 DEF WeightBuffer, OtherBuffer
<1>5. PassInPlace(t)'
  BY <1>0, <1>1, <1>2 DEF PassInPlace, NoLease
<1>6. ParametersDecrypted(t)'
  BY <1>0, <1>1, <1>2, <1>4 DEF ParametersDecrypted, HasWeight, HasItsBias
<1>. QED
  BY <1>0, <1>2, <1>3, <1>5, <1>6, StepKeepsExclusiveInv

LEMMA ForwardExclusive ==
  ASSUME ExclusiveInv, OwnershipInv', NEW t \in Threads, BeginForward(t) \/ EndForward(t)
  PROVE  ExclusiveInv'
<1>0. /\ pc[t] \in {"forward", "compute"} /\ PassInPlace(t) /\ ParametersDecrypted(t) /\ TypeOK
      /\ mod[t] \in Modules
      /\ ~SetsBias(mod[t]) /\ ~DropsBias(mod[t]) => bias[mod[t]] = Nothing
  <2>1. pc[t] \in {"forward", "compute"}
    BY DEF BeginForward, EndForward
  <2>. QED
    BY <2>1, OwnPassFacts
<1>1. /\ \/ pc'[t] = "compute" /\ reads'[t] = [w |-> weight[mod[t]], b |-> bias[mod[t]]]
         \/ pc'[t] = "pop"
      /\ UNCHANGED <<content, weight, bias, active, mod, local, temp>>
  BY <1>0 DEF BeginForward, EndForward, MoveTo, TypeOK, poolVars, moduleVars
<1>2. Frame(t)
  BY <1>0 DEF BeginForward, EndForward, MoveTo, TypeOK, Frame, poolVars, moduleVars
<1>3. WeightBuffer(t)' = WeightBuffer(t) /\ OtherBuffer(t)' = OtherBuffer(t)
  BY <1>0, <1>1 DEF WeightBuffer, OtherBuffer
<1>4. PassInPlace(t)'
  BY <1>0, <1>1 DEF PassInPlace
<1>5. ParametersDecrypted(t)'
  BY <1>0, <1>1, <1>3 DEF ParametersDecrypted, HasWeight, HasItsBias
<1>. QED
  BY <1>0, <1>1, <1>2, <1>4, <1>5, StepKeepsExclusiveInv

LEMMA WipeExclusive ==
  ASSUME ExclusiveInv, OwnershipInv', NEW t \in Threads,
         ZeroWeight(t) \/ ZeroBias(t) \/ ReleaseWeight(t) \/ ReleaseBias(t)
  PROVE  ExclusiveInv'
<1>0. /\ pc[t] \in {"zeroW", "zeroB", "releaseW", "releaseB"} /\ PassInPlace(t) /\ TypeOK
      /\ mod[t] \in Modules /\ local[t] \in LeaseRecord
      /\ ~SetsBias(mod[t]) /\ ~DropsBias(mod[t]) => bias[mod[t]] = Nothing
  <2>1. pc[t] \in {"zeroW", "zeroB", "releaseW", "releaseB"}
    BY DEF ZeroWeight, ZeroBias, ReleaseWeight, ReleaseBias
  <2>. QED
    BY <2>1, OwnPassFacts
<1>1. \/ /\ pc[t] = "zeroW" /\ local'[t] = local[t]
         /\ pc'[t] = IF Kind[mod[t]] = "obfuscated" THEN "releaseW" ELSE "zeroB"
      \/ /\ pc[t] = "zeroB" /\ local'[t] = local[t]
         /\ pc'[t] = IF Kind[mod[t]] = "obfuscated" THEN "releaseB" ELSE "releaseW"
      \/ /\ pc[t] = "releaseW" /\ local'[t].w = Nothing /\ local'[t].b = local[t].b
         /\ pc'[t] = IF Kind[mod[t]] = "obfuscated" THEN "zeroB" ELSE "releaseB"
      \/ /\ pc[t] = "releaseB" /\ local'[t].b = Nothing /\ local'[t].w = local[t].w
         /\ pc'[t] = "clear"
  <2>1. CASE ZeroWeight(t) \/ ZeroBias(t)
    BY <1>0, <2>1 DEF ZeroWeight, ZeroBias, MoveTo, TypeOK
  <2>2. CASE ReleaseWeight(t)
    BY <1>0, <2>2 DEF ReleaseWeight, MoveTo, TypeOK, LeaseRecord
  <2>3. CASE ReleaseBias(t)
    BY <1>0, <2>3 DEF ReleaseBias, MoveTo, TypeOK, LeaseRecord
  <2>. QED
    BY <2>1, <2>2, <2>3
<1>2. UNCHANGED <<weight, bias, active, mod, temp, reads>>
  BY DEF ZeroWeight, ZeroBias, ReleaseWeight, ReleaseBias, moduleVars
<1>3. Frame(t)
  <2>1. /\ \A u \in Threads \ {t} : pc'[u] = pc[u] /\ local'[u] = local[u]
        /\ \A c \in Buffers \ {local[t].w, local[t].b} : content'[c] = content[c]
    BY <1>0 DEF ZeroWeight, ZeroBias, ReleaseWeight, ReleaseBias, MoveTo, TypeOK, Free, Wipe
  <2>. QED
    BY <1>2, <2>1 DEF Frame
<1>4. PassInPlace(t)'
  BY <1>0, <1>1, <1>2 DEF PassInPlace
<1>5. ParametersDecrypted(t)'
  BY <1>1 DEF ParametersDecrypted, HasWeight, HasItsBias
<1>6. /\ pc[t] # "idle" /\ pc'[t] # "idle"
      /\ ~SetsBias(mod[t]) /\ ~DropsBias(mod[t]) => bias[mod[t]] = Nothing
  BY <1>0, <1>1
<1>7. ~SetsBias(mod[t]) /\ ~DropsBias(mod[t]) => bias'[mod[t]] = Nothing
  BY <1>2, <1>6 DEF SetsBias, DropsBias
<1>. QED
  BY <1>2, <1>3, <1>4, <1>5, <1>6, <1>7, StepKeepsExclusiveInv

LEMMA ClearExclusive ==
  ASSUME ExclusiveInv, OwnershipInv', NEW t \in Threads, ClearAttributes(t)
  PROVE  ExclusiveInv'
<1>0. /\ pc[t] = "clear" /\ PassInPlace(t) /\ TypeOK
      /\ mod[t] \in Modules /\ local[t] \in LeaseRecord
      /\ ~SetsBias(mod[t]) /\ ~DropsBias(mod[t]) => bias[mod[t]] = Nothing
  <2>1. pc[t] = "clear"
    BY DEF ClearAttributes
  <2>. QED
    BY <2>1, OwnPassFacts
<1>1. /\ pc'[t] = IF mod[t] \in HasMixer THEN "acquireM" ELSE "idle"
      /\ ~DropsBias(mod[t]) => bias'[mod[t]] = bias[mod[t]]
      /\ UNCHANGED <<content, active, mod, local, temp, reads>>
  BY <1>0 DEF ClearAttributes, MoveTo, TypeOK, poolVars
<1>2. Frame(t)
  BY <1>0 DEF ClearAttributes, MoveTo, TypeOK, Frame, poolVars
<1>3. temp[t] = Nothing /\ local[t] = NoLease
  BY <1>0 DEF PassInPlace, LeaseRecord, NoLease
<1>4. pc'[t] # "idle" => PassInPlace(t)' /\ ParametersDecrypted(t)'
  BY <1>1, <1>3 DEF PassInPlace, ParametersDecrypted, HasWeight, HasItsBias, NoLease
<1>. QED
  BY <1>0, <1>1, <1>2, <1>3, <1>4, StepKeepsExclusiveInv

LEMMA MixerExclusive ==
  ASSUME ExclusiveInv, OwnershipInv', NEW t \in Threads, DecryptMixer(t) \/ ApplyMixer(t)
  PROVE  ExclusiveInv'
<1>0. /\ pc[t] \in {"decryptM", "mix"} /\ PassInPlace(t) /\ TypeOK
      /\ mod[t] \in Modules /\ local[t] \in LeaseRecord
      /\ ~SetsBias(mod[t]) /\ ~DropsBias(mod[t]) => bias[mod[t]] = Nothing
  <2>1. pc[t] \in {"decryptM", "mix"}
    BY DEF DecryptMixer, ApplyMixer
  <2>. QED
    BY <2>1, OwnPassFacts
<1>1. PICK b \in Buffers : b = temp[t]
  BY <1>0 DEF PassInPlace, TypeOK
<1>2. /\ \/ pc[t] = "decryptM" /\ pc'[t] = "mix" /\ temp' = temp
         \/ pc[t] = "mix" /\ pc'[t] = "idle" /\ temp'[t] = Nothing
      /\ UNCHANGED <<weight, bias, active, mod, local, reads>>
      /\ \A c \in Buffers \ {b} : content'[c] = content[c]
  BY <1>0, <1>1 DEF DecryptMixer, ApplyMixer, MoveTo, TypeOK, Fill, Free, Wipe, moduleVars
<1>3. Frame(t)
  <2>1. \A u \in Threads \ {t} : pc'[u] = pc[u] /\ temp'[u] = temp[u]
    BY <1>0 DEF DecryptMixer, ApplyMixer, MoveTo, TypeOK
  <2>. QED
    BY <1>1, <1>2, <2>1 DEF Frame
<1>4. local[t] = NoLease
  BY <1>0 DEF PassInPlace, LeaseRecord, NoLease
<1>5. pc'[t] # "idle" => PassInPlace(t)' /\ ParametersDecrypted(t)'
  BY <1>0, <1>2 DEF PassInPlace, ParametersDecrypted, HasWeight, HasItsBias
<1>. QED
  BY <1>0, <1>2, <1>3, <1>4, <1>5, StepKeepsExclusiveInv

\* What the pass had is left behind; the layer's attributes stay.
LEMMA RaiseExclusive ==
  ASSUME ExclusiveInv, OwnershipInv', NEW t \in Threads,
         AcquireFails(t) \/ DecryptFails(t) \/ ForwardRaises(t)
  PROVE  ExclusiveInv'
<1>0. pc[t] # "idle"
  BY DEF AcquireFails, DecryptFails, ForwardRaises
<1>1. TypeOK /\ (~SetsBias(mod[t]) /\ ~DropsBias(mod[t]) => bias[mod[t]] = Nothing)
  BY <1>0, OwnPassFacts
<1>2. /\ Raise(t) /\ UNCHANGED <<moduleVars, mod>>
      /\ \A b \in Buffers \ {temp[t]} : content'[b] = content[b]
  BY DEF AcquireFails, DecryptFails, ForwardRaises, poolVars, Free, Wipe
<1>3. /\ pc'[t] = "idle" /\ temp'[t] = Nothing /\ local'[t] = NoLease
      /\ UNCHANGED <<weight, bias, active, mod>>
  BY <1>1, <1>2 DEF Raise, MoveTo, TypeOK, moduleVars
<1>4. Frame(t)
  BY <1>1, <1>2 DEF Raise, MoveTo, TypeOK, moduleVars, Frame
<1>. QED
  BY <1>0, <1>1, <1>3, <1>4, StepKeepsExclusiveInv

LEMMA CallExclusive ==
  ASSUME ExclusiveInv, OwnershipInv', SerialModules, NEW t \in Threads, NEW m \in Modules,
         CallModule(t, m)
  PROVE  ExclusiveInv'
<1>0. TypeOK /\ pc[t] = "idle" /\ temp[t] = Nothing /\ local[t] = NoLease
  BY DEF CallModule, ExclusiveInv, OwnershipInv
<1>1. /\ \A u \in Threads : pc[u] # "idle" => mod[u] # m /\ u # t
      /\ pc'[t] = "acquireW" /\ mod'[t] = m
      /\ \A u \in Threads \ {t} : pc'[u] = pc[u] /\ mod'[u] = mod[u]
      /\ UNCHANGED <<content, weight, bias, active, local, temp, reads>>
  BY <1>0 DEF CallModule, MoveTo, TypeOK, poolVars, moduleVars
<1>2. LayersAreExclusive'
  BY <1>1 DEF ExclusiveInv, LayersAreExclusive
<1>3. PassInPlace(t)' /\ ParametersDecrypted(t)'
  BY <1>0, <1>1 DEF PassInPlace, ParametersDecrypted, HasWeight, HasItsBias, NoLease
<1>4. ASSUME NEW u \in Threads \ {t}, pc[u] # "idle"
      PROVE  PassInPlace(u)' /\ ParametersDecrypted(u)'
  <2>1. PassInPlace(u) /\ ParametersDecrypted(u) /\ pc'[u] = pc[u] /\ mod'[u] = mod[u]
    BY <1>1, <1>4 DEF ExclusiveInv
  <2>2. WeightBuffer(u)' = WeightBuffer(u) /\ OtherBuffer(u)' = OtherBuffer(u)
    BY <1>1, <2>1 DEF WeightBuffer, OtherBuffer
  <2>. QED
    BY <1>1, <2>1, <2>2 DEF PassInPlace, ParametersDecrypted, HasWeight, HasItsBias
<1>. QED
  BY <1>1, <1>2, <1>3, <1>4 DEF ExclusiveInv

LEMMA IdleExclusive ==
  ASSUME ExclusiveInv, OwnershipInv', PoolStep \/ UNCHANGED vars
  PROVE  ExclusiveInv'
<1>1. UNCHANGED <<lease, jit, content, weight, bias, active, pc, mod, local, temp, reads>>
  BY DEF PoolStep, vars, poolVars, moduleVars, threadVars
<1>2. ASSUME NEW t \in Threads, PassInPlace(t), ParametersDecrypted(t)
      PROVE  PassInPlace(t)' /\ ParametersDecrypted(t)'
  BY <1>1, <1>2 DEF PassInPlace, ParametersDecrypted, HasWeight, HasItsBias, WeightBuffer,
     OtherBuffer
<1>. QED
  BY <1>1, <1>2 DEF ExclusiveInv, LayersAreExclusive

LEMMA ExclusiveInit == Init => ExclusiveInv
BY OwnershipInit DEF Init, ExclusiveInv, LayersAreExclusive

LEMMA ExclusiveNext ==
  ASSUME SerialModules, ExclusiveInv, [Next]_vars
  PROVE  ExclusiveInv'
<1>1. OwnershipInv'
  BY OwnershipNext DEF ExclusiveInv
<1>2. CASE PoolStep \/ UNCHANGED vars
  BY <1>1, <1>2, IdleExclusive
<1>3. ASSUME NEW t \in Threads, NEW m \in Modules, CallModule(t, m)
      PROVE  ExclusiveInv'
  BY <1>1, <1>3, CallExclusive
<1>4. ASSUME NEW t \in Threads, PreHook(t)
      PROVE  ExclusiveInv'
  BY <1>1, <1>4, AcquireExclusive, RaiseExclusive, DecryptWeightExclusive, DecryptBiasExclusive,
     RegisterExclusive DEF PreHook
<1>5. ASSUME NEW t \in Threads, Layer(t)
      PROVE  ExclusiveInv'
  BY <1>1, <1>5, ForwardExclusive, RaiseExclusive DEF Layer
<1>6. ASSUME NEW t \in Threads, PostHook(t)
      PROVE  ExclusiveInv'
  BY <1>1, <1>6, RegisterExclusive, WipeExclusive, ClearExclusive, MixerExclusive DEF PostHook
<1>. QED
  BY <1>2, <1>3, <1>4, <1>5, <1>6 DEF Next

\* What forward() finds and computes with.
LEMMA ForwardFacts ==
  ASSUME ExclusiveInv, NEW t \in Threads, pc[t] \in {"forward", "compute"}
  PROVE  /\ weight[mod[t]] \in Buffers /\ content[weight[mod[t]]] = <<mod[t], "weight">>
         /\ SetsBias(mod[t]) =>
              bias[mod[t]] \in Buffers /\ content[bias[mod[t]]] = <<mod[t], "bias">>
<1>1. /\ PassInPlace(t) /\ ParametersDecrypted(t) /\ mod[t] \in Modules
      /\ active[mod[t]] \in LeaseRecord
  BY OwnPassFacts
<1>2. weight[mod[t]] = active[mod[t]].w /\ content[active[mod[t]].w] = <<mod[t], "weight">>
  BY <1>1 DEF ParametersDecrypted, HasWeight, WeightBuffer
<1>3. SetsBias(mod[t]) =>
        bias[mod[t]] = active[mod[t]].b /\ content[active[mod[t]].b] = <<mod[t], "bias">>
  BY <1>1 DEF ParametersDecrypted, HasItsBias, SetsBias, OtherBuffer
<1>4. active[mod[t]].w \in Buffers /\ (SetsBias(mod[t]) => active[mod[t]].b \in Buffers)
  BY <1>1 DEF PassInPlace, SetsBias, LeaseRecord
<1>. QED
  BY <1>2, <1>3, <1>4

\* If no layer runs in two threads, a pass has its buffers and its layer's
\* decrypted parameters where its phase says, whatever fails around it.
THEOREM HooksExclusiveInvariant ==
  ASSUME SerialModules
  PROVE  Spec => []ExclusiveInv
BY ExclusiveInit, ExclusiveNext, PTL DEF Spec

\* forward() computes with its own layer's weight and bias, if no layer runs
\* in two threads: whatever the hooks of other layers do to the pool meanwhile,
\* and whatever earlier failures have left leased, registered or set.
THEOREM HooksComputeReadsOwnLayer ==
  ASSUME SerialModules
  PROVE  Spec => []ComputeReadsOwnLayer
<1>1. ExclusiveInv => ComputeReadsOwnLayer
  <2>. SUFFICES ASSUME ExclusiveInv, NEW t \in Threads, pc[t] = "compute"
                PROVE  /\ reads[t].w \in Buffers /\ content[reads[t].w] = <<mod[t], "weight">>
                       /\ mod[t] \in HasBias /\ Kind[mod[t]] # "obfuscated" =>
                            reads[t].b \in Buffers /\ content[reads[t].b] = <<mod[t], "bias">>
    BY DEF ComputeReadsOwnLayer
  <2>1. reads[t] = [w |-> weight[mod[t]], b |-> bias[mod[t]]]
    BY OwnPassFacts DEF ParametersDecrypted
  <2>. QED
    BY <2>1, ForwardFacts DEF SetsBias
<1>. QED
  BY <1>1, HooksExclusiveInvariant, PTL

\* forward() finds the attributes it fetches, in every pass and after every
\* failure, if no layer runs in two threads and the layers of the base shield
\* have an encrypted bias: what the post-hook deletes the pre-hook puts back.
THEOREM HooksForwardFindsItsParameters ==
  ASSUME SerialModules, BaseLayersHaveBias
  PROVE  Spec => []ForwardFindsItsParameters
<1>1. ExclusiveInv => ForwardFindsItsParameters
  <2>. SUFFICES ASSUME ExclusiveInv, NEW t \in Threads, pc[t] = "forward"
                PROVE  weight[mod[t]] # Absent /\ bias[mod[t]] # Absent
    BY DEF ForwardFindsItsParameters
  <2>1. ~SetsBias(mod[t]) => bias[mod[t]] = Nothing
    BY OwnPassFacts DEF SetsBias, DropsBias, BaseLayersHaveBias
  <2>. QED
    BY <2>1, ForwardFacts, NothingIsNoBuffer
<1>. QED
  BY <1>1, HooksExclusiveInvariant, PTL

-----------------------------------------------------------------------------
(***************************************************************************)
(* A program in which, besides, nothing fails: every forward pass gives    *)
(* everything back.                                                        *)
(***************************************************************************)

\* The pass is in order after the step, or over and its layer at rest.
StaysInOrder(t) ==
  /\ pc'[t] # "idle" => PassInv(t)'
  /\ pc'[t] = "idle" =>
       /\ temp'[t] = Nothing /\ local'[t] = NoLease /\ active'[mod[t]] = NoLease
       /\ weight'[mod[t]] \notin Buffers /\ bias'[mod[t]] \notin Buffers
  /\ ~SetsBias(mod[t]) => bias'[mod[t]] = Nothing

\* What is still held belongs to this pass, or to the pass it belonged to, and
\* there is no plaintext in a buffer that has been returned.
Accounts(t) ==
  /\ \A b \in (Held \cup jit)' :
       \/ b \in {WeightBuffer(t)', OtherBuffer(t)'} /\ pc'[t] # "idle"
       \/ b \in (Held \cup jit) \ {WeightBuffer(t), OtherBuffer(t)}
  /\ \A b \in Buffers : content'[b] # Nothing => b \in (Held \cup jit)'

\* The other passes do not notice.
LEMMA OtherPass ==
  ASSUME SerialInv, NEW t \in Threads, NEW u \in Threads \ {t},
         pc[t] # "idle", pc[u] # "idle", Frame(t)
  PROVE  PassInv(u)' /\ WeightBuffer(u)' = WeightBuffer(u) /\ OtherBuffer(u)' = OtherBuffer(u)
<1>1. PICK m \in Modules : m = mod[u] /\ m # mod[t] /\ mod'[u] = m
  BY DEF SerialInv, LayersAreExclusive, Frame, OwnershipInv, TypeOK
<1>2. /\ pc'[u] = pc[u] /\ local'[u] = local[u] /\ temp'[u] = temp[u] /\ reads'[u] = reads[u]
      /\ weight'[m] = weight[m] /\ bias'[m] = bias[m] /\ active'[m] = active[m]
  BY <1>1 DEF Frame
<1>3. WeightBuffer(u)' = WeightBuffer(u) /\ OtherBuffer(u)' = OtherBuffer(u)
  BY <1>1, <1>2 DEF WeightBuffer, OtherBuffer
<1>4. ASSUME NEW b \in Buffers, b \in {WeightBuffer(u), OtherBuffer(u)}
      PROVE  content'[b] = content[b]
  <2>1. KnownOnce(b) /\ (InTemp(u, b) \/ InLocal(u, b) \/ Registered(m, b))
    BY <1>1, <1>4 DEF SerialInv, OwnershipInv, BuffersAreKnownOnce, WeightBuffer, OtherBuffer,
       InTemp, InLocal, Registered
  <2>2. b \notin {temp[t], local[t].w, local[t].b}
    BY <2>1 DEF KnownOnce, InTemp, InLocal
  <2>. QED
    BY <2>2 DEF Frame
<1>5. PassInv(u)
  BY DEF SerialInv, PassesAreInOrder
<1>6. BuffersInPlace(u)'
  BY <1>1, <1>2, <1>5 DEF PassInv, BuffersInPlace, PassInPlace
<1>7. /\ HasWeight(u)' <=> HasWeight(u)
      /\ HasItsBias(u)' <=> HasItsBias(u)
      /\ HasWeight(u) => WeightBuffer(u) \in Buffers
      /\ HasItsBias(u) => OtherBuffer(u) \in Buffers
  BY <1>1, <1>2, <1>5 DEF PassInv, BuffersInPlace, PassInPlace, HasWeight, HasItsBias, WeightBuffer,
     OtherBuffer, SerialInv, OwnershipInv, TypeOK, LeaseRecord
<1>8. ParametersDecrypted(u)'
  BY <1>1, <1>2, <1>3, <1>4, <1>5, <1>7 DEF PassInv, ParametersDecrypted
<1>9. AttributesCleared(u)'
  BY <1>1, <1>2, <1>5, <1>7 DEF PassInv, AttributesCleared
<1>. QED
  BY <1>3, <1>6, <1>8, <1>9 DEF PassInv

LEMMA StepKeepsSerialInv ==
  ASSUME SerialInv, OwnershipInv', NEW t \in Threads, pc[t] # "idle",
         Frame(t), StaysInOrder(t), Accounts(t)
  PROVE  SerialInv'
<1>1. LayersAreExclusive'
  BY DEF SerialInv, LayersAreExclusive, Frame
<1>2. PassesAreInOrder'
  <2>1. ASSUME NEW u \in Threads, pc'[u] # "idle"
        PROVE  PassInv(u)'
    BY <2>1, OtherPass DEF StaysInOrder, Frame
  <2>2. ASSUME NEW u \in Threads, pc'[u] = "idle"
        PROVE  temp'[u] = Nothing /\ local'[u] = NoLease
    BY <2>2 DEF StaysInOrder, Frame, SerialInv, PassesAreInOrder
  <2>. QED
    BY <2>1, <2>2 DEF PassesAreInOrder
<1>3. LayersAtRest'
  <2>1. ASSUME NEW m \in Modules
        PROVE  \/ \E u \in Threads : pc'[u] # "idle" /\ mod'[u] = m
               \/ active'[m] = NoLease /\ weight'[m] \notin Buffers /\ bias'[m] \notin Buffers
    <3>1. CASE m = mod[t]
      BY <3>1 DEF StaysInOrder, Frame
    <3>2. CASE m # mod[t]
      BY <3>2 DEF Frame, SerialInv, LayersAtRest
    <3>. QED
      BY <3>1, <3>2
  <2>2. ASSUME NEW m \in Modules, ~SetsBias(m)
        PROVE  bias'[m] = Nothing
    BY <2>2 DEF StaysInOrder, Frame, SerialInv, LayersAtRest
  <2>. QED
    BY <2>1, <2>2 DEF LayersAtRest
<1>4. HeldIsKnown'
  <2>1. ASSUME NEW b \in (Held \cup jit)'
        PROVE  \E u \in Threads : pc'[u] # "idle" /\ b \in {WeightBuffer(u)', OtherBuffer(u)'}
    <3>1. CASE b \in {WeightBuffer(t)', OtherBuffer(t)'} /\ pc'[t] # "idle"
      BY <3>1
    <3>2. CASE b \in (Held \cup jit) \ {WeightBuffer(t), OtherBuffer(t)}
      <4>1. PICK u \in Threads : pc[u] # "idle" /\ b \in {WeightBuffer(u), OtherBuffer(u)}
        BY <3>2 DEF SerialInv, HeldIsKnown
      <4>2. u # t
        BY <4>1, <3>2
      <4>. QED
        BY <4>1, <4>2, OtherPass DEF Frame
    <3>. QED
      BY <3>1, <3>2 DEF Accounts
  <2>. QED
    BY <2>1 DEF HeldIsKnown, Accounts
<1>. QED
  BY <1>1, <1>2, <1>3, <1>4 DEF SerialInv

\* What the invariant says of the pass of one thread.
LEMMA PassFacts ==
  ASSUME SerialInv, NEW t \in Threads, pc[t] # "idle"
  PROVE  /\ PassInv(t) /\ TypeOK
         /\ mod[t] \in Modules /\ local[t] \in LeaseRecord /\ active[mod[t]] \in LeaseRecord
         /\ ~SetsBias(mod[t]) => bias[mod[t]] = Nothing
         /\ \A b \in Buffers : content[b] # Nothing => b \in Held \cup jit
         /\ Held \cup jit \subseteq Buffers
<1>1. TypeOK
  BY DEF SerialInv, OwnershipInv
<1>. QED
  BY <1>1 DEF SerialInv, PassesAreInOrder, LayersAtRest, HeldIsKnown, TypeOK, Held, Buffers

-----------------------------------------------------------------------------
(* The pre-hook.                                                           *)

\* A page or slot for every pass: AcquireFails never happens.
LEMMA PagesRemain ==
  ASSUME SerialInv, PagesSuffice, NEW t \in Threads, pc[t] \in {"acquireW", "acquireB", "acquireM"}
  PROVE  jit # JitPages
<1>. SUFFICES ASSUME jit = JitPages
              PROVE  FALSE
  OBVIOUS
<1>. DEFINE Places == (Threads \X {1, 2}) \ {<<t, 2>>}
            buffer == [p \in Places |-> IF p[2] = 1 THEN WeightBuffer(p[1]) ELSE OtherBuffer(p[1])]
            image == {buffer[p] : p \in Places}
<1>1. JitPages \subseteq image
  <2>. SUFFICES ASSUME NEW b \in JitPages
                PROVE  b \in image
    OBVIOUS
  <2>1. PICK u \in Threads : b \in {WeightBuffer(u), OtherBuffer(u)}
    BY DEF SerialInv, HeldIsKnown
  <2>2. OtherBuffer(t) = Nothing /\ b # Nothing
    <3>1. PassInv(t)
      BY PassFacts
    <3>2. b \in Buffers
      BY DEF Buffers
    <3>. QED
      BY <3>1, <3>2, NothingIsNoBuffer DEF OtherBuffer, PassInv, BuffersInPlace, PassInPlace
  <2>3. CASE b = WeightBuffer(u)
    <3>1. <<u, 1>> \in Places /\ buffer[<<u, 1>>] = b
      BY <2>3
    <3>. QED
      BY <3>1
  <2>4. CASE b = OtherBuffer(u)
    <3>1. <<u, 2>> \in Places /\ buffer[<<u, 2>>] = b
      BY <2>4, <2>2
    <3>. QED
      BY <3>1
  <2>. QED
    BY <2>1, <2>3, <2>4
<1>2. /\ IsFiniteSet(Places)
      /\ Cardinality(Places) = 2 * Cardinality(Threads) - 1
      /\ Cardinality(Threads) \in Nat
  <2>1. IsFiniteSet({1, 2}) /\ Cardinality({1, 2}) = 2
    <3>1. IsFiniteSet({1}) /\ Cardinality({1}) = 1
      BY FS_Singleton
    <3>2. {1} \cup {2} = {1, 2} /\ 2 \notin {1}
      OBVIOUS
    <3>3. IsFiniteSet({1} \cup {2}) /\ Cardinality({1} \cup {2}) = Cardinality({1}) + 1
      BY <3>1, <3>2, FS_AddElement
    <3>. QED
      BY <3>1, <3>2, <3>3
  <2>2. IsFiniteSet(Threads) /\ Cardinality(Threads) \in Nat
    BY FS_CardinalityType DEF PagesSuffice
  <2>3. /\ IsFiniteSet(Threads \X {1, 2})
        /\ Cardinality(Threads \X {1, 2}) = Cardinality(Threads) * 2
    BY <2>1, <2>2, FS_Product
  <2>4. <<t, 2>> \in Threads \X {1, 2}
    OBVIOUS
  <2>5. /\ IsFiniteSet(Places)
        /\ Cardinality(Places) = Cardinality(Threads \X {1, 2}) - 1
    <3>. DEFINE pairs == Threads \X {1, 2}
    <3>1. PICK x \in pairs : x = <<t, 2>>
      BY <2>4
    <3>2. IsFiniteSet(pairs)
      BY <2>3
    <3>. HIDE DEF pairs
    <3>3. /\ IsFiniteSet(pairs \ {x})
          /\ Cardinality(pairs \ {x}) = Cardinality(pairs) - 1
      BY <3>2, FS_RemoveElement, Zenon
    <3>. QED
      BY <3>1, <3>3 DEF pairs
  <2>. QED
    BY <2>2, <2>3, <2>5
<1>3. IsFiniteSet(image) /\ Cardinality(image) <= Cardinality(Places)
  <2>. HIDE DEF Places
  <2>1. buffer \in Surjection(Places, image)
    BY DEF Surjection
  <2>. HIDE DEF image, buffer
  <2>. QED
    BY <1>2, <2>1, FS_Surjection
<1>. HIDE DEF image, Places
<1>4. /\ IsFiniteSet(JitPages) /\ Cardinality(JitPages) <= Cardinality(image)
      /\ Cardinality(image) \in Nat /\ Cardinality(JitPages) \in Nat
  BY <1>1, <1>3, FS_Subset, FS_CardinalityType
<1>. QED
  BY <1>2, <1>3, <1>4 DEF PagesSuffice

LEMMA AcquirePass ==
  ASSUME SerialInv, OwnershipInv', NEW t \in Threads, AcquireBuffer(t)
  PROVE  SerialInv'
<1>1. PICK b \in Buffers : Acquire(t, b)
  BY DEF AcquireBuffer
<1>2. /\ pc[t] \in {"acquireW", "acquireB", "acquireM"}
      /\ PassInv(t) /\ TypeOK /\ mod[t] \in Modules
      /\ ~SetsBias(mod[t]) => bias[mod[t]] = Nothing
  <2>1. pc[t] \in {"acquireW", "acquireB", "acquireM"}
    BY DEF AcquireBuffer
  <2>. QED
    BY <2>1, PassFacts
<1>3. /\ temp'[t] = b /\ b # Nothing
      /\ \/ pc[t] = "acquireW" /\ pc'[t] = "decryptW"
         \/ pc[t] = "acquireB" /\ pc'[t] = "decryptB"
         \/ pc[t] = "acquireM" /\ pc'[t] = "decryptM"
      /\ \A u \in Threads \ {t} : pc'[u] = pc[u] /\ temp'[u] = temp[u]
      /\ UNCHANGED <<content, weight, bias, active, mod, local, reads>>
  BY <1>1, <1>2, NothingIsNoBuffer DEF AcquireBuffer, Acquire, MoveTo, TypeOK, moduleVars
<1>4. Frame(t)
  BY <1>3 DEF Frame
<1>5. PassInv(t)'
  BY <1>2, <1>3 DEF PassInv, BuffersInPlace, PassInPlace, ParametersDecrypted, AttributesCleared, HasWeight,
     HasItsBias, WeightBuffer, OtherBuffer
<1>6. StaysInOrder(t)
  BY <1>2, <1>3, <1>5 DEF StaysInOrder
<1>7. Accounts(t)
  <2>1. (Held \cup jit)' = Held \cup jit \cup {b}
    BY <1>1, <1>2 DEF Acquire, Held, TypeOK
  <2>2. WeightBuffer(t) \in {WeightBuffer(t)', Nothing} /\ OtherBuffer(t) = Nothing
    BY <1>2, <1>3 DEF WeightBuffer, OtherBuffer, PassInv, BuffersInPlace, PassInPlace
  <2>3. b \in {WeightBuffer(t)', OtherBuffer(t)'}
    BY <1>3 DEF WeightBuffer, OtherBuffer
  <2>4. Nothing \notin Held \cup jit
    BY <1>2, PassFacts, NothingIsNoBuffer
  <2>. QED
    BY <1>3, <2>1, <2>2, <2>3, <2>4, PassFacts DEF Accounts
<1>. QED
  BY <1>2, <1>4, <1>6, <1>7, StepKeepsSerialInv

LEMMA DecryptWeightPass ==
  ASSUME SerialInv, OwnershipInv', NEW t \in Threads, DecryptWeight(t)
  PROVE  SerialInv'
<1>1. PICK m \in Modules, b \in Buffers : m = mod[t] /\ b = temp[t]
  BY PassFacts DEF DecryptWeight, PassInv, BuffersInPlace, PassInPlace, TypeOK
<1>2. /\ pc[t] = "decryptW" /\ pc'[t] = IF m \in HasBias THEN "acquireB" ELSE "register"
      /\ weight'[m] = b /\ content'[b] = <<m, "weight">>
      /\ local'[t].w = b /\ local'[t].b = local[t].b /\ temp'[t] = Nothing
      /\ UNCHANGED <<lease, jit, bias, active, mod, reads>>
  BY <1>1, PassFacts DEF DecryptWeight, Fill, MoveTo, TypeOK, LeaseRecord
<1>3. Frame(t)
  BY <1>1, PassFacts DEF DecryptWeight, Fill, MoveTo, TypeOK, Frame
<1>4. b # Nothing /\ PassInv(t) /\ (~SetsBias(m) => bias[m] = Nothing)
  BY <1>1, <1>2, PassFacts, NothingIsNoBuffer
<1>5. PassInv(t)'
  BY <1>1, <1>2, <1>4 DEF PassInv, BuffersInPlace, PassInPlace, ParametersDecrypted, AttributesCleared,
     HasWeight, HasItsBias, WeightBuffer, OtherBuffer, SetsBias
<1>6. StaysInOrder(t)
  BY <1>1, <1>2, <1>4, <1>5 DEF StaysInOrder
<1>7. Accounts(t)
  <2>1. (Held \cup jit)' = Held \cup jit /\ b \in Held \cup jit
    BY <1>1, <1>2 DEF Held, SerialInv, OwnershipInv, KnownIsHeld, Known, InTemp
  <2>2. WeightBuffer(t)' = WeightBuffer(t) /\ OtherBuffer(t)' = OtherBuffer(t)
    BY <1>1, <1>2, <1>4 DEF WeightBuffer, OtherBuffer
  <2>3. \A c \in Buffers : c = b \/ content'[c] = content[c]
    BY <1>1, PassFacts DEF DecryptWeight, Fill, TypeOK
  <2>. QED
    BY <1>2, <2>1, <2>2, <2>3, PassFacts DEF Accounts
<1>. QED
  BY <1>2, <1>3, <1>6, <1>7, StepKeepsSerialInv

\* A step that gives no buffer back.
LEMMA KeepsBuffers ==
  ASSUME SerialInv, NEW t \in Threads, UNCHANGED <<lease, jit>>, pc'[t] # "idle",
         WeightBuffer(t) \in {WeightBuffer(t)', OtherBuffer(t)', Nothing},
         OtherBuffer(t) \in {WeightBuffer(t)', OtherBuffer(t)', Nothing},
         \A b \in Buffers : content'[b] \in {content[b], Nothing} \/ b \in Held \cup jit
  PROVE  Accounts(t)
<1>1. (Held \cup jit)' = Held \cup jit
  BY DEF Held
<1>2. Nothing \notin Held \cup jit
  BY NothingIsNoBuffer DEF SerialInv, OwnershipInv, TypeOK, Held, Buffers
<1>. QED
  BY <1>1, <1>2 DEF Accounts, SerialInv, HeldIsKnown

LEMMA DecryptBiasPass ==
  ASSUME SerialInv, OwnershipInv', NEW t \in Threads, DecryptBias(t)
  PROVE  SerialInv'
<1>0. /\ pc[t] = "decryptB" /\ PassInv(t) /\ TypeOK
      /\ mod[t] \in Modules /\ local[t] \in LeaseRecord
      /\ (~SetsBias(mod[t]) => bias[mod[t]] = Nothing)
  <2>1. pc[t] = "decryptB"
    BY DEF DecryptBias
  <2>. QED
    BY <2>1, PassFacts
<1>1. PICK m \in Modules, b \in Buffers : m = mod[t] /\ b = temp[t]
  BY <1>0 DEF PassInv, BuffersInPlace, PassInPlace, TypeOK
<1>2. /\ pc'[t] = "register" /\ content' = [content EXCEPT ![b] = <<m, "bias">>]
      /\ local'[t].b = b /\ local'[t].w = local[t].w /\ temp'[t] = Nothing
      /\ bias' = IF Kind[m] = "obfuscated" THEN bias ELSE [bias EXCEPT ![m] = b]
      /\ UNCHANGED <<lease, jit, weight, active, mod, reads>>
  BY <1>0, <1>1 DEF DecryptBias, Fill, MoveTo, TypeOK, LeaseRecord
<1>3. Frame(t)
  BY <1>0, <1>1 DEF DecryptBias, Fill, MoveTo, TypeOK, Frame
<1>4. /\ local[t].w \in Buffers /\ local[t].w # b /\ b # Nothing /\ m \in HasBias
      /\ WeightBuffer(t) = local[t].w /\ OtherBuffer(t) = b
  <2>1. local[t].w \in Buffers /\ m \in HasBias /\ b # Nothing
    BY <1>0, <1>1, NothingIsNoBuffer DEF PassInv, BuffersInPlace, PassInPlace, LeaseRecord
  <2>2. KnownOnce(b)
    BY DEF SerialInv, OwnershipInv, BuffersAreKnownOnce
  <2>3. local[t].w # b
    BY <1>1, <2>2 DEF KnownOnce, InTemp, InLocal
  <2>. QED
    BY <1>0, <1>1, <2>1, <2>3 DEF WeightBuffer, OtherBuffer
<1>5. WeightBuffer(t)' = WeightBuffer(t) /\ OtherBuffer(t)' = b
  BY <1>2, <1>4 DEF WeightBuffer, OtherBuffer
<1>6. /\ content'[b] = <<m, "bias">>
      /\ weight[m] = local[t].w /\ content'[local[t].w] = <<m, "weight">>
      /\ SetsBias(m) => bias'[m] = b
      /\ ~SetsBias(m) => bias'[m] = Nothing
  <2>1. weight[m] = local[t].w /\ content[local[t].w] = <<m, "weight">>
    BY <1>0, <1>1, <1>4 DEF PassInv, ParametersDecrypted, HasWeight
  <2>. QED
    BY <1>0, <1>1, <1>2, <1>4, <2>1 DEF SetsBias, TypeOK
<1>7. PassInv(t)'
  <2>1. BuffersInPlace(t)'
    BY <1>0, <1>1, <1>2, <1>4 DEF PassInv, BuffersInPlace, PassInPlace
  <2>2. ParametersDecrypted(t)'
    BY <1>1, <1>2, <1>4, <1>5, <1>6 DEF ParametersDecrypted, HasWeight, HasItsBias
  <2>3. AttributesCleared(t)'
    BY <1>2 DEF AttributesCleared, HasWeight
  <2>. QED
    BY <2>1, <2>2, <2>3 DEF PassInv
<1>8. StaysInOrder(t)
  BY <1>1, <1>2, <1>6, <1>7 DEF StaysInOrder
<1>9. Accounts(t)
  <2>1. b \in Held \cup jit
    BY <1>1 DEF SerialInv, OwnershipInv, KnownIsHeld, Known, InTemp
  <2>. QED
    BY <1>0, <1>2, <1>4, <1>5, <2>1, KeepsBuffers DEF TypeOK
<1>. QED
  BY <1>0, <1>3, <1>8, <1>9, StepKeepsSerialInv

LEMMA RegisterPass ==
  ASSUME SerialInv, OwnershipInv', NEW t \in Threads, RegisterLease(t)
  PROVE  SerialInv'
<1>0. /\ pc[t] = "register" /\ PassInv(t) /\ TypeOK /\ mod[t] \in Modules
      /\ (~SetsBias(mod[t]) => bias[mod[t]] = Nothing)
  <2>1. pc[t] = "register"
    BY DEF RegisterLease
  <2>. QED
    BY <2>1, PassFacts
<1>1. PICK m \in Modules : m = mod[t]
  BY <1>0
<1>2. /\ pc'[t] = "forward" /\ active'[m] = local[t] /\ local'[t] = NoLease
      /\ UNCHANGED <<lease, jit, content, weight, bias, mod, temp, reads>>
  BY <1>0, <1>1 DEF RegisterLease, MoveTo, TypeOK, poolVars
<1>3. Frame(t)
  BY <1>0, <1>1 DEF RegisterLease, MoveTo, TypeOK, Frame, poolVars
<1>4. WeightBuffer(t)' = WeightBuffer(t) /\ OtherBuffer(t)' = OtherBuffer(t)
  BY <1>0, <1>1, <1>2 DEF WeightBuffer, OtherBuffer
<1>5. PassInv(t)'
  <2>1. BuffersInPlace(t)'
    BY <1>0, <1>1, <1>2 DEF PassInv, BuffersInPlace, PassInPlace, NoLease
  <2>2. ParametersDecrypted(t)'
    BY <1>0, <1>1, <1>2, <1>4 DEF PassInv, ParametersDecrypted, HasWeight, HasItsBias
  <2>3. AttributesCleared(t)'
    BY <1>2 DEF AttributesCleared, HasWeight
  <2>. QED
    BY <2>1, <2>2, <2>3 DEF PassInv
<1>6. StaysInOrder(t)
  BY <1>0, <1>1, <1>2, <1>5 DEF StaysInOrder
<1>7. Accounts(t)
  BY <1>2, <1>4, KeepsBuffers
<1>. QED
  BY <1>0, <1>3, <1>6, <1>7, StepKeepsSerialInv

-----------------------------------------------------------------------------
(* The layer itself.                                                       *)

LEMMA ForwardPass ==
  ASSUME SerialInv, OwnershipInv', NEW t \in Threads, BeginForward(t) \/ EndForward(t)
  PROVE  SerialInv'
<1>0. /\ pc[t] \in {"forward", "compute"} /\ PassInv(t) /\ TypeOK /\ mod[t] \in Modules
      /\ (~SetsBias(mod[t]) => bias[mod[t]] = Nothing)
  <2>1. pc[t] \in {"forward", "compute"}
    BY DEF BeginForward, EndForward
  <2>. QED
    BY <2>1, PassFacts
<1>1. /\ \/ pc'[t] = "compute" /\ reads'[t] = [w |-> weight[mod[t]], b |-> bias[mod[t]]]
         \/ pc'[t] = "pop"
      /\ UNCHANGED <<lease, jit, content, weight, bias, active, mod, local, temp>>
  BY <1>0 DEF BeginForward, EndForward, MoveTo, TypeOK, poolVars, moduleVars
<1>2. Frame(t)
  BY <1>0 DEF BeginForward, EndForward, MoveTo, TypeOK, Frame, poolVars, moduleVars
<1>3. WeightBuffer(t)' = WeightBuffer(t) /\ OtherBuffer(t)' = OtherBuffer(t)
  BY <1>0, <1>1 DEF WeightBuffer, OtherBuffer
<1>4. PassInv(t)'
  <2>1. BuffersInPlace(t)'
    BY <1>0, <1>1 DEF PassInv, BuffersInPlace, PassInPlace
  <2>2. ParametersDecrypted(t)'
    BY <1>0, <1>1, <1>3 DEF PassInv, ParametersDecrypted, HasWeight, HasItsBias
  <2>3. AttributesCleared(t)'
    BY <1>1 DEF AttributesCleared, HasWeight
  <2>. QED
    BY <2>1, <2>2, <2>3 DEF PassInv
<1>5. StaysInOrder(t)
  BY <1>0, <1>1, <1>4 DEF StaysInOrder
<1>6. Accounts(t)
  BY <1>1, <1>3, KeepsBuffers
<1>. QED
  BY <1>0, <1>2, <1>5, <1>6, StepKeepsSerialInv

-----------------------------------------------------------------------------
(* The post-hook.                                                          *)

LEMMA PopPass ==
  ASSUME SerialInv, OwnershipInv', NEW t \in Threads, PopLease(t)
  PROVE  SerialInv'
<1>0. /\ pc[t] = "pop" /\ PassInv(t) /\ TypeOK /\ mod[t] \in Modules
      /\ (~SetsBias(mod[t]) => bias[mod[t]] = Nothing)
  <2>1. pc[t] = "pop"
    BY DEF PopLease
  <2>. QED
    BY <2>1, PassFacts
<1>1. PICK m \in Modules : m = mod[t]
  BY <1>0
<1>2. /\ pc'[t] = "zeroW" /\ local'[t] = active[m] /\ active'[m] = NoLease
      /\ Kind[m] = "obfuscated" => weight'[m] = Absent
      /\ UNCHANGED <<lease, jit, content, bias, mod, temp, reads>>
  BY <1>0, <1>1 DEF PopLease, MoveTo, TypeOK, poolVars
<1>3. Frame(t)
  BY <1>0, <1>1 DEF PopLease, MoveTo, TypeOK, Frame, poolVars
<1>4. WeightBuffer(t)' = WeightBuffer(t) /\ OtherBuffer(t)' = OtherBuffer(t)
  BY <1>0, <1>1, <1>2 DEF WeightBuffer, OtherBuffer
<1>5. PassInv(t)'
  <2>1. BuffersInPlace(t)'
    BY <1>0, <1>1, <1>2 DEF PassInv, BuffersInPlace, PassInPlace, NoLease
  <2>2. ParametersDecrypted(t)'
    BY <1>2 DEF ParametersDecrypted, HasWeight, HasItsBias
  <2>3. AttributesCleared(t)'
    BY <1>1, <1>2, NothingIsNoBuffer DEF AttributesCleared, HasWeight
  <2>. QED
    BY <2>1, <2>2, <2>3 DEF PassInv
<1>6. StaysInOrder(t)
  BY <1>0, <1>1, <1>2, <1>5 DEF StaysInOrder
<1>7. Accounts(t)
  BY <1>2, <1>4, KeepsBuffers
<1>. QED
  BY <1>0, <1>3, <1>6, <1>7, StepKeepsSerialInv

LEMMA ZeroPass ==
  ASSUME SerialInv, OwnershipInv', NEW t \in Threads, ZeroWeight(t) \/ ZeroBias(t)
  PROVE  SerialInv'
<1>0. /\ pc[t] \in {"zeroW", "zeroB"} /\ PassInv(t) /\ TypeOK /\ mod[t] \in Modules
      /\ (~SetsBias(mod[t]) => bias[mod[t]] = Nothing)
  <2>1. pc[t] \in {"zeroW", "zeroB"}
    BY DEF ZeroWeight, ZeroBias
  <2>. QED
    BY <2>1, PassFacts
<1>1. /\ \/ /\ pc[t] = "zeroW"
            /\ pc'[t] = IF Kind[mod[t]] = "obfuscated" THEN "releaseW" ELSE "zeroB"
         \/ /\ pc[t] = "zeroB"
            /\ pc'[t] = IF Kind[mod[t]] = "obfuscated" THEN "releaseB" ELSE "releaseW"
      /\ UNCHANGED <<lease, jit, weight, bias, active, mod, local, temp, reads>>
      /\ \A b \in Buffers : /\ content'[b] \in {content[b], Nothing}
                            /\ b \notin {local[t].w, local[t].b} => content'[b] = content[b]
  BY <1>0 DEF ZeroWeight, ZeroBias, Wipe, MoveTo, TypeOK, moduleVars
<1>2. Frame(t)
  BY <1>0, <1>1 DEF ZeroWeight, ZeroBias, MoveTo, TypeOK, Frame
<1>3. WeightBuffer(t)' = WeightBuffer(t) /\ OtherBuffer(t)' = OtherBuffer(t)
  BY <1>0, <1>1 DEF WeightBuffer, OtherBuffer
<1>4. PassInv(t)'
  <2>1. BuffersInPlace(t)'
    BY <1>0, <1>1 DEF PassInv, BuffersInPlace, PassInPlace
  <2>2. ParametersDecrypted(t)'
    BY <1>1 DEF ParametersDecrypted, HasWeight, HasItsBias
  <2>3. AttributesCleared(t)'
    BY <1>0, <1>1 DEF PassInv, AttributesCleared, HasWeight
  <2>. QED
    BY <2>1, <2>2, <2>3 DEF PassInv
<1>5. StaysInOrder(t)
  BY <1>0, <1>1, <1>4 DEF StaysInOrder
<1>6. Accounts(t)
  BY <1>1, <1>3, KeepsBuffers
<1>. QED
  BY <1>0, <1>2, <1>5, <1>6, StepKeepsSerialInv

\* A step that gives the buffer b back.
LEMMA GivesBack ==
  ASSUME SerialInv, NEW t \in Threads, NEW b, Free({b}),
         \/ /\ pc'[t] # "idle"
            /\ WeightBuffer(t) \in {WeightBuffer(t)', OtherBuffer(t)', b, Nothing}
            /\ OtherBuffer(t) \in {WeightBuffer(t)', OtherBuffer(t)', b, Nothing}
         \/ {WeightBuffer(t), OtherBuffer(t)} \subseteq {b, Nothing}
  PROVE  Accounts(t)
<1>1. (Held \cup jit)' = (Held \cup jit) \ {b}
  BY FreeFacts DEF SerialInv, OwnershipInv
<1>2. Nothing \notin Held \cup jit
  BY NothingIsNoBuffer DEF SerialInv, OwnershipInv, TypeOK, Held, Buffers
<1>3. \A c \in Buffers : content'[c] # Nothing => content[c] # Nothing /\ c # b
  BY DEF Free, Wipe
<1>. QED
  BY <1>1, <1>2, <1>3 DEF Accounts, SerialInv, HeldIsKnown

LEMMA ReleasePass ==
  ASSUME SerialInv, OwnershipInv', NEW t \in Threads, ReleaseWeight(t) \/ ReleaseBias(t)
  PROVE  SerialInv'
<1>0. /\ pc[t] \in {"releaseW", "releaseB"} /\ PassInv(t) /\ TypeOK
      /\ mod[t] \in Modules /\ local[t] \in LeaseRecord
      /\ (~SetsBias(mod[t]) => bias[mod[t]] = Nothing)
  <2>1. pc[t] \in {"releaseW", "releaseB"}
    BY DEF ReleaseWeight, ReleaseBias
  <2>. QED
    BY <2>1, PassFacts
<1>1. PICK b :
        /\ Free({b})
        /\ \/ /\ pc[t] = "releaseW" /\ b = local[t].w
              /\ local'[t].w = Nothing /\ local'[t].b = local[t].b
              /\ pc'[t] = IF Kind[mod[t]] = "obfuscated" THEN "zeroB" ELSE "releaseB"
           \/ /\ pc[t] = "releaseB" /\ b = local[t].b /\ pc'[t] = "clear"
              /\ local'[t].b = Nothing /\ local'[t].w = local[t].w
  <2>1. CASE ReleaseWeight(t)
    BY <1>0, <2>1 DEF ReleaseWeight, MoveTo, TypeOK, LeaseRecord
  <2>2. CASE ReleaseBias(t)
    BY <1>0, <2>2 DEF ReleaseBias, MoveTo, TypeOK, LeaseRecord
  <2>. QED
    BY <2>1, <2>2
<1>2. UNCHANGED <<weight, bias, active, mod, temp, reads>>
  BY DEF ReleaseWeight, ReleaseBias, moduleVars
<1>3. Frame(t)
  <2>1. /\ \A u \in Threads \ {t} : pc'[u] = pc[u] /\ local'[u] = local[u]
        /\ \A c \in Buffers \ {local[t].w, local[t].b} : content'[c] = content[c]
    BY <1>0 DEF ReleaseWeight, ReleaseBias, MoveTo, TypeOK, Free, Wipe
  <2>. QED
    BY <1>2, <2>1 DEF Frame
<1>4. PassInv(t)'
  <2>1. BuffersInPlace(t)'
    BY <1>0, <1>1, <1>2 DEF PassInv, BuffersInPlace, PassInPlace
  <2>2. ParametersDecrypted(t)'
    BY <1>1 DEF ParametersDecrypted, HasWeight, HasItsBias
  <2>3. AttributesCleared(t)'
    BY <1>0, <1>1, <1>2 DEF PassInv, AttributesCleared, HasWeight
  <2>. QED
    BY <2>1, <2>2, <2>3 DEF PassInv
<1>5. StaysInOrder(t)
  BY <1>0, <1>1, <1>2, <1>4 DEF StaysInOrder
<1>6. /\ pc'[t] # "idle"
      /\ WeightBuffer(t) \in {WeightBuffer(t)', OtherBuffer(t)', b}
      /\ OtherBuffer(t) \in {WeightBuffer(t)', OtherBuffer(t)', b}
  BY <1>0, <1>1, <1>2 DEF WeightBuffer, OtherBuffer
<1>7. Accounts(t)
  BY <1>1, <1>6, GivesBack
<1>. QED
  BY <1>0, <1>3, <1>5, <1>7, StepKeepsSerialInv

LEMMA ClearPass ==
  ASSUME SerialInv, OwnershipInv', NEW t \in Threads, ClearAttributes(t),
         BaseLayersHaveBias
  PROVE  SerialInv'
<1>0. /\ pc[t] = "clear" /\ PassInv(t) /\ TypeOK
      /\ mod[t] \in Modules /\ local[t] \in LeaseRecord
      /\ (~SetsBias(mod[t]) => bias[mod[t]] = Nothing)
  <2>1. pc[t] = "clear"
    BY DEF ClearAttributes
  <2>. QED
    BY <2>1, PassFacts
<1>1. PICK m \in Modules : m = mod[t]
  BY <1>0
<1>2. /\ pc'[t] = IF m \in HasMixer THEN "acquireM" ELSE "idle"
      /\ weight'[m] = IF DropsWeight(m) THEN Absent ELSE weight[m]
      /\ bias'[m] = IF DropsBias(m) THEN Absent ELSE bias[m]
      /\ UNCHANGED <<lease, jit, content, active, mod, local, temp, reads>>
  BY <1>0, <1>1 DEF ClearAttributes, MoveTo, TypeOK, poolVars
<1>3. Frame(t)
  BY <1>0, <1>1 DEF ClearAttributes, MoveTo, TypeOK, Frame, poolVars
<1>4. /\ temp[t] = Nothing /\ local[t] = NoLease /\ active[m] = NoLease
  BY <1>0, <1>1 DEF PassInv, BuffersInPlace, PassInPlace, LeaseRecord, NoLease
<1>5. weight'[m] \notin Buffers
  <2>1. CASE Kind[m] = "obfuscated"
    BY <1>0, <1>1, <1>2, <2>1 DEF PassInv, AttributesCleared, HasWeight, DropsWeight
  <2>2. CASE Kind[m] # "obfuscated"
    BY <1>2, <2>2, NothingIsNoBuffer DEF DropsWeight
  <2>. QED
    BY <2>1, <2>2
<1>6. bias'[m] \notin Buffers /\ (~SetsBias(m) => bias'[m] = Nothing)
  <2>1. SetsBias(m) <=> DropsBias(m)
    BY <1>1 DEF SetsBias, DropsBias, BaseLayersHaveBias
  <2>. QED
    BY <1>0, <1>1, <1>2, <2>1, NothingIsNoBuffer
<1>7. PassInv(t)' \/ pc'[t] = "idle"
  <2>. SUFFICES ASSUME pc'[t] = "acquireM"
                PROVE  PassInv(t)'
    BY <1>2
  <2>1. BuffersInPlace(t)'
    BY <1>0, <1>1, <1>2, <1>4 DEF BuffersInPlace, PassInPlace, NoLease
  <2>2. ParametersDecrypted(t)'
    BY DEF ParametersDecrypted, HasWeight, HasItsBias
  <2>3. AttributesCleared(t)'
    BY <1>1, <1>2, <1>5, <1>6 DEF AttributesCleared
  <2>. QED
    BY <2>1, <2>2, <2>3 DEF PassInv
<1>8. StaysInOrder(t)
  BY <1>1, <1>2, <1>4, <1>5, <1>6, <1>7 DEF StaysInOrder
<1>9. Accounts(t)
  <2>1. WeightBuffer(t) = Nothing /\ OtherBuffer(t) = Nothing
    BY <1>0, <1>4 DEF WeightBuffer, OtherBuffer, NoLease
  <2>2. (Held \cup jit)' = Held \cup jit /\ Nothing \notin Held \cup jit
    BY <1>0, <1>2, PassFacts, NothingIsNoBuffer DEF Held
  <2>. QED
    BY <1>0, <1>2, <2>1, <2>2, PassFacts DEF Accounts
<1>. QED
  BY <1>0, <1>3, <1>8, <1>9, StepKeepsSerialInv

LEMMA MixerPass ==
  ASSUME SerialInv, OwnershipInv', NEW t \in Threads, DecryptMixer(t) \/ ApplyMixer(t)
  PROVE  SerialInv'
<1>0. /\ pc[t] \in {"decryptM", "mix"} /\ PassInv(t) /\ TypeOK
      /\ mod[t] \in Modules /\ local[t] \in LeaseRecord
      /\ (~SetsBias(mod[t]) => bias[mod[t]] = Nothing)
  <2>1. pc[t] \in {"decryptM", "mix"}
    BY DEF DecryptMixer, ApplyMixer
  <2>. QED
    BY <2>1, PassFacts
<1>1. PICK b \in Buffers : b = temp[t]
  BY <1>0 DEF PassInv, BuffersInPlace, PassInPlace, TypeOK
<1>2. /\ \/ /\ pc[t] = "decryptM" /\ pc'[t] = "mix"
            /\ UNCHANGED <<lease, jit, temp>>
         \/ /\ pc[t] = "mix" /\ pc'[t] = "idle"
            /\ Free({b}) /\ temp'[t] = Nothing
      /\ UNCHANGED <<weight, bias, active, mod, local, reads>>
      /\ \A c \in Buffers \ {b} : content'[c] = content[c]
  BY <1>0, <1>1 DEF DecryptMixer, ApplyMixer, MoveTo, TypeOK, Fill, Free, Wipe, moduleVars
<1>3. Frame(t)
  <2>1. \A u \in Threads \ {t} : pc'[u] = pc[u] /\ temp'[u] = temp[u]
    BY <1>0 DEF DecryptMixer, ApplyMixer, MoveTo, TypeOK
  <2>. QED
    BY <1>1, <1>2, <2>1 DEF Frame
<1>4. /\ local[t] = NoLease /\ active[mod[t]] = NoLease /\ WeightBuffer(t) = Nothing
      /\ weight[mod[t]] \notin Buffers /\ bias[mod[t]] \notin Buffers
  BY <1>0 DEF PassInv, BuffersInPlace, PassInPlace, AttributesCleared, LeaseRecord, NoLease, WeightBuffer
<1>5. OtherBuffer(t) = b
  BY <1>0, <1>1 DEF OtherBuffer
<1>6. PassInv(t)' \/ pc'[t] = "idle"
  <2>. SUFFICES ASSUME pc[t] = "decryptM", pc'[t] = "mix", temp' = temp
                PROVE  PassInv(t)'
    BY <1>2
  <2>1. BuffersInPlace(t)'
    BY <1>0, <1>2, <1>4 DEF PassInv, BuffersInPlace, PassInPlace, NoLease
  <2>2. ParametersDecrypted(t)'
    BY DEF ParametersDecrypted, HasWeight, HasItsBias
  <2>3. AttributesCleared(t)'
    BY <1>2, <1>4 DEF AttributesCleared
  <2>. QED
    BY <2>1, <2>2, <2>3 DEF PassInv
<1>7. StaysInOrder(t)
  BY <1>0, <1>2, <1>4, <1>6 DEF StaysInOrder
<1>8. Accounts(t)
  <2>1. CASE pc[t] = "decryptM" /\ pc'[t] = "mix" /\ UNCHANGED <<lease, jit, temp>>
    <3>1. b \in Held \cup jit
      BY <1>1 DEF SerialInv, OwnershipInv, KnownIsHeld, Known, InTemp
    <3>2. OtherBuffer(t)' = b
      BY <1>1, <2>1 DEF OtherBuffer
    <3>. QED
      BY <1>2, <1>4, <1>5, <2>1, <3>1, <3>2, KeepsBuffers
  <2>2. CASE Free({b})
    BY <1>4, <1>5, <2>2, GivesBack
  <2>. QED
    BY <1>2, <2>1, <2>2
<1>. QED
  BY <1>0, <1>3, <1>7, <1>8, StepKeepsSerialInv

-----------------------------------------------------------------------------
(* The calls, and the whole.                                               *)

LEMMA CallPass ==
  ASSUME SerialInv, OwnershipInv', SerialModules, NEW t \in Threads, NEW m \in Modules,
         CallModule(t, m)
  PROVE  SerialInv'
<1>0. TypeOK /\ pc[t] = "idle" /\ temp[t] = Nothing /\ local[t] = NoLease
  BY DEF CallModule, SerialInv, OwnershipInv, PassesAreInOrder
<1>1. /\ \A u \in Threads : pc[u] # "idle" => mod[u] # m /\ u # t
      /\ pc'[t] = "acquireW" /\ mod'[t] = m
      /\ \A u \in Threads \ {t} : pc'[u] = pc[u] /\ mod'[u] = mod[u]
      /\ UNCHANGED <<lease, jit, content, weight, bias, active, local, temp, reads>>
  BY <1>0 DEF CallModule, MoveTo, TypeOK, poolVars, moduleVars
<1>2. LayersAreExclusive'
  BY <1>1 DEF SerialInv, LayersAreExclusive
<1>3. /\ active[m] = NoLease /\ weight[m] \notin Buffers /\ bias[m] \notin Buffers
  BY <1>1 DEF SerialInv, LayersAtRest
<1>4. PassInv(t)'
  <2>1. BuffersInPlace(t)'
    BY <1>0, <1>1, <1>3 DEF BuffersInPlace, PassInPlace, NoLease
  <2>2. ParametersDecrypted(t)'
    BY <1>1 DEF ParametersDecrypted, HasWeight, HasItsBias
  <2>3. AttributesCleared(t)'
    BY <1>1, <1>3 DEF AttributesCleared
  <2>. QED
    BY <2>1, <2>2, <2>3 DEF PassInv
<1>5. ASSUME NEW u \in Threads \ {t}, pc[u] # "idle"
      PROVE  /\ WeightBuffer(u)' = WeightBuffer(u) /\ OtherBuffer(u)' = OtherBuffer(u)
             /\ PassInv(u)'
  <2>1. PassInv(u) /\ pc'[u] = pc[u] /\ mod'[u] = mod[u]
    BY <1>1, <1>5 DEF SerialInv, PassesAreInOrder
  <2>2. WeightBuffer(u)' = WeightBuffer(u) /\ OtherBuffer(u)' = OtherBuffer(u)
    BY <1>1, <2>1 DEF WeightBuffer, OtherBuffer
  <2>3. BuffersInPlace(u)' /\ AttributesCleared(u)'
    BY <1>1, <2>1 DEF PassInv, BuffersInPlace, PassInPlace, AttributesCleared, HasWeight
  <2>4. ParametersDecrypted(u)'
    BY <1>1, <2>1, <2>2 DEF PassInv, ParametersDecrypted, HasWeight, HasItsBias
  <2>. QED
    BY <2>2, <2>3, <2>4 DEF PassInv
<1>6. PassesAreInOrder'
  BY <1>1, <1>4, <1>5 DEF SerialInv, PassesAreInOrder
<1>7. LayersAtRest'
  BY <1>1 DEF SerialInv, LayersAtRest
<1>8. HeldIsKnown'
  <2>1. ASSUME NEW b \in (Held \cup jit)'
        PROVE  \E u \in Threads : pc'[u] # "idle" /\ b \in {WeightBuffer(u)', OtherBuffer(u)'}
    <3>1. b \in Held \cup jit
      BY <1>1 DEF Held
    <3>2. PICK u \in Threads : pc[u] # "idle" /\ b \in {WeightBuffer(u), OtherBuffer(u)}
      BY <3>1 DEF SerialInv, HeldIsKnown
    <3>. QED
      BY <1>1, <1>5, <3>2
  <2>2. (\A b \in Buffers : content[b] # Nothing => b \in Held \cup jit)'
    BY <1>1 DEF SerialInv, HeldIsKnown, Held
  <2>. QED
    BY <2>1, <2>2 DEF HeldIsKnown
<1>. QED
  BY <1>2, <1>6, <1>7, <1>8 DEF SerialInv

\* Only the slots that are mapped change, or nothing.
LEMMA IdleStep ==
  ASSUME SerialInv, OwnershipInv', PoolStep \/ UNCHANGED vars
  PROVE  SerialInv'
<1>1. UNCHANGED <<lease, jit, content, weight, bias, active, pc, mod, local, temp, reads>>
  BY DEF PoolStep, vars, poolVars, moduleVars, threadVars
<1>2. PassesAreInOrder'
  <2>1. ASSUME NEW t \in Threads, PassInv(t)
        PROVE  PassInv(t)'
    BY <1>1, <2>1 DEF PassInv, BuffersInPlace, PassInPlace, ParametersDecrypted, AttributesCleared, HasWeight,
       HasItsBias, WeightBuffer, OtherBuffer
  <2>. QED
    BY <1>1, <2>1 DEF SerialInv, PassesAreInOrder
<1>3. HeldIsKnown'
  BY <1>1 DEF SerialInv, HeldIsKnown, Held, WeightBuffer, OtherBuffer
<1>. QED
  BY <1>1, <1>2, <1>3 DEF SerialInv, LayersAreExclusive, LayersAtRest

\* forward() finds its attributes.
LEMMA AttributesAreThere ==
  ASSUME SerialInv, NEW t \in Threads, pc[t] = "forward"
  PROVE  weight[mod[t]] # Absent /\ bias[mod[t]] # Absent
<1>1. /\ PassInv(t) /\ mod[t] \in Modules /\ active[mod[t]] \in LeaseRecord
      /\ (~SetsBias(mod[t]) => bias[mod[t]] = Nothing)
  BY PassFacts
<1>2. weight[mod[t]] = active[mod[t]].w /\ weight[mod[t]] # Nothing
  BY <1>1 DEF PassInv, BuffersInPlace, PassInPlace, ParametersDecrypted, HasWeight, WeightBuffer
<1>3. SetsBias(mod[t]) => bias[mod[t]] = active[mod[t]].b /\ bias[mod[t]] # Nothing
  BY <1>1 DEF PassInv, BuffersInPlace, PassInPlace, ParametersDecrypted, HasItsBias, SetsBias, OtherBuffer
<1>. QED
  BY <1>1, <1>2, <1>3, NothingIsNoBuffer DEF LeaseRecord

\* Nothing fails: no page is refused, no tag mismatches, no layer raises.
LEMMA NothingFails ==
  ASSUME SerialInv, Orderly, NEW t \in Threads
  PROVE  ~AcquireFails(t) /\ ~DecryptFails(t) /\ ~ForwardRaises(t)
BY PagesRemain, AttributesAreThere DEF AcquireFails, DecryptFails, ForwardRaises, Orderly

LEMMA SerialInit == Init => SerialInv
<1>. SUFFICES ASSUME Init
              PROVE  SerialInv
  OBVIOUS
<1>1. Held = {} /\ jit = {}
  BY DEF Init, Held
<1>. QED
  BY <1>1, OwnershipInit, NothingIsNoBuffer
  DEF Init, SerialInv, LayersAreExclusive, PassesAreInOrder, LayersAtRest, HeldIsKnown

LEMMA SerialNext ==
  ASSUME Orderly, SerialInv, [Next]_vars
  PROVE  SerialInv'
<1>1. OwnershipInv'
  BY OwnershipNext DEF SerialInv
<1>2. CASE PoolStep \/ UNCHANGED vars
  BY <1>1, <1>2, IdleStep
<1>3. ASSUME NEW t \in Threads, NEW m \in Modules, CallModule(t, m)
      PROVE  SerialInv'
  BY <1>1, <1>3, CallPass DEF Orderly
<1>4. ASSUME NEW t \in Threads, PreHook(t)
      PROVE  SerialInv'
  BY <1>1, <1>4, NothingFails, AcquirePass, DecryptWeightPass, DecryptBiasPass, RegisterPass
  DEF PreHook
<1>5. ASSUME NEW t \in Threads, Layer(t)
      PROVE  SerialInv'
  BY <1>1, <1>5, NothingFails, ForwardPass DEF Layer
<1>6. ASSUME NEW t \in Threads, PostHook(t)
      PROVE  SerialInv'
  BY <1>1, <1>6, PopPass, ZeroPass, ReleasePass, ClearPass, MixerPass DEF PostHook, Orderly
<1>. QED
  BY <1>2, <1>3, <1>4, <1>5, <1>6 DEF Next

\* If no layer runs in two threads and nothing fails (Orderly), a pass keeps its
\* buffers where its phase says, and nobody else does.
THEOREM HooksSerialInvariant ==
  ASSUME Orderly
  PROVE  Spec => []SerialInv
BY SerialInit, SerialNext, PTL DEF Spec

\* Of an orderly program: when no forward pass runs, everything the hooks have
\* taken has been given back, and no parameter points into a buffer.  A failed
\* decryption or a raising forward() leaves both.
THEOREM HooksQuietMeansReturned ==
  ASSUME Orderly
  PROVE  Spec => []QuietMeansReturned
<1>1. SerialInv => QuietMeansReturned
  BY DEF SerialInv, HeldIsKnown, LayersAtRest, QuietMeansReturned, Quiet
<1>. QED
  BY <1>1, HooksSerialInvariant, PTL

\* "Weights are zero-wiped immediately after each forward pass", as
\* docs/index.html has it, holds of an orderly program.  Of others it does not.
THEOREM HooksWipedAfterEachPass ==
  ASSUME Orderly
  PROVE  Spec => []WipedAfterEachPass
<1>1. SerialInv => WipedAfterEachPass
  BY DEF SerialInv, HeldIsKnown, WipedAfterEachPass, Quiet
<1>. QED
  BY <1>1, HooksSerialInvariant, PTL
==============================================================================
