----------------------- MODULE SecureONNXSessionProofs -----------------------
(***************************************************************************)
(* What TLAPS proves of the native pool under the secured kernels and the  *)
(* sessions, for any number of threads, sessions, slots and regions.       *)
(***************************************************************************)
EXTENDS SecureONNXSessionInvariant, TLAPS, FiniteSetTheorems, FunctionTheorems

USE NativePoolAssumption, KernelAssumption, SessionAssumption

\* The programs whose pool is shared by nobody at a time: those that serialize
\* their calls into it, the timers' included, and open a session while they
\* run no other; and those of one thread that have no idle_timeout.
Serial ==
  \/ AtomicCalls /\ OneAtATime
  \/ ~IdleTimeout /\ \A t, u \in Threads : t = u

-----------------------------------------------------------------------------
\* Before a session is opened there is no pool, no lease and no plaintext.
LEMMA InitPoolInv == Init => PoolInv
<1>. SUFFICES ASSUME Init PROVE PoolInv
  OBVIOUS
<1>. USE DEF Init, NativeInit, KernelInit
<1>1. TypeOK
  <2>1. g_pool \in [1..NumSlots -> SlotRecord]
    BY DEF SlotRecord
  <2>2. g_pool_initialized \in BOOLEAN
    BY Zenon
  <2>4. /\ found \in [Callers -> 0..NumSlots]
        /\ view \in [Regions -> {"none", "write", "read"}]
        /\ active_slots \in [Callers -> Seq(SlotRecord) \cup {Nothing}]
    OBVIOUS
  <2>5. NativeTypeOK
    BY <2>1, <2>2, <2>4 DEF NativeTypeOK
  <2>3. KernelTypeOK
    BY DEF KernelTypeOK, Keys, Phases
  <2>. QED
    BY <2>3, <2>5 DEF TypeOK
<1>2. InsidersAreInPhase /\ FoundIsFree /\ PointersAreExclusive
  BY DEF InsidersAreInPhase, InsidePool, FoundIsFree, PointersAreExclusive, Computing
<1>3. ElementsAreRegions /\ SlotsAreAccounted
  BY DEF ElementsAreRegions, SlotsAreAccounted, Elements
<1>4. MappedIsAccounted
  <2>1. Elements = {} /\ \A t \in Threads : ~Computing(t)
    BY DEF Elements, Computing
  <2>. QED
    BY <2>1 DEF MappedIsAccounted, SlotRegions
<1>5. CompactionCarriesTheSlotsInUse /\ OpenUnderAPointer /\ OpensAlone
      /\ NodeIsCounted /\ ComputeReadsOwnWeights
  BY DEF CompactionCarriesTheSlotsInUse, OpenUnderAPointer, OpensAlone,
         NodeIsCounted, Computing, ComputeReadsOwnWeights
<1>. QED
  BY <1>1, <1>2, <1>3, <1>4, <1>5 DEF PoolInv

-----------------------------------------------------------------------------
\* Nobody is inside the pool but the one who enters it: no compaction is
\* under way and no lease.
LEMMA EntersAlone ==
  ASSUME PoolInv, Serial, TimersNeedATimeout, NEW x \in Callers, Admitted(x), ~InsidePool(x),
         x \in Threads \/ IdleTimeout
  PROVE  /\ \A y \in Callers : ~InsidePool(y) /\ found[y] = 0 /\ active_slots[y] = Nothing
         /\ ~Compacting
BY DEF PoolInv, InsidersAreInPhase, Admitted, Serial, InsidePool, Compacting,
       TimersNeedATimeout

\* Steps that leave the pool alone, and a thread on the same side of its
\* lease.
LEMMA ControlStep ==
  ASSUME PoolInv, UNCHANGED <<nativeVars, lock>>, TypeOK', OpensAlone', NodeIsCounted',
         \A t \in Threads : /\ Computing(t)' = Computing(t)
                            /\ pc[t] = "take" <=> pc'[t] = "take"
                            /\ pc'[t] \in {"view", "output", "compute"} =>
                                 /\ pc[t] \in {"view", "output", "compute"}
                                 /\ session'[t] = session[t]
  PROVE  PoolInv'
<1>. USE DEF nativeVars
<1>1. InsidersAreInPhase' /\ FoundIsFree'
  BY DEF PoolInv, InsidersAreInPhase, FoundIsFree, InsidePool, Elements
<1>2. PointersAreExclusive' /\ ElementsAreRegions' /\ SlotsAreAccounted'
  BY DEF PoolInv, PointersAreExclusive, ElementsAreRegions, SlotsAreAccounted, Elements
<1>3. MappedIsAccounted'
  BY DEF PoolInv, MappedIsAccounted, SlotRegions, IdleSlots, Elements, Compacting
<1>4. CompactionCarriesTheSlotsInUse'
  BY DEF PoolInv, CompactionCarriesTheSlotsInUse, CarriedSlots, Elements
<1>5. OpenUnderAPointer' /\ ComputeReadsOwnWeights'
  BY DEF PoolInv, OpenUnderAPointer, ComputeReadsOwnWeights
<1>. QED
  BY <1>1, <1>2, <1>3, <1>4, <1>5 DEF PoolInv

\* Setting or clearing a flag keeps its type.
LEMMA Flags ==
  ASSUME NEW S, NEW f \in [S -> BOOLEAN], NEW x
  PROVE  /\ [f EXCEPT ![x] = TRUE] \in [S -> BOOLEAN]
         /\ [f EXCEPT ![x] = FALSE] \in [S -> BOOLEAN]
         /\ \A b \in BOOLEAN : [f EXCEPT ![x] = b] \in [S -> BOOLEAN]
<1>1. ASSUME NEW b \in BOOLEAN
      PROVE  [f EXCEPT ![x] = b] \in [S -> BOOLEAN]
  OBVIOUS
<1>2. TRUE \in BOOLEAN /\ FALSE \in BOOLEAN
  BY Zenon
<1>. QED
  BY <1>1, <1>2, Zenon

\* What the steps of a thread that leave the pool alone keep of the types.
LEMMA ControlTypeOK ==
  ASSUME TypeOK, UNCHANGED <<nativeVars, lock>>,
         NEW t \in Threads, NEW phase \in Phases, MoveTo(t, phase),
         vault' \in Keys, key' \in [Threads -> Keys], session' \in [Threads -> Sessions],
         todo' \in [Threads -> 0..NodesPerRun], missed' \in [Threads -> BOOLEAN],
         opened' \in [Sessions -> BOOLEAN], compaction_timer' \in [Sessions -> BOOLEAN],
         elapsed' \in [Sessions -> BOOLEAN]
  PROVE  TypeOK'
<1>1. NativeTypeOK'
  BY DEF TypeOK, NativeTypeOK, nativeVars, Elements
<1>2. KernelTypeOK'
  BY DEF TypeOK, KernelTypeOK, MoveTo
<1>. QED
  BY <1>1, <1>2 DEF TypeOK

\* Steps of a thread that leave the pool alone: a session is opened, a run
\* begins and ends, a thread goes from one call of the pool to the next.
ThreadStep(t) ==
  \/ \E s \in Sessions : Open(t, s) \/ BeginRun(t, s)
  \/ MaskKey(t) \/ RunRaises(t) \/ EndRun(t)
  \/ (RetrieveKey(t) \/ GetOutput(t) \/ Multiply(t)) /\ UNCHANGED sessionVars

LEMMA ThreadTypeOK ==
  ASSUME TypeOK, NEW t \in Threads, ThreadStep(t)
  PROVE  TypeOK'
<1>. USE DEF Keys, Phases
<1>1. ASSUME NEW s \in Sessions, Open(t, s)
      PROVE  TypeOK'
  BY <1>1, ControlTypeOK DEF Open, TypeOK, KernelTypeOK, sessionVars
<1>2. ASSUME NEW s \in Sessions, BeginRun(t, s)
      PROVE  TypeOK'
  <2>. USE <1>2 DEF BeginRun
  <2>1. compaction_timer \in [Sessions -> BOOLEAN] /\ missed \in [Threads -> BOOLEAN]
    BY Zenon DEF TypeOK, KernelTypeOK
  <2>2. compaction_timer' = [compaction_timer EXCEPT ![s] = FALSE]
        /\ missed' = [missed EXCEPT ![t] = FALSE]
    OBVIOUS
  <2>3. compaction_timer' \in [Sessions -> BOOLEAN] /\ missed' \in [Threads -> BOOLEAN]
    BY <2>1, <2>2, Flags, Zenon
  <2>4. session' \in [Threads -> Sessions] /\ todo' \in [Threads -> 0..NodesPerRun]
    BY DEF TypeOK, KernelTypeOK
  <2>. QED
    BY <2>3, <2>4, ControlTypeOK DEF TypeOK, KernelTypeOK
<1>3. CASE MaskKey(t)
  BY <1>3, ControlTypeOK DEF MaskKey, TypeOK, KernelTypeOK, sessionVars
<1>4. CASE RunRaises(t) \/ EndRun(t)
  <2>1. /\ UNCHANGED <<nativeVars, lock, vault, key, session, todo, missed, opened, elapsed>>
        /\ MoveTo(t, "idle")
        /\ \/ compaction_timer' = compaction_timer
           \/ compaction_timer' = [compaction_timer EXCEPT ![session[t]] = IdleTimeout \/ @]
    BY <1>4, Zenon DEF RunRaises, EndRun, Schedules, sessionVars
  <2>2. /\ vault \in Keys /\ key \in [Threads -> Keys] /\ session \in [Threads -> Sessions]
        /\ todo \in [Threads -> 0..NodesPerRun] /\ missed \in [Threads -> BOOLEAN]
        /\ opened \in [Sessions -> BOOLEAN] /\ elapsed \in [Sessions -> BOOLEAN]
        /\ compaction_timer \in [Sessions -> BOOLEAN]
    BY Zenon DEF TypeOK, KernelTypeOK
  <2>3. (IdleTimeout \/ compaction_timer[session[t]]) \in BOOLEAN
    BY Zenon
  <2>4. compaction_timer' \in [Sessions -> BOOLEAN]
    BY <2>1, <2>2, <2>3, Flags, Zenon
  <2>. QED
    BY <2>1, <2>2, <2>4, ControlTypeOK
<1>5. CASE RetrieveKey(t) /\ UNCHANGED sessionVars
  BY <1>5, ControlTypeOK DEF RetrieveKey, TypeOK, KernelTypeOK, sessionVars
<1>6. CASE (GetOutput(t) \/ Multiply(t)) /\ UNCHANGED sessionVars
  <2>1. PICK phase \in Phases : MoveTo(t, phase)
    BY <1>6 DEF GetOutput, Multiply
  <2>2. UNCHANGED <<nativeVars, vault, key, session, todo, missed, sessionVars>>
    BY <1>6 DEF GetOutput, Multiply
  <2>3. /\ vault \in Keys /\ key \in [Threads -> Keys] /\ session \in [Threads -> Sessions]
        /\ todo \in [Threads -> 0..NodesPerRun] /\ missed \in [Threads -> BOOLEAN]
        /\ opened \in [Sessions -> BOOLEAN] /\ elapsed \in [Sessions -> BOOLEAN]
        /\ compaction_timer \in [Sessions -> BOOLEAN]
    BY Zenon DEF TypeOK, KernelTypeOK
  <2>4. UNCHANGED <<lock, opened, elapsed, compaction_timer>>
    BY <2>2 DEF sessionVars
  <2>. QED
    <3>. HIDE DEF Keys, Phases
    <3>. QED
      BY <2>1, <2>2, <2>3, <2>4, ControlTypeOK
<1>. QED
  BY <1>1, <1>2, <1>3, <1>4, <1>5, <1>6 DEF ThreadStep

\* What such a step does to the phases.
LEMMA ThreadPhases ==
  ASSUME TypeOK, NEW t \in Threads, ThreadStep(t)
  PROVE  /\ UNCHANGED <<nativeVars, lock>>
         /\ \A u \in Threads \ {t} : UNCHANGED <<pc[u], session[u], todo[u]>>
         /\ \/ pc[t] \in {"idle", "mask", "node"} /\ pc'[t] \in {"mask", "configure", "node", "idle"}
            \/ pc[t] = "node" /\ pc'[t] = "lease" /\ todo[t] > 0 /\ todo'[t] = todo[t]
            \/ /\ pc[t] \in {"output", "compute"} /\ pc'[t] \in {"compute", "fail", "release"}
               /\ session'[t] = session[t] /\ todo'[t] = todo[t]
<1>. USE DEF MoveTo, TypeOK, KernelTypeOK
<1>1. ASSUME NEW s \in Sessions, Open(t, s) \/ BeginRun(t, s)
      PROVE  /\ UNCHANGED <<nativeVars, lock>>
             /\ \A u \in Threads \ {t} : UNCHANGED <<pc[u], session[u], todo[u]>>
             /\ pc[t] = "idle" /\ pc'[t] \in {"mask", "node"}
  BY <1>1 DEF Open, BeginRun, sessionVars
<1>2. CASE MaskKey(t) \/ RunRaises(t) \/ EndRun(t)
  BY <1>2 DEF MaskKey, RunRaises, EndRun, sessionVars
<1>3. CASE (RetrieveKey(t) \/ GetOutput(t) \/ Multiply(t)) /\ UNCHANGED sessionVars
  BY <1>3 DEF RetrieveKey, GetOutput, Multiply, sessionVars
<1>. QED
  BY <1>1, <1>2, <1>3 DEF ThreadStep

\* A serial program opens a session, and begins a run, while no other session
\* is being opened.
LEMMA ThreadPoolInv ==
  ASSUME PoolInv, Serial, TimersNeedATimeout, NEW t \in Threads, ThreadStep(t)
  PROVE  PoolInv'
<1>. USE ThreadPhases DEF PoolInv
<1>1. TypeOK'
  BY ThreadTypeOK
<1>2. NodeIsCounted'
  BY DEF NodeIsCounted, Computing
<1>3. OpensAlone'
  <2>1. ASSUME NEW s \in Sessions, Open(t, s)
        PROVE  OpensAlone'
    <3>1. \A u \in Threads : pc[u] = "idle"
      BY <2>1 DEF Open, Serial
    <3>. QED
      BY <3>1 DEF OpensAlone
  <2>2. ASSUME NEW s \in Sessions, BeginRun(t, s)
        PROVE  OpensAlone'
    <3>1. pc[t] = "idle" /\ pc'[t] = "node" /\ \A u \in Threads : pc[u] \notin {"mask", "configure"}
      BY <2>2 DEF BeginRun, Serial, MoveTo, TypeOK, KernelTypeOK
    <3>. QED
      BY <3>1 DEF OpensAlone
  <2>3. CASE MaskKey(t)
    BY <2>3 DEF MaskKey, OpensAlone
  <2>4. CASE \/ RunRaises(t) \/ EndRun(t)
             \/ (RetrieveKey(t) \/ GetOutput(t) \/ Multiply(t)) /\ UNCHANGED sessionVars
    <3>1. pc[t] \in {"node", "output", "compute"}
      BY <2>4 DEF RunRaises, EndRun, RetrieveKey, GetOutput, Multiply
    <3>2. pc'[t] \notin {"mask", "configure"}
      BY <2>4 DEF RunRaises, EndRun, RetrieveKey, GetOutput, Multiply, MoveTo, TypeOK, KernelTypeOK
    <3>. QED
      BY <3>1, <3>2 DEF OpensAlone
  <2>. QED
    BY <2>1, <2>2, <2>3, <2>4 DEF ThreadStep
<1>4. \A u \in Threads : /\ Computing(u)' = Computing(u)
                         /\ pc[u] = "take" <=> pc'[u] = "take"
                         /\ pc'[u] \in {"view", "output", "compute"} =>
                              /\ pc[u] \in {"view", "output", "compute"}
                              /\ session'[u] = session[u]
  BY DEF Computing
<1>. QED
  BY <1>1, <1>2, <1>3, <1>4, ControlStep

\* A timer fires.
LEMMA TimerPoolInv ==
  ASSUME PoolInv, NEW s \in Sessions, TimerFires(s)
  PROVE  PoolInv'
<1>1. compaction_timer \in [Sessions -> BOOLEAN] /\ elapsed \in [Sessions -> BOOLEAN]
  BY Zenon DEF PoolInv, TypeOK
<1>2. compaction_timer' = [compaction_timer EXCEPT ![s] = FALSE]
      /\ elapsed' = [elapsed EXCEPT ![s] = TRUE]
  BY DEF TimerFires
<1>3. compaction_timer' \in [Sessions -> BOOLEAN] /\ elapsed' \in [Sessions -> BOOLEAN]
  BY <1>1, <1>2, Flags, Zenon
<1>4. UNCHANGED <<nativeVars, kernelVars, opened, lock>>
  BY DEF TimerFires
<1>5. TypeOK'
  BY <1>3, <1>4 DEF PoolInv, TypeOK, NativeTypeOK, KernelTypeOK, nativeVars, kernelVars, Elements
<1>6. OpensAlone' /\ NodeIsCounted' /\ \A t \in Threads : Computing(t)' = Computing(t)
  BY <1>4 DEF PoolInv, OpensAlone, NodeIsCounted, kernelVars, Computing
<1>. QED
  BY <1>4, <1>5, <1>6, ControlStep DEF kernelVars

-----------------------------------------------------------------------------
(* Leases.                                                                 *)

\* A thread that leases a slot is not inside the pool, and if it may enter,
\* nobody is.
LEMMA LeasesAlone ==
  ASSUME PoolInv, Serial, TimersNeedATimeout, NEW t \in Threads, pc[t] # "take", Admitted(t)
  PROVE  /\ \A y \in Callers : ~InsidePool(y) /\ found[y] = 0 /\ active_slots[y] = Nothing
         /\ ~Compacting
<1>1. t \in Callers /\ ~InsidePool(t)
  BY DEF PoolInv, InsidersAreInPhase, InsidePool
<1>. QED
  BY <1>1, EntersAlone

\* The scan of a lease chooses a free element.
LEMMA ScanPoolInv ==
  ASSUME PoolInv, Serial, TimersNeedATimeout, NEW t \in Threads, NEW n,
         pc[t] = "lease", LeaseScan(t, n), MoveTo(t, "take"),
         UNCHANGED <<key, todo, missed, vault, session, sessionVars>>
  PROVE  PoolInv'
<1>1. PICK i \in AvailableSlots(n) : found' = [found EXCEPT ![t] = i]
  BY DEF LeaseScan
<1>2. i \in Elements /\ ~g_pool[i].in_use /\ i # 0 /\ i \in 0..NumSlots
  BY DEF AvailableSlots, Elements, PoolInv, TypeOK, NativeTypeOK
<1>3. /\ UNCHANGED <<g_pool, g_pool_size, g_pool_initialized, mapped, view, content,
                     ptr, active_slots>>
      /\ pc' = [pc EXCEPT ![t] = "take"]
  BY DEF LeaseScan, MoveTo
<1>4. \A y \in Callers : found[y] = 0 /\ active_slots[y] = Nothing
  BY LeasesAlone DEF LeaseScan
<1>5. found' \in [Callers -> 0..NumSlots]
  BY <1>1, <1>2 DEF PoolInv, TypeOK, NativeTypeOK
<1>6. TypeOK'
  BY <1>3, <1>5 DEF PoolInv, TypeOK, NativeTypeOK, KernelTypeOK, Phases, sessionVars
<1>7. \A u \in Threads : Computing(u)' = Computing(u)
  BY <1>3 DEF Computing, PoolInv, TypeOK, KernelTypeOK
<1>8. InsidersAreInPhase'
  BY <1>1, <1>2, <1>3, <1>4 DEF PoolInv, TypeOK, NativeTypeOK, KernelTypeOK,
     InsidersAreInPhase, InsidePool, sessionVars
<1>9. FoundIsFree'
  BY <1>1, <1>2, <1>3, <1>4 DEF PoolInv, TypeOK, NativeTypeOK, FoundIsFree, Elements
<1>10. PointersAreExclusive' /\ ElementsAreRegions' /\ SlotsAreAccounted'
  BY <1>3, <1>7 DEF PoolInv, PointersAreExclusive, ElementsAreRegions, SlotsAreAccounted, Elements
<1>11. MappedIsAccounted' /\ CompactionCarriesTheSlotsInUse'
  BY <1>3, <1>7 DEF PoolInv, MappedIsAccounted, SlotRegions, IdleSlots, Elements, Compacting,
     CompactionCarriesTheSlotsInUse, CarriedSlots, sessionVars
<1>12. OpenUnderAPointer' /\ OpensAlone' /\ NodeIsCounted' /\ ComputeReadsOwnWeights'
  BY <1>3 DEF PoolInv, TypeOK, KernelTypeOK, OpenUnderAPointer, OpensAlone, NodeIsCounted,
     Computing, ComputeReadsOwnWeights
<1>. QED
  BY <1>6, <1>8, <1>9, <1>10, <1>11, <1>12 DEF PoolInv

\* The chosen element is marked and its region opened: it was nobody's.
LEMMA TakePoolInv ==
  ASSUME PoolInv, Serial, TimersNeedATimeout, NEW t \in Threads, TakeSlot(t), UNCHANGED sessionVars
  PROVE  PoolInv'
<1>0. PICK i, r : i = found[t] /\ r = g_pool[i].region
  OBVIOUS
<1>1. /\ pc[t] = "take" /\ pc' = [pc EXCEPT ![t] = "decrypt"]
      /\ g_pool' = [g_pool EXCEPT ![i].in_use = TRUE]
      /\ view' = Show(r, "write")
      /\ ptr' = [ptr EXCEPT ![t] = r]
      /\ found' = [found EXCEPT ![t] = 0]
      /\ UNCHANGED <<g_pool_size, g_pool_initialized, mapped, content, active_slots>>
      /\ UNCHANGED <<vault, key, session, todo, missed, sessionVars>>
  BY <1>0 DEF TakeSlot, LeaseTake, MoveTo
<1>2. i # 0 /\ i \in Elements /\ i \in 1..NumSlots /\ ~g_pool[i].in_use /\ r \in Regions
  BY <1>0, <1>1 DEF PoolInv, TypeOK, NativeTypeOK, InsidersAreInPhase, FoundIsFree,
     ElementsAreRegions, Elements
<1>3. /\ \A y \in Callers \ {t} : found[y] = 0 /\ active_slots[y] = Nothing
      /\ active_slots[t] = Nothing
      /\ \A s \in Sessions : ~lock[s]
      /\ t \in Callers
  BY <1>0, <1>2 DEF PoolInv, InsidersAreInPhase, InsidePool
<1>4. \A u \in Threads : ptr[u] # r
  BY <1>0, <1>2 DEF PoolInv, SlotsAreAccounted
<1>5. r \in mapped /\ ~Compacting
  BY <1>0, <1>2, <1>3 DEF PoolInv, MappedIsAccounted, SlotRegions, Compacting
<1>6. r # Nothing /\ ptr[t] = Nothing /\ ~Computing(t)
  BY <1>1, <1>2 DEF PoolInv, PointersAreExclusive, Computing
<1>7. /\ g_pool \in [1..NumSlots -> SlotRecord] /\ g_pool' \in [1..NumSlots -> SlotRecord]
      /\ g_pool'[i].region = r /\ g_pool'[i].in_use
      /\ \A j \in 1..NumSlots : j # i => g_pool'[j] = g_pool[j]
  <2>1. g_pool \in [1..NumSlots -> SlotRecord]
    BY DEF PoolInv, TypeOK, NativeTypeOK
  <2>2. PICK slot : slot = [g_pool[i] EXCEPT !.in_use = TRUE]
    OBVIOUS
  <2>3. TRUE \in BOOLEAN
    BY Zenon
  <2>4. slot \in SlotRecord /\ slot.region = r /\ slot.in_use
    <3>1. PICK old \in SlotRecord : old = g_pool[i]
      BY <2>1, <1>2
    <3>2. /\ slot = [region |-> old.region, size |-> old.size, in_use |-> TRUE]
          /\ old.region = r
      BY <3>1, <2>2, <1>0 DEF SlotRecord
    <3>3. old.region \in Regions \cup {Nothing} /\ old.size \in Nat
      BY <3>1 DEF SlotRecord
    <3>. QED
      BY <3>2, <3>3, <2>3 DEF SlotRecord
  <2>5. g_pool' = [g_pool EXCEPT ![i] = slot]
    BY <2>2, <1>1
  <2>. QED
    BY <2>1, <2>4, <2>5, <1>2
<1>8. view' \in [Regions -> {"none", "write", "read"}] /\ view'[r] = "write"
      /\ \A q \in Regions \ {r} : view'[q] = view[q]
  BY <1>1, <1>2, <1>5 DEF PoolInv, TypeOK, NativeTypeOK, Show
<1>9. /\ ptr' \in [Callers -> Regions \cup {Nothing}] /\ ptr'[t] = r
      /\ \A y \in Callers \ {t} : ptr'[y] = ptr[y]
      /\ found' \in [Callers -> 0..NumSlots] /\ found'[t] = 0
      /\ \A y \in Callers \ {t} : found'[y] = found[y]
  BY <1>1, <1>2, <1>3 DEF PoolInv, TypeOK, NativeTypeOK
<1>10. TypeOK'
  BY <1>1, <1>7, <1>8, <1>9
  DEF PoolInv, TypeOK, NativeTypeOK, KernelTypeOK, Phases, sessionVars
<1>11. /\ pc'[t] = "decrypt" /\ \A u \in Threads \ {t} : pc'[u] = pc[u]
       /\ Computing(t)' /\ \A u \in Threads \ {t} : (Computing(u)' <=> Computing(u))
  BY <1>1 DEF PoolInv, TypeOK, KernelTypeOK, Computing
<1>12. InsidersAreInPhase' /\ FoundIsFree'
  BY <1>1, <1>3, <1>9, <1>11
  DEF PoolInv, InsidersAreInPhase, InsidePool, FoundIsFree, sessionVars
<1>13. PointersAreExclusive'
  <2>1. \A u \in Threads : ptr'[u] # Nothing <=> Computing(u)'
    BY <1>6, <1>9, <1>3, <1>11 DEF PoolInv, PointersAreExclusive
  <2>2. \A s \in Sessions : ptr'[s] = Nothing
    BY <1>9 DEF PoolInv, PointersAreExclusive
  <2>3. ASSUME NEW u \in Threads, NEW v \in Threads, ptr'[u] = ptr'[v], ptr'[u] # Nothing
        PROVE  u = v
    <3>1. \A w \in Threads \ {t} : ptr'[w] = ptr[w] /\ ptr[w] # r
      BY <1>3, <1>4, <1>9
    <3>2. CASE u # t /\ v # t
      BY <2>3, <3>1, <3>2 DEF PoolInv, PointersAreExclusive
    <3>. QED
      BY <2>3, <3>1, <3>2, <1>9
  <2>. QED
    BY <2>1, <2>2, <2>3 DEF PointersAreExclusive
<1>14. ElementsAreRegions'
  <2>1. Elements' = Elements /\ Elements \subseteq 1..NumSlots
    BY <1>1 DEF PoolInv, TypeOK, NativeTypeOK, Elements
  <2>2. \A j \in Elements : g_pool'[j].region = g_pool[j].region
    BY <2>1, <1>0, <1>7
  <2>. QED
    BY <2>1, <2>2, <1>1 DEF PoolInv, ElementsAreRegions
<1>15. SlotsAreAccounted'
  <2>. SUFFICES ASSUME NEW j \in Elements
                PROVE  g_pool'[j].in_use <=> \E u \in Threads : ptr'[u] = g_pool'[j].region
    BY <1>1 DEF SlotsAreAccounted, Elements
  <2>1. CASE j = i
    BY <2>1, <1>7, <1>9, <1>3
  <2>2. CASE j # i
    <3>1. j \in 1..NumSlots /\ g_pool'[j] = g_pool[j] /\ g_pool[j].region # r
      BY <2>2, <1>0, <1>2, <1>7 DEF PoolInv, TypeOK, NativeTypeOK, ElementsAreRegions, Elements
    <3>2. g_pool[j].region # Nothing
      BY DEF PoolInv, ElementsAreRegions
    <3>. QED
      BY <3>1, <3>2, <1>3, <1>6, <1>9 DEF PoolInv, SlotsAreAccounted
  <2>. QED
    BY <2>1, <2>2
<1>16. MappedIsAccounted'
  <2>1. ~Compacting'
    BY <1>1, <1>5 DEF Compacting, sessionVars
  <2>2. SlotRegions(Elements)' = SlotRegions(Elements) /\ r \in SlotRegions(Elements)
    <3>1. Elements' = Elements /\ Elements \subseteq 1..NumSlots
      BY <1>1 DEF PoolInv, TypeOK, NativeTypeOK, Elements
    <3>2. \A j \in Elements : g_pool'[j].region = g_pool[j].region
      BY <3>1, <1>0, <1>7
    <3>. QED
      <4>1. \A q : q \in SlotRegions(Elements)' <=> q \in SlotRegions(Elements)
        BY <3>1, <3>2 DEF SlotRegions
      <4>2. r \in SlotRegions(Elements)
        BY <1>0, <1>2 DEF SlotRegions
      <4>. QED
        BY <4>1, <4>2
  <2>3. {ptr[u] : u \in {v \in Threads : Computing(v)}}' =
          {ptr[u] : u \in {v \in Threads : Computing(v)}} \cup {r}
    <3>1. \A u \in Threads \ {t} : ptr'[u] = ptr[u] /\ (Computing(u)' <=> Computing(u))
      BY <1>3, <1>9, <1>11
    <3>2. ~Computing(t) /\ Computing(t)' /\ ptr'[t] = r
      BY <1>6, <1>9, <1>11
    <3>. DEFINE pages == {ptr[u] : u \in {v \in Threads : Computing(v)}}
    <3>3. pages' \subseteq pages \cup {r}
      BY <3>1, <3>2
    <3>4. pages \subseteq pages' /\ r \in pages'
      BY <3>1, <3>2
    <3>5. pages' = pages \cup {r}
      <4>. HIDE DEF pages
      <4>. QED
        BY <3>3, <3>4
    <3>. QED
      BY <3>5
  <2>. QED
    BY <2>1, <2>2, <2>3, <1>1, <1>5 DEF PoolInv, MappedIsAccounted
<1>17. CompactionCarriesTheSlotsInUse'
  BY <1>1, <1>3 DEF CompactionCarriesTheSlotsInUse, sessionVars
<1>18. OpenUnderAPointer'
  BY <1>1, <1>3, <1>4, <1>6, <1>8, <1>9, <1>11
  DEF PoolInv, TypeOK, NativeTypeOK, OpenUnderAPointer, PointersAreExclusive, Computing
<1>19. OpensAlone' /\ NodeIsCounted' /\ ComputeReadsOwnWeights'
  BY <1>1, <1>3, <1>9, <1>11 DEF PoolInv, OpensAlone, NodeIsCounted, ComputeReadsOwnWeights
<1>. QED
  BY <1>10, <1>12, <1>13, <1>14, <1>15, <1>16, <1>17, <1>18, <1>19 DEF PoolInv

\* A page of its own for the lease, which was nobody's before.
LEMMA DynamicPoolInv ==
  ASSUME PoolInv, Serial, TimersNeedATimeout, NEW t \in Threads, NEW n,
         pc[t] = "lease", LeaseDynamic(t, n), MoveTo(t, "decrypt"),
         UNCHANGED <<key, todo, missed, vault, session, sessionVars>>
  PROVE  PoolInv'
<1>0. PICK r \in Regions \ mapped :
        /\ mapped' = mapped \cup {r}
        /\ view' = [view EXCEPT ![r] = "write"]
        /\ content' = [content EXCEPT ![r] = Nothing]
        /\ ptr' = [ptr EXCEPT ![t] = r]
  BY DEF LeaseDynamic
<1>1. /\ pc' = [pc EXCEPT ![t] = "decrypt"] /\ t \in Callers
      /\ UNCHANGED <<g_pool, g_pool_size, g_pool_initialized, found, active_slots>>
      /\ UNCHANGED <<vault, key, session, todo, missed, sessionVars>>
  BY DEF LeaseDynamic, MoveTo
<1>2. \A y \in Callers : found[y] = 0 /\ active_slots[y] = Nothing
  BY LeasesAlone DEF LeaseDynamic
<1>3. ~Compacting /\ ~Compacting' /\ \A s \in Sessions : ~lock'[s]
  BY <1>1, LeasesAlone DEF LeaseDynamic, Compacting, sessionVars
<1>4. /\ \A u \in Threads : ptr[u] # r
      /\ \A i \in Elements : g_pool[i].region # r
      /\ r # Nothing /\ ptr[t] = Nothing /\ ~Computing(t)
  BY <1>0, <1>3 DEF PoolInv, MappedIsAccounted, SlotRegions, PointersAreExclusive, Computing
<1>5. /\ view' \in [Regions -> {"none", "write", "read"}] /\ view'[r] = "write"
      /\ \A q \in Regions \ {r} : view'[q] = view[q] /\ content'[q] = content[q]
      /\ DOMAIN content' = Regions /\ content'[r] = Nothing
  BY <1>0 DEF PoolInv, TypeOK, NativeTypeOK
<1>6. /\ ptr' \in [Callers -> Regions \cup {Nothing}] /\ ptr'[t] = r
      /\ \A y \in Callers \ {t} : ptr'[y] = ptr[y]
  BY <1>0, <1>1 DEF PoolInv, TypeOK, NativeTypeOK
<1>7. TypeOK'
  BY <1>0, <1>1, <1>5, <1>6
  DEF PoolInv, TypeOK, NativeTypeOK, KernelTypeOK, Phases, sessionVars
<1>8. /\ pc'[t] = "decrypt" /\ \A u \in Threads \ {t} : pc'[u] = pc[u]
      /\ Computing(t)' /\ \A u \in Threads \ {t} : (Computing(u)' <=> Computing(u))
  BY <1>1 DEF PoolInv, TypeOK, KernelTypeOK, Computing
<1>9. InsidersAreInPhase' /\ FoundIsFree'
  BY <1>1, <1>2, <1>8
  DEF PoolInv, InsidersAreInPhase, InsidePool, FoundIsFree, sessionVars
<1>10. PointersAreExclusive'
  <2>1. \A u \in Threads : ptr'[u] # Nothing <=> Computing(u)'
    BY <1>4, <1>6, <1>1, <1>8 DEF PoolInv, PointersAreExclusive
  <2>2. \A s \in Sessions : ptr'[s] = Nothing
    BY <1>6 DEF PoolInv, PointersAreExclusive
  <2>3. \A u, v \in Threads : ptr'[u] = ptr'[v] /\ ptr'[u] # Nothing => u = v
    BY <1>1, <1>4, <1>6 DEF PoolInv, PointersAreExclusive
  <2>. QED
    BY <2>1, <2>2, <2>3 DEF PointersAreExclusive
<1>11. ElementsAreRegions' /\ Elements' = Elements
  BY <1>1 DEF PoolInv, ElementsAreRegions, Elements
<1>12. SlotsAreAccounted'
  BY <1>1, <1>4, <1>6, <1>11 DEF PoolInv, SlotsAreAccounted, ElementsAreRegions
<1>13. MappedIsAccounted'
  <2>1. SlotRegions(Elements)' = SlotRegions(Elements)
    BY <1>1, <1>11 DEF SlotRegions
  <2>2. {ptr[u] : u \in {v \in Threads : Computing(v)}}' =
          {ptr[u] : u \in {v \in Threads : Computing(v)}} \cup {r}
    <3>1. \A u \in Threads \ {t} : ptr'[u] = ptr[u] /\ (Computing(u)' <=> Computing(u))
      BY <1>1, <1>6, <1>8
    <3>. QED
      BY <3>1, <1>4, <1>6, <1>8
  <2>. QED
    BY <2>1, <2>2, <1>0, <1>3 DEF PoolInv, MappedIsAccounted
<1>14. CompactionCarriesTheSlotsInUse'
  BY <1>3 DEF CompactionCarriesTheSlotsInUse
<1>15. OpenUnderAPointer'
  BY <1>1, <1>4, <1>5, <1>6, <1>8
  DEF PoolInv, TypeOK, NativeTypeOK, OpenUnderAPointer, PointersAreExclusive, Computing
<1>16. OpensAlone' /\ NodeIsCounted'
  BY <1>1, <1>8 DEF PoolInv, OpensAlone, NodeIsCounted
<1>17. ComputeReadsOwnWeights'
  BY <1>1, <1>4, <1>5, <1>6, <1>8
  DEF PoolInv, TypeOK, NativeTypeOK, ComputeReadsOwnWeights, PointersAreExclusive, Computing
<1>. QED
  BY <1>7, <1>9, <1>10, <1>11, <1>12, <1>13, <1>14, <1>15, <1>16, <1>17 DEF PoolInv

\* Counting a node keeps its type.
LEMMA NextNodeFacts ==
  ASSUME TypeOK, NodeIsCounted, NEW t \in Threads, NEW miss \in BOOLEAN, NextNode(t, miss),
         pc[t] = "lease" \/ Computing(t)
  PROVE  /\ pc' = [pc EXCEPT ![t] = "node"]
         /\ todo' \in [Threads -> 0..NodesPerRun]
         /\ missed' \in [Threads -> BOOLEAN]
         /\ \A u \in Threads \ {t} : todo'[u] = todo[u]
<1>1. todo \in [Threads -> 0..NodesPerRun] /\ todo[t] > 0
  BY DEF TypeOK, KernelTypeOK, NodeIsCounted
<1>2. todo' = [todo EXCEPT ![t] = @ - 1]
  BY DEF NextNode
<1>3. missed \in [Threads -> BOOLEAN]
  BY Zenon DEF TypeOK, KernelTypeOK
<1>4. missed' = [missed EXCEPT ![t] = @ \/ miss]
  BY DEF NextNode
<1>5. PICK b : b = (missed[t] \/ miss)
  OBVIOUS
<1>6. b \in BOOLEAN
  BY <1>5, Zenon
<1>7. missed' = [missed EXCEPT ![t] = b]
  BY <1>4, <1>5, Zenon
<1>8. missed' \in [Threads -> BOOLEAN]
  BY <1>3, <1>6, <1>7
<1>. QED
  BY <1>1, <1>2, <1>8 DEF NextNode, MoveTo

\* A node that gets no memory is passed over.
LEMMA FailsPoolInv ==
  ASSUME PoolInv, Serial, TimersNeedATimeout, NEW t \in Threads, NEW n,
         pc[t] = "lease", LeaseFails(t, n), NextNode(t, TRUE),
         key' = [key EXCEPT ![t] = Nothing], UNCHANGED <<vault, session, sessionVars>>
  PROVE  PoolInv'
<1>1. /\ pc' = [pc EXCEPT ![t] = "node"]
      /\ todo' \in [Threads -> 0..NodesPerRun]
      /\ missed' \in [Threads -> BOOLEAN]
      /\ \A u \in Threads \ {t} : todo'[u] = todo[u]
  BY NextNodeFacts, Zenon DEF PoolInv
<1>2. UNCHANGED <<nativeVars, vault, session, sessionVars>>
  BY DEF LeaseFails
<1>3. key' \in [Threads -> Keys]
  BY DEF PoolInv, TypeOK, KernelTypeOK, Keys
<1>4. TypeOK'
  BY <1>1, <1>2, <1>3
  DEF PoolInv, TypeOK, NativeTypeOK, KernelTypeOK, Phases, nativeVars, sessionVars, Elements
<1>5. OpensAlone' /\ NodeIsCounted'
  BY <1>1 DEF PoolInv, OpensAlone, NodeIsCounted, Computing, TypeOK, KernelTypeOK
<1>. QED
  BY <1>1, <1>2, <1>4, <1>5, ControlStep
  DEF PoolInv, TypeOK, KernelTypeOK, Computing, sessionVars

-----------------------------------------------------------------------------
(* What a kernel does with its region.                                     *)

\* The region of a thread that computes is mapped and its own.
LEMMA PointerFacts ==
  ASSUME PoolInv, NEW t \in Threads, Computing(t)
  PROVE  /\ ptr[t] \in Regions /\ ptr[t] # Nothing
         /\ \A u \in Threads \ {t} : ptr[u] # ptr[t]
         /\ \A u \in Threads : Computing(u) => ptr[u] \in Regions
<1>1. \A u \in Threads : ptr[u] \in Regions \cup {Nothing}
  BY DEF PoolInv, TypeOK, NativeTypeOK
<1>2. \A u \in Threads : Computing(u) => ptr[u] # Nothing
  BY DEF PoolInv, PointersAreExclusive
<1>3. \A u \in Threads : ptr[u] = ptr[t] /\ ptr[u] # Nothing => u = t
  BY DEF PoolInv, PointersAreExclusive
<1>. QED
  BY <1>1, <1>2, <1>3

\* Steps of a kernel that touch the view and the content of its own region
\* only.
LEMMA OwnRegionStep ==
  ASSUME PoolInv, NEW t \in Threads, Computing(t), NEW phase \in Phases,
         phase \in {"view", "fail", "output"}, MoveTo(t, phase),
         UNCHANGED <<g_pool, g_pool_size, g_pool_initialized, mapped, found, ptr,
                     active_slots, vault, session, todo, missed, sessionVars>>,
         key' \in [Threads -> Keys],
         view' \in [Regions -> {"none", "write", "read"}],
         DOMAIN content' = Regions,
         \A q \in Regions \ {ptr[t]} : view'[q] = view[q] /\ content'[q] = content[q],
         phase \in {"view", "output"} =>
           view'[ptr[t]] # "none" /\ content'[ptr[t]] = session[t]
  PROVE  PoolInv'
<1>1. /\ pc'[t] = phase /\ \A u \in Threads \ {t} : pc'[u] = pc[u]
      /\ \A u \in Threads : (Computing(u)' <=> Computing(u))
      /\ pc[t] \notin {"take", "mask", "configure", "idle"}
      /\ pc'[t] \notin {"take", "lease", "mask", "configure", "idle", "compute"}
  BY DEF PoolInv, TypeOK, KernelTypeOK, MoveTo, Computing
<1>2. TypeOK'
  <2>1. NativeTypeOK'
    BY DEF PoolInv, TypeOK, NativeTypeOK
  <2>2. pc' \in [Threads -> Phases]
    BY DEF PoolInv, TypeOK, KernelTypeOK, MoveTo
  <2>3. KernelTypeOK'
    BY <2>2 DEF PoolInv, TypeOK, KernelTypeOK
  <2>. QED
    BY <2>1, <2>3 DEF PoolInv, TypeOK, sessionVars
<1>3. InsidersAreInPhase' /\ FoundIsFree'
  BY <1>1 DEF PoolInv, InsidersAreInPhase, InsidePool, FoundIsFree, Elements, sessionVars
<1>4. PointersAreExclusive' /\ ElementsAreRegions' /\ SlotsAreAccounted'
  BY <1>1 DEF PoolInv, PointersAreExclusive, ElementsAreRegions, SlotsAreAccounted, Elements
<1>5. MappedIsAccounted' /\ CompactionCarriesTheSlotsInUse'
  BY <1>1 DEF PoolInv, MappedIsAccounted, SlotRegions, IdleSlots, Elements, Compacting,
     CompactionCarriesTheSlotsInUse, CarriedSlots, sessionVars
<1>6. /\ ptr[t] \in Regions
      /\ \A u \in Threads \ {t} : ptr[u] # ptr[t]
      /\ \A u \in Threads : Computing(u) => ptr[u] \in Regions
  BY PointerFacts
<1>7. OpenUnderAPointer'
  <2>1. \A r \in Regions : view'[r] # "none" \/ content'[r] # Nothing =>
          \E u \in Threads : ptr'[u] = r
    BY DEF PoolInv, OpenUnderAPointer
  <2>2. ASSUME NEW u \in Threads, pc'[u] \in {"view", "output", "compute"}
        PROVE  view'[ptr'[u]] # "none"
    <3>1. CASE u = t
      BY <2>2, <3>1, <1>1
    <3>2. CASE u # t
      <4>1. pc'[u] = pc[u] /\ Computing(u)
        BY <2>2, <3>2, <1>1 DEF Computing
      <4>2. ptr[u] # ptr[t] /\ ptr[u] \in Regions
        BY <4>1, <3>2, <1>6
      <4>. QED
        BY <4>1, <4>2, <2>2 DEF PoolInv, OpenUnderAPointer
    <3>. QED
      BY <3>1, <3>2
  <2>. QED
    BY <2>1, <2>2 DEF OpenUnderAPointer
<1>8. OpensAlone' /\ NodeIsCounted'
  BY <1>1 DEF PoolInv, OpensAlone, NodeIsCounted
<1>9. ASSUME NEW u \in Threads, pc'[u] \in {"view", "output", "compute"}
      PROVE  content'[ptr'[u]] = session'[u]
  <2>1. CASE u = t
    BY <1>9, <2>1, <1>1
  <2>2. CASE u # t
    <3>1. pc'[u] = pc[u] /\ Computing(u)
      BY <1>9, <2>2, <1>1 DEF Computing
    <3>2. ptr[u] # ptr[t] /\ ptr[u] \in Regions
      BY <3>1, <2>2, <1>6
    <3>. QED
      BY <3>1, <3>2, <1>9 DEF PoolInv, ComputeReadsOwnWeights
  <2>. QED
    BY <2>1, <2>2
<1>. QED
  BY <1>2, <1>3, <1>4, <1>5, <1>7, <1>8, <1>9 DEF PoolInv, ComputeReadsOwnWeights

\* The plaintext is written into the region, which nobody else reads.
LEMMA DecryptPoolInv ==
  ASSUME PoolInv, NEW t \in Threads, Decrypt(t), UNCHANGED sessionVars
  PROVE  PoolInv'
<1>1. Computing(t) /\ ptr[t] \in Regions
  BY DEF Decrypt, Computing, PoolInv, TypeOK, NativeTypeOK
<1>2. PICK phase \in {"view", "fail"} : MoveTo(t, phase)
  BY DEF Decrypt
<1>3. phase \in Phases
  BY DEF Phases
<1>4. key' \in [Threads -> Keys]
  BY DEF Decrypt, PoolInv, TypeOK, KernelTypeOK, Keys
<1>5. /\ view' \in [Regions -> {"none", "write", "read"}]
      /\ DOMAIN content' = Regions
      /\ \A q \in Regions \ {ptr[t]} : view'[q] = view[q] /\ content'[q] = content[q]
      /\ view'[ptr[t]] # "none" /\ content'[ptr[t]] = session[t]
  BY <1>1 DEF Decrypt, PoolInv, TypeOK, NativeTypeOK
<1>. QED
  BY <1>1, <1>2, <1>3, <1>4, <1>5, OwnRegionStep DEF Decrypt

\* The read view of the region is opened.
LEMMA GetReadViewPoolInv ==
  ASSUME PoolInv, NEW t \in Threads, GetReadView(t), UNCHANGED sessionVars
  PROVE  PoolInv'
<1>1. Computing(t) /\ ptr[t] \in Regions /\ pc[t] = "view" /\ MoveTo(t, "output")
      /\ "output" \in Phases
  BY DEF GetReadView, Computing, PoolInv, TypeOK, NativeTypeOK, PointersAreExclusive, Phases
<1>2. view[ptr[t]] # "none" /\ content[ptr[t]] = session[t]
  BY <1>1 DEF PoolInv, OpenUnderAPointer, ComputeReadsOwnWeights
<1>3. /\ view' \in [Regions -> {"none", "write", "read"}]
      /\ \A q \in Regions \ {ptr[t]} : view'[q] = view[q]
      /\ view'[ptr[t]] # "none"
  BY <1>1, <1>2 DEF GetReadView, PoolGetReadView, Show, PoolInv, TypeOK, NativeTypeOK
<1>. QED
  BY <1>1, <1>2, <1>3, OwnRegionStep
  DEF GetReadView, PoolGetReadView, PoolInv, TypeOK, NativeTypeOK, KernelTypeOK

\* The element that a thread's pointer is in, if it is not a page of its own.
LEMMA SlotOfFacts ==
  ASSUME PoolInv, NEW t \in Threads, Computing(t)
  PROVE  /\ SlotOf(ptr[t]) = {i \in Elements : g_pool[i].region = ptr[t]}
         /\ SlotOf(ptr[t]) \subseteq Elements /\ Elements \subseteq 1..NumSlots
         /\ ptr[t] \in Regions
         /\ \A i \in Elements : g_pool[i].region = ptr[t] <=> i \in SlotOf(ptr[t])
<1>1. Elements \subseteq 1..NumSlots
  BY DEF PoolInv, TypeOK, NativeTypeOK, Elements
<1>2. Elements # {} => g_pool_initialized
  BY DEF PoolInv, ElementsAreRegions
<1>3. SlotOf(ptr[t]) = {i \in Elements : g_pool[i].region = ptr[t]}
  BY <1>2 DEF SlotOf
<1>. QED
  BY <1>1, <1>3, PointerFacts

\* A release closes the region, wipes it, and frees its element or unmaps it.
LEMMA ReleasePoolInv ==
  ASSUME PoolInv, Serial, TimersNeedATimeout, NEW t \in Threads, NEW miss \in BOOLEAN,
         pc[t] \in {"fail", "release"}, PoolRelease(t), NextNode(t, miss),
         UNCHANGED <<vault, key, session, sessionVars>>
  PROVE  PoolInv'
<1>0. PICK r : r = ptr[t]
  OBVIOUS
<1>1. Computing(t) /\ pc[t] # "take" /\ t \in Callers
  BY DEF Computing
<1>2. /\ \A y \in Callers : found[y] = 0 /\ active_slots[y] = Nothing
      /\ ~Compacting
  BY <1>1, LeasesAlone DEF PoolRelease
<1>3. /\ r \in Regions /\ r # Nothing /\ r \in mapped
      /\ \A u \in Threads \ {t} : ptr[u] # r
      /\ SlotOf(r) = {i \in Elements : g_pool[i].region = r}
      /\ Elements \subseteq 1..NumSlots
  BY <1>0, <1>1, PointerFacts, SlotOfFacts DEF PoolRelease
<1>4. /\ pc' = [pc EXCEPT ![t] = "node"]
      /\ todo' \in [Threads -> 0..NodesPerRun]
      /\ missed' \in [Threads -> BOOLEAN]
      /\ \A u \in Threads \ {t} : todo'[u] = todo[u]
  BY <1>1, NextNodeFacts DEF PoolInv
<1>5. /\ pc'[t] = "node" /\ \A u \in Threads \ {t} : pc'[u] = pc[u]
      /\ ~Computing(t)' /\ \A u \in Threads \ {t} : (Computing(u)' <=> Computing(u))
  BY <1>4 DEF PoolInv, TypeOK, KernelTypeOK, Computing
<1>6. /\ view' \in [Regions -> {"none", "write", "read"}] /\ view'[r] = "none"
      /\ \A q \in Regions \ {r} : view'[q] = view[q] /\ content'[q] = content[q]
      /\ DOMAIN content' = Regions /\ content'[r] = Nothing
  BY <1>0, <1>3 DEF PoolRelease, WipeRegion, PoolInv, TypeOK, NativeTypeOK
<1>7. /\ ptr' \in [Callers -> Regions \cup {Nothing}] /\ ptr'[t] = Nothing
      /\ \A y \in Callers \ {t} : ptr'[y] = ptr[y]
  BY <1>1 DEF PoolRelease, PoolInv, TypeOK, NativeTypeOK
<1>8. /\ UNCHANGED <<g_pool_size, g_pool_initialized, found, active_slots>>
      /\ UNCHANGED <<vault, key, session, sessionVars>>
      /\ Elements' = Elements
  BY DEF PoolRelease, Elements
<1>9. /\ g_pool' \in [1..NumSlots -> SlotRecord]
      /\ \A i \in Elements : g_pool'[i].region = g_pool[i].region
      /\ \A i \in Elements : g_pool[i].region = r => ~g_pool'[i].in_use
      /\ \A i \in Elements : g_pool[i].region # r => g_pool'[i] = g_pool[i]
  <2>1. g_pool \in [1..NumSlots -> SlotRecord]
    BY DEF PoolInv, TypeOK, NativeTypeOK
  <2>2. CASE SlotOf(r) # {}
    <3>1. g_pool' = [i \in 1..NumSlots |->
             IF i \in SlotOf(r) THEN [g_pool[i] EXCEPT !.in_use = FALSE] ELSE g_pool[i]]
      BY <2>2, <1>0 DEF PoolRelease
    <3>2. \A i \in 1..NumSlots :
            LET free == [g_pool[i] EXCEPT !.in_use = FALSE] IN
            free \in SlotRecord /\ free.region = g_pool[i].region /\ ~free.in_use
      <4>1. FALSE \in BOOLEAN
        BY Zenon
      <4>. QED
        BY <4>1, <2>1 DEF SlotRecord
    <3>. QED
      BY <3>1, <3>2, <2>1, <1>3
  <2>3. CASE SlotOf(r) = {}
    BY <2>1, <2>3, <1>0, <1>3 DEF PoolRelease
  <2>. QED
    BY <2>2, <2>3
<1>10. mapped' = IF SlotOf(r) # {} THEN mapped ELSE mapped \ {r}
  BY <1>0 DEF PoolRelease
<1>11. TypeOK'
  <2>1. NativeTypeOK'
    BY <1>6, <1>7, <1>8, <1>9, <1>10 DEF PoolInv, TypeOK, NativeTypeOK
  <2>2. KernelTypeOK'
    BY <1>4, <1>8 DEF PoolInv, TypeOK, KernelTypeOK, Phases
  <2>. QED
    BY <2>1, <2>2, <1>8 DEF PoolInv, TypeOK, sessionVars
<1>12. InsidersAreInPhase' /\ FoundIsFree'
  BY <1>1, <1>2, <1>5, <1>8
  DEF PoolInv, InsidersAreInPhase, InsidePool, FoundIsFree, sessionVars
<1>13. PointersAreExclusive'
  <2>1. \A u \in Threads : ptr'[u] # Nothing <=> Computing(u)'
    BY <1>1, <1>5, <1>7 DEF PoolInv, PointersAreExclusive
  <2>2. \A s \in Sessions : ptr'[s] = Nothing
    BY <1>7 DEF PoolInv, PointersAreExclusive
  <2>3. \A u, v \in Threads : ptr'[u] = ptr'[v] /\ ptr'[u] # Nothing => u = v
    BY <1>1, <1>7 DEF PoolInv, PointersAreExclusive
  <2>. QED
    BY <2>1, <2>2, <2>3 DEF PointersAreExclusive
<1>14. ElementsAreRegions'
  BY <1>8, <1>9 DEF PoolInv, ElementsAreRegions
<1>15. SlotsAreAccounted'
  <2>. SUFFICES ASSUME NEW i \in Elements
                PROVE  g_pool'[i].in_use <=> \E u \in Threads : ptr'[u] = g_pool'[i].region
    BY <1>8 DEF SlotsAreAccounted
  <2>1. g_pool[i].region # Nothing
    BY DEF PoolInv, ElementsAreRegions
  <2>2. CASE g_pool[i].region = r
    BY <2>1, <2>2, <1>1, <1>3, <1>7, <1>9
  <2>3. CASE g_pool[i].region # r
    BY <2>1, <2>3, <1>0, <1>1, <1>7, <1>9 DEF PoolInv, SlotsAreAccounted
  <2>. QED
    BY <2>2, <2>3
<1>16. MappedIsAccounted'
  <2>. DEFINE pages == {ptr[u] : u \in {v \in Threads : Computing(v)}}
  <2>1. ~Compacting'
    BY <1>2, <1>8 DEF Compacting, sessionVars
  <2>2. \A q : q \in SlotRegions(Elements)' <=> q \in SlotRegions(Elements)
    BY <1>8, <1>9 DEF SlotRegions
  <2>3. pages' = pages \ {r}
    <3>1. \A u \in Threads \ {t} : ptr'[u] = ptr[u] /\ (Computing(u)' <=> Computing(u))
      BY <1>1, <1>5, <1>7
    <3>. QED
      BY <3>1, <1>0, <1>3, <1>5
  <2>4. mapped = SlotRegions(Elements) \cup pages
    BY <1>2 DEF PoolInv, MappedIsAccounted
  <2>5. r \in SlotRegions(Elements) <=> SlotOf(r) # {}
    BY <1>3 DEF SlotRegions
  <2>6. mapped' = SlotRegions(Elements)' \cup pages'
    <3>. HIDE DEF pages
    <3>. QED
      BY <2>2, <2>3, <2>4, <2>5, <1>10
  <2>. QED
    BY <2>1, <2>6 DEF MappedIsAccounted
<1>17. CompactionCarriesTheSlotsInUse'
  BY <1>2, <1>8 DEF CompactionCarriesTheSlotsInUse, Compacting, sessionVars
<1>18. OpenUnderAPointer'
  <2>1. \A q \in Regions : view'[q] # "none" \/ content'[q] # Nothing =>
          \E u \in Threads : ptr'[u] = q
    <3>. SUFFICES ASSUME NEW q \in Regions, view'[q] # "none" \/ content'[q] # Nothing
                  PROVE  \E u \in Threads : ptr'[u] = q
      OBVIOUS
    <3>1. q # r
      BY <1>6
    <3>2. PICK u \in Threads : ptr[u] = q
      BY <3>1, <1>6 DEF PoolInv, OpenUnderAPointer
    <3>. QED
      BY <3>1, <3>2, <1>0, <1>1, <1>7
  <2>2. \A u \in Threads : pc'[u] \in {"view", "output", "compute"} => view'[ptr'[u]] # "none"
    <3>. SUFFICES ASSUME NEW u \in Threads, pc'[u] \in {"view", "output", "compute"}
                  PROVE  view'[ptr'[u]] # "none"
      OBVIOUS
    <3>1. u # t /\ pc'[u] = pc[u] /\ Computing(u)
      BY <1>5 DEF Computing
    <3>2. ptr'[u] = ptr[u] /\ ptr[u] # r /\ ptr[u] \in Regions
      BY <3>1, <1>3, <1>7, PointerFacts
    <3>. QED
      BY <3>1, <3>2, <1>6 DEF PoolInv, OpenUnderAPointer
  <2>. QED
    BY <2>1, <2>2 DEF OpenUnderAPointer
<1>19. OpensAlone' /\ NodeIsCounted'
  BY <1>4, <1>5, <1>8 DEF PoolInv, OpensAlone, NodeIsCounted
<1>20. ComputeReadsOwnWeights'
  <2>. SUFFICES ASSUME NEW u \in Threads, pc'[u] \in {"view", "output", "compute"}
                PROVE  content'[ptr'[u]] = session'[u]
    BY DEF ComputeReadsOwnWeights
  <2>1. u # t /\ pc'[u] = pc[u] /\ Computing(u)
    BY <1>5 DEF Computing
  <2>2. ptr'[u] = ptr[u] /\ ptr[u] # r /\ ptr[u] \in Regions
    BY <2>1, <1>3, <1>7, PointerFacts
  <2>. QED
    BY <2>1, <2>2, <1>6, <1>8 DEF PoolInv, ComputeReadsOwnWeights
<1>. QED
  BY <1>11, <1>12, <1>13, <1>14, <1>15, <1>16, <1>17, <1>18, <1>19, <1>20 DEF PoolInv

-----------------------------------------------------------------------------
(* The pool is rebuilt, and compacted.                                     *)

\* __init__ replaces the pool while no thread holds anything of it.
LEMMA ConfigurePoolInv ==
  ASSUME PoolInv, Serial, TimersNeedATimeout, NEW t \in Threads, ConfigurePool(t)
  PROVE  PoolInv'
<1>1. /\ pc' = [pc EXCEPT ![t] = "idle"] /\ pc[t] = "configure"
      /\ UNCHANGED <<vault, key, session, todo, missed, compaction_timer, elapsed, lock>>
      /\ PoolConfigure(t, UsePool[session[t]])
      /\ opened' = [opened EXCEPT ![session[t]] = TRUE]
      /\ UNCHANGED <<found, ptr, active_slots>>
  BY DEF ConfigurePool, PoolConfigure, ClearPool, MoveTo
<1>2. \A u \in Threads : ~Computing(u) /\ ~Computing(u)' /\ pc[u] # "take" /\ pc'[u] = "idle"
  BY <1>1 DEF PoolInv, OpensAlone, Computing, TypeOK, KernelTypeOK
<1>3. /\ \A y \in Callers : found[y] = 0 /\ active_slots[y] = Nothing
      /\ ~Compacting /\ \A s \in Sessions : ~lock[s]
  BY <1>1, <1>2, LeasesAlone DEF PoolConfigure, Compacting
<1>4. \A u \in Threads : ptr[u] = Nothing
  BY <1>2 DEF PoolInv, PointersAreExclusive
<1>5. \A r \in Regions : view[r] = "none" /\ content[r] = Nothing
  BY <1>4 DEF PoolInv, OpenUnderAPointer
<1>6. mapped = SlotRegions(Elements)
  BY <1>2, <1>3 DEF PoolInv, MappedIsAccounted
<1>7. opened' \in [Sessions -> BOOLEAN]
  <2>1. opened \in [Sessions -> BOOLEAN]
    BY Zenon DEF PoolInv, TypeOK
  <2>. QED
    BY <2>1, <1>1, Flags, Zenon
<1>8. KernelTypeOK'
  BY <1>1 DEF PoolInv, TypeOK, KernelTypeOK, Phases
<1>9. /\ g_pool' \in [1..NumSlots -> SlotRecord] /\ g_pool_size' \in 0..NumSlots
      /\ g_pool_initialized' \in BOOLEAN
      /\ view' = [r \in Regions |-> "none"] /\ content' = [r \in Regions |-> Nothing]
      /\ \A i \in Elements' : g_pool'[i].region \in Regions /\ ~g_pool'[i].in_use
      /\ \A i, j \in Elements' : g_pool'[i].region = g_pool'[j].region => i = j
      /\ Elements' # {} => g_pool_initialized'
      /\ mapped' = SlotRegions(Elements)' /\ mapped' \subseteq Regions
  <2>1. CASE UsePool[session[t]]
    <3>1. PICK new \in [1..NumSlots -> (Regions \ mapped) \cup SlotRegions(Elements)] :
            /\ \A i, j \in 1..NumSlots : new[i] = new[j] => i = j
            /\ g_pool' = [i \in 1..NumSlots |->
                            [region |-> new[i], size |-> SlotSize[i], in_use |-> FALSE]]
            /\ g_pool_size' = NumSlots
            /\ g_pool_initialized' = TRUE
            /\ mapped' = (mapped \ SlotRegions(Elements)) \cup {new[i] : i \in 1..NumSlots}
            /\ view' = [r \in Regions |->
                 IF r \in SlotRegions(Elements) \cup {new[i] : i \in 1..NumSlots}
                 THEN "none" ELSE view[r]]
            /\ content' = [r \in Regions |->
                 IF r \in SlotRegions(Elements) \cup {new[i] : i \in 1..NumSlots}
                 THEN Nothing ELSE content[r]]
      BY <2>1, <1>1 DEF PoolConfigure
    <3>2. SlotRegions(Elements) \subseteq Regions /\ new \in [1..NumSlots -> Regions]
      BY <1>6 DEF PoolInv, TypeOK, NativeTypeOK
    <3>3. Elements' = 1..NumSlots
      BY <3>1 DEF Elements
    <3>4. \A i \in 1..NumSlots : /\ g_pool'[i] \in SlotRecord
                                 /\ g_pool'[i].region = new[i] /\ ~g_pool'[i].in_use
      <4>1. FALSE \in BOOLEAN
        BY Zenon
      <4>. QED
        BY <4>1, <3>1, <3>2 DEF SlotRecord
    <3>5. g_pool' \in [1..NumSlots -> SlotRecord]
      BY <3>1, <3>4
    <3>6. g_pool_initialized' /\ g_pool_initialized' \in BOOLEAN
      BY <3>1, Zenon
    <3>7. \A q : q \in SlotRegions(Elements)' <=> q \in {new[i] : i \in 1..NumSlots}
      BY <3>3, <3>4 DEF SlotRegions
    <3>8. mapped' = SlotRegions(Elements)' /\ mapped' \subseteq Regions
      BY <3>1, <3>2, <3>7, <1>6
    <3>9. view' = [r \in Regions |-> "none"] /\ content' = [r \in Regions |-> Nothing]
      BY <3>1, <1>5
    <3>. QED
      BY <3>1, <3>2, <3>3, <3>4, <3>5, <3>6, <3>8, <3>9
  <2>2. CASE ~UsePool[session[t]]
    <3>1. /\ g_pool_size' = 0
          /\ g_pool_initialized' = FALSE
          /\ mapped' = mapped \ SlotRegions(Elements)
          /\ view' = [r \in Regions |-> IF r \in SlotRegions(Elements) THEN "none" ELSE view[r]]
          /\ content' = [r \in Regions |->
                           IF r \in SlotRegions(Elements) THEN Nothing ELSE content[r]]
          /\ g_pool' = g_pool
      BY <2>2, <1>1 DEF PoolConfigure, ClearPool
    <3>2. Elements' = {} /\ mapped' = {} /\ SlotRegions(Elements)' = {}
      BY <3>1, <1>6 DEF Elements, SlotRegions
    <3>3. g_pool_initialized' \in BOOLEAN
      BY <3>1, Zenon
    <3>4. view' = [r \in Regions |-> "none"] /\ content' = [r \in Regions |-> Nothing]
      BY <3>1, <1>5
    <3>5. g_pool' \in [1..NumSlots -> SlotRecord] /\ g_pool_size' \in 0..NumSlots
      BY <3>1 DEF PoolInv, TypeOK, NativeTypeOK
    <3>. QED
      BY <3>2, <3>3, <3>4, <3>5
  <2>. QED
    BY <2>1, <2>2
<1>10. TypeOK'
  <2>1. NativeTypeOK'
    BY <1>1, <1>9 DEF PoolInv, TypeOK, NativeTypeOK
  <2>. QED
    BY <2>1, <1>1, <1>7, <1>8 DEF PoolInv, TypeOK
<1>11. InsidersAreInPhase' /\ FoundIsFree' /\ PointersAreExclusive'
  BY <1>1, <1>2, <1>3, <1>4
  DEF PoolInv, InsidersAreInPhase, InsidePool, FoundIsFree, PointersAreExclusive
<1>12. ElementsAreRegions' /\ SlotsAreAccounted'
  BY <1>1, <1>4, <1>9 DEF ElementsAreRegions, SlotsAreAccounted
<1>13. MappedIsAccounted' /\ CompactionCarriesTheSlotsInUse'
  <2>1. ~Compacting' /\ {ptr[u] : u \in {v \in Threads : Computing(v)}}' = {}
    BY <1>1, <1>2, <1>3 DEF Compacting
  <2>. QED
    BY <2>1, <1>1, <1>3, <1>9 DEF MappedIsAccounted, CompactionCarriesTheSlotsInUse
<1>14. OpenUnderAPointer' /\ OpensAlone' /\ NodeIsCounted' /\ ComputeReadsOwnWeights'
  BY <1>2, <1>9 DEF OpenUnderAPointer, OpensAlone, NodeIsCounted, ComputeReadsOwnWeights
<1>. QED
  BY <1>10, <1>11, <1>12, <1>13, <1>14 DEF PoolInv

\* The position of each slot that a compaction keeps (CompactScan).
Enumerates(position, used, n) ==
  /\ n \in Nat /\ used \subseteq 1..n
  /\ position \in [1..Cardinality(used) -> used]
  /\ \A j, k \in 1..Cardinality(used) : j < k => position[j] < position[k]

\* A strictly increasing enumeration of a set of elements covers it, each
\* element once.
LEMMA PositionCovers ==
  ASSUME NEW n, NEW used, NEW position, Enumerates(position, used, n)
  PROVE  /\ Cardinality(used) \in Nat /\ Cardinality(used) <= n
         /\ \A j, k \in 1..Cardinality(used) : position[j] = position[k] => j = k
         /\ \A i \in used : \E j \in 1..Cardinality(used) : position[j] = i
<1>. DEFINE ranks == 1..Cardinality(used)
<1>. USE DEF Enumerates
<1>1. IsFiniteSet(1..n) /\ Cardinality(1..n) = n
  BY FS_Interval
<1>2. IsFiniteSet(used) /\ Cardinality(used) <= n /\ Cardinality(used) \in Nat
  <2>1. IsFiniteSet(used) /\ Cardinality(used) <= Cardinality(1..n)
    BY <1>1, FS_Subset
  <2>2. Cardinality(used) \in Nat
    BY <2>1, FS_CardinalityType
  <2>. QED
    BY <2>1, <2>2, <1>1
<1>3. \A j, k \in ranks : position[j] = position[k] => j = k
  <2>. SUFFICES ASSUME NEW j \in ranks, NEW k \in ranks, position[j] = position[k]
                PROVE  j = k
    OBVIOUS
  <2>3. \A i \in used : i \in Nat
    OBVIOUS
  <2>4. position[j] \in Nat
    BY <2>3
  <2>1. ~(position[j] < position[k]) /\ ~(position[k] < position[j])
    BY <2>4
  <2>2. ~(j < k) /\ ~(k < j)
    BY <2>1
  <2>. QED
    BY <2>2, <1>2
<1>4. position \in Injection(ranks, used)
  BY <1>3, Fun_IsInj
<1>5. Cardinality(ranks) = Cardinality(used)
  BY <1>2, FS_Interval
<1>6. position \in Surjection(ranks, used)
  <2>1. Cardinality(ranks) = Cardinality(used) <=> position \in Surjection(ranks, used)
    BY <1>2, <1>4, FS_Injection
  <2>. QED
    BY <2>1, <1>5, Zenon
<1>7. \A i \in used : \E j \in ranks : position[j] = i
  BY <1>6 DEF Surjection
<1>. QED
  BY <1>2, <1>3, <1>7

\* A compaction begins while nobody is inside the pool: it keeps the slots in
\* use, which are those that a thread has a pointer into.
LEMMA BeginCompactPoolInv ==
  ASSUME PoolInv, Serial, TimersNeedATimeout, NEW s \in Sessions, BeginCompact(s)
  PROVE  PoolInv'
<1>1. s \in Callers /\ ~lock[s] /\ Admitted(s) /\ ~InsidePool(s) /\ IdleTimeout
  BY DEF BeginCompact, CompactScan, PoolInv, InsidersAreInPhase, InsidePool,
         TimersNeedATimeout
<1>2. /\ \A y \in Callers : found[y] = 0 /\ active_slots[y] = Nothing
      /\ ~Compacting
  BY <1>1, EntersAlone
<1>3. PICK gone, used : gone = SlotRegions(IdleSlots) /\ used = {i \in Elements : g_pool[i].in_use}
  OBVIOUS
<1>4. used \subseteq 1..g_pool_size /\ g_pool_size \in Nat /\ Elements \subseteq 1..NumSlots
      /\ g_pool \in [1..NumSlots -> SlotRecord]
  BY <1>3 DEF PoolInv, TypeOK, NativeTypeOK, Elements
<1>5. PICK position \in [1..Cardinality(used) -> used] :
        /\ \A j, k \in 1..Cardinality(used) : j < k => position[j] < position[k]
        /\ active_slots' = [active_slots EXCEPT ![s] =
                              [j \in 1..Cardinality(used) |-> g_pool[position[j]]]]
  BY <1>3 DEF BeginCompact, CompactScan
<1>6. /\ Cardinality(used) \in Nat /\ Cardinality(used) <= g_pool_size
      /\ \A j, k \in 1..Cardinality(used) : position[j] = position[k] => j = k
      /\ \A i \in used : \E j \in 1..Cardinality(used) : position[j] = i
  <2>1. Enumerates(position, used, g_pool_size)
    BY <1>4, <1>5 DEF Enumerates
  <2>. QED
    BY <2>1, PositionCovers
<1>7. PICK kept : kept = [j \in 1..Cardinality(used) |-> g_pool[position[j]]]
  OBVIOUS
<1>8. /\ kept \in Seq(SlotRecord) /\ Len(kept) = Cardinality(used)
      /\ DOMAIN kept = 1..Cardinality(used) /\ kept # Nothing
  <2>1. kept \in [1..Cardinality(used) -> SlotRecord]
    BY <1>3, <1>4, <1>5, <1>7
  <2>2. kept \in Seq(SlotRecord)
    BY <2>1, <1>6
  <2>3. Len(kept) = Cardinality(used)
    BY <2>1, <1>6
  <2>. QED
    BY <2>1, <2>2, <2>3
<1>9. CarriedSlots(kept)
  <2>1. \A j \in DOMAIN kept : position[j] \in Elements /\ kept[j] = g_pool[position[j]]
                               /\ kept[j].in_use
    BY <1>3, <1>5, <1>7, <1>8
  <2>2. \A i \in Elements : g_pool[i].in_use => \E j \in DOMAIN kept : g_pool[i] = kept[j]
    BY <1>3, <1>6, <1>7, <1>8
  <2>3. \A j, k \in DOMAIN kept : kept[j].region = kept[k].region => j = k
    <3>. SUFFICES ASSUME NEW j \in DOMAIN kept, NEW k \in DOMAIN kept,
                         kept[j].region = kept[k].region
                  PROVE  j = k
      OBVIOUS
    <3>1. g_pool[position[j]].region = g_pool[position[k]].region
      BY <2>1
    <3>2. position[j] = position[k]
      BY <3>1, <2>1 DEF PoolInv, ElementsAreRegions
    <3>. QED
      BY <3>2, <1>6, <1>8
  <2>. QED
    BY <2>1, <2>2, <2>3, <1>6, <1>8 DEF CarriedSlots
<1>10. /\ active_slots' \in [Callers -> Seq(SlotRecord) \cup {Nothing}]
       /\ active_slots'[s] = kept
       /\ \A y \in Callers \ {s} : active_slots'[y] = Nothing
  BY <1>1, <1>2, <1>5, <1>7, <1>8 DEF PoolInv, TypeOK, NativeTypeOK
<1>11. /\ mapped' = mapped \ gone
       /\ view' = [r \in Regions |-> IF r \in gone THEN "none" ELSE view[r]]
       /\ content' = [r \in Regions |-> IF r \in gone THEN Nothing ELSE content[r]]
       /\ UNCHANGED <<g_pool, g_pool_size, g_pool_initialized, found, ptr>>
       /\ UNCHANGED <<kernelVars, opened, compaction_timer>>
       /\ elapsed' = [elapsed EXCEPT ![s] = FALSE]
       /\ lock' = [lock EXCEPT ![s] = TRUE]
  BY <1>3 DEF BeginCompact, CompactScan
<1>12. /\ elapsed' \in [Sessions -> BOOLEAN] /\ lock' \in [Sessions -> BOOLEAN]
  <2>1. elapsed \in [Sessions -> BOOLEAN] /\ lock \in [Sessions -> BOOLEAN]
    BY Zenon DEF PoolInv, TypeOK
  <2>. QED
    BY <2>1, <1>11, Flags, Zenon
<1>13. lock'[s] /\ (\A x \in Sessions \ {s} : ~lock'[x]) /\ Compacting'
  BY <1>2, <1>11 DEF PoolInv, TypeOK, Compacting
<1>14. Elements' = Elements /\ IdleSlots' = IdleSlots
  BY <1>11 DEF Elements, IdleSlots
<1>15. \A u \in Threads : ptr[u] \notin gone
  <2>. SUFFICES ASSUME NEW u \in Threads, NEW i \in IdleSlots, ptr[u] = g_pool[i].region
                PROVE  FALSE
    BY <1>3 DEF SlotRegions
  <2>. QED
    BY DEF PoolInv, SlotsAreAccounted, IdleSlots
<1>16. NativeTypeOK'
  BY <1>10, <1>11 DEF PoolInv, TypeOK, NativeTypeOK
<1>17. TypeOK'
  BY <1>11, <1>12, <1>16 DEF PoolInv, TypeOK, KernelTypeOK, kernelVars
<1>18. InsidersAreInPhase'
  BY <1>1, <1>2, <1>8, <1>10, <1>11, <1>13 DEF PoolInv, InsidersAreInPhase, InsidePool, kernelVars
<1>19. FoundIsFree' /\ PointersAreExclusive' /\ ElementsAreRegions' /\ SlotsAreAccounted'
  BY <1>11, <1>14 DEF PoolInv, FoundIsFree, PointersAreExclusive, Computing, ElementsAreRegions,
     SlotsAreAccounted, kernelVars
<1>20. MappedIsAccounted'
  <2>. DEFINE pages == {ptr[u] : u \in {v \in Threads : Computing(v)}}
  <2>1. mapped = SlotRegions(Elements) \cup pages
    BY <1>2 DEF PoolInv, MappedIsAccounted
  <2>2. pages' = pages /\ \A q \in pages : q \notin gone
    BY <1>11, <1>15 DEF Computing, kernelVars
  <2>3. \A q : q \in SlotRegions(Elements \ IdleSlots) <=> q \in SlotRegions(Elements) /\ q \notin gone
    BY <1>3 DEF SlotRegions, IdleSlots, PoolInv, ElementsAreRegions
  <2>4. SlotRegions(Elements \ IdleSlots)' = SlotRegions(Elements \ IdleSlots)
    BY <1>11, <1>14 DEF SlotRegions
  <2>5. mapped' = SlotRegions(Elements \ IdleSlots)' \cup pages'
    <3>. HIDE DEF pages
    <3>. QED
      BY <2>1, <2>2, <2>3, <2>4, <1>11
  <2>. QED
    BY <2>5, <1>13 DEF MappedIsAccounted
<1>21. CompactionCarriesTheSlotsInUse'
  BY <1>9, <1>10, <1>11, <1>13, <1>14 DEF CompactionCarriesTheSlotsInUse, CarriedSlots
<1>22. OpenUnderAPointer'
  <2>1. \A r \in Regions : view'[r] # "none" \/ content'[r] # Nothing =>
          \E u \in Threads : ptr'[u] = r
    BY <1>11 DEF PoolInv, OpenUnderAPointer
  <2>2. \A u \in Threads : pc'[u] \in {"view", "output", "compute"} => view'[ptr'[u]] # "none"
    <3>. SUFFICES ASSUME NEW u \in Threads, pc[u] \in {"view", "output", "compute"}
                  PROVE  view'[ptr[u]] # "none"
      BY <1>11 DEF kernelVars
    <3>1. Computing(u)
      BY DEF Computing
    <3>2. ptr[u] \in Regions
      BY <3>1, PointerFacts
    <3>. QED
      BY <3>2, <1>11, <1>15 DEF PoolInv, OpenUnderAPointer
  <2>. QED
    BY <2>1, <2>2 DEF OpenUnderAPointer
<1>23. OpensAlone' /\ NodeIsCounted'
  BY <1>11 DEF PoolInv, OpensAlone, NodeIsCounted, Computing, kernelVars
<1>24. ComputeReadsOwnWeights'
  <2>. SUFFICES ASSUME NEW u \in Threads, pc[u] \in {"view", "output", "compute"}
                PROVE  content'[ptr[u]] = session[u]
    BY <1>11 DEF ComputeReadsOwnWeights, kernelVars
  <2>1. Computing(u)
    BY DEF Computing
  <2>2. ptr[u] \in Regions
    BY <2>1, PointerFacts
  <2>. QED
    BY <2>2, <1>11, <1>15 DEF PoolInv, ComputeReadsOwnWeights
<1>. QED
  BY <1>17, <1>18, <1>19, <1>20, <1>21, <1>22, <1>23, <1>24 DEF PoolInv

\* A compaction ends: the vector holds what was in use, nothing else.
LEMMA EndCompactPoolInv ==
  ASSUME PoolInv, Serial, TimersNeedATimeout, NEW s \in Sessions, EndCompact(s)
  PROVE  PoolInv'
<1>1. PICK kept : kept = active_slots[s]
  OBVIOUS
<1>2. /\ lock[s] /\ s \in Callers /\ kept # Nothing /\ CarriedSlots(kept)
      /\ \A y \in Callers \ {s} : found[y] = 0 /\ active_slots[y] = Nothing
      /\ found[s] = 0
      /\ \A x \in Sessions \ {s} : ~lock[x]
      /\ Compacting
  BY <1>1 DEF EndCompact, PoolInv, InsidersAreInPhase, InsidePool, Compacting,
     CompactionCarriesTheSlotsInUse
<1>3. /\ g_pool' = [i \in 1..NumSlots |-> IF i <= Len(kept) THEN kept[i] ELSE g_pool[i]]
      /\ g_pool_size' = Len(kept)
      /\ g_pool_initialized' = (g_pool_initialized /\ kept # <<>>)
      /\ active_slots' = [active_slots EXCEPT ![s] = Nothing]
      /\ UNCHANGED <<mapped, view, content, found, ptr>>
      /\ lock' = [lock EXCEPT ![s] = FALSE]
      /\ UNCHANGED <<kernelVars, opened, compaction_timer, elapsed>>
  BY <1>1 DEF EndCompact, CompactAssign
<1>4. /\ Len(kept) \in Nat /\ Len(kept) <= NumSlots /\ DOMAIN kept = 1..Len(kept)
      /\ \A j \in 1..Len(kept) : kept[j] \in SlotRecord
      /\ g_pool \in [1..NumSlots -> SlotRecord]
  BY <1>2 DEF CarriedSlots, PoolInv, TypeOK, NativeTypeOK
<1>5. /\ Elements' = 1..Len(kept) /\ 1..Len(kept) \subseteq 1..NumSlots
      /\ \A j \in 1..Len(kept) : g_pool'[j] = kept[j]
      /\ g_pool' \in [1..NumSlots -> SlotRecord]
  BY <1>3, <1>4 DEF Elements
<1>6. g_pool_initialized' \in BOOLEAN
  BY <1>3, Zenon
<1>7. lock' \in [Sessions -> BOOLEAN]
  <2>1. lock \in [Sessions -> BOOLEAN]
    BY Zenon DEF PoolInv, TypeOK
  <2>. QED
    BY <2>1, <1>3, Flags, Zenon
<1>8. active_slots' \in [Callers -> Seq(SlotRecord) \cup {Nothing}]
      /\ \A y \in Callers : active_slots'[y] = Nothing
  BY <1>2, <1>3 DEF PoolInv, TypeOK, NativeTypeOK
<1>9. (\A x \in Sessions : ~lock'[x]) /\ ~Compacting'
  BY <1>2, <1>3 DEF PoolInv, TypeOK, Compacting
<1>10. NativeTypeOK'
  BY <1>3, <1>4, <1>5, <1>6, <1>8 DEF PoolInv, TypeOK, NativeTypeOK
<1>11. TypeOK'
  BY <1>3, <1>7, <1>10 DEF PoolInv, TypeOK, KernelTypeOK, kernelVars
<1>12. /\ \A j \in 1..Len(kept) : /\ kept[j].in_use
                                  /\ \E i \in Elements : g_pool[i] = kept[j]
       /\ \A i \in Elements : g_pool[i].in_use => \E j \in 1..Len(kept) : g_pool[i] = kept[j]
       /\ \A j, k \in 1..Len(kept) : kept[j].region = kept[k].region => j = k
  BY <1>2, <1>4 DEF CarriedSlots
<1>13. InsidersAreInPhase' /\ FoundIsFree'
  BY <1>2, <1>3, <1>8, <1>9
  DEF PoolInv, InsidersAreInPhase, InsidePool, FoundIsFree, kernelVars
<1>14. PointersAreExclusive'
  BY <1>3 DEF PoolInv, PointersAreExclusive, Computing, kernelVars
<1>15. ElementsAreRegions'
  <2>1. \A i \in Elements' : g_pool'[i].region \in Regions
    BY <1>5, <1>12 DEF PoolInv, ElementsAreRegions
  <2>2. \A i, j \in Elements' : g_pool'[i].region = g_pool'[j].region => i = j
    BY <1>5, <1>12
  <2>3. Elements' # {} => g_pool_initialized'
    <3>. SUFFICES ASSUME Elements' # {}
                  PROVE  g_pool_initialized'
      OBVIOUS
    <3>1. 1 \in 1..Len(kept) /\ kept # <<>>
      BY <1>4, <1>5
    <3>2. Elements # {}
      BY <3>1, <1>12
    <3>3. g_pool_initialized
      BY <3>2 DEF PoolInv, ElementsAreRegions
    <3>. QED
      BY <3>1, <3>3, <1>3, Zenon
  <2>. QED
    BY <2>1, <2>2, <2>3 DEF ElementsAreRegions
<1>16. SlotsAreAccounted'
  <2>. SUFFICES ASSUME NEW j \in 1..Len(kept)
                PROVE  kept[j].in_use /\ \E u \in Threads : ptr[u] = kept[j].region
    BY <1>3, <1>5 DEF SlotsAreAccounted
  <2>1. PICK i \in Elements : g_pool[i] = kept[j]
    BY <1>12
  <2>. QED
    BY <2>1, <1>12 DEF PoolInv, SlotsAreAccounted
<1>17. MappedIsAccounted'
  <2>1. {ptr[u] : u \in {v \in Threads : Computing(v)}}' =
          {ptr[u] : u \in {v \in Threads : Computing(v)}}
    BY <1>3 DEF Computing, kernelVars
  <2>2. \A q : q \in SlotRegions(Elements)' <=> q \in SlotRegions(Elements \ IdleSlots)
    <3>1. SlotRegions(Elements)' = {kept[j].region : j \in 1..Len(kept)}
      BY <1>5 DEF SlotRegions
    <3>2. \A j \in 1..Len(kept) : \E i \in Elements \ IdleSlots : g_pool[i] = kept[j]
      BY <1>12 DEF IdleSlots
    <3>3. \A i \in Elements \ IdleSlots : \E j \in 1..Len(kept) : g_pool[i] = kept[j]
      BY <1>12 DEF IdleSlots
    <3>. QED
      <4>1. SlotRegions(Elements \ IdleSlots) = {g_pool[i].region : i \in Elements \ IdleSlots}
        BY DEF SlotRegions
      <4>2. \A j \in 1..Len(kept) : kept[j].region \in SlotRegions(Elements \ IdleSlots)
        BY <3>2, <4>1
      <4>3. \A i \in Elements \ IdleSlots : g_pool[i].region \in SlotRegions(Elements)'
        BY <3>1, <3>3
      <4>. QED
        BY <3>1, <4>1, <4>2, <4>3
  <2>. QED
    BY <2>1, <2>2, <1>2, <1>3, <1>9 DEF PoolInv, MappedIsAccounted
<1>18. CompactionCarriesTheSlotsInUse'
  BY <1>9 DEF CompactionCarriesTheSlotsInUse
<1>19. OpenUnderAPointer' /\ OpensAlone' /\ NodeIsCounted' /\ ComputeReadsOwnWeights'
  BY <1>3 DEF PoolInv, OpenUnderAPointer, OpensAlone, NodeIsCounted, ComputeReadsOwnWeights,
     Computing, kernelVars
<1>. QED
  BY <1>11, <1>13, <1>14, <1>15, <1>16, <1>17, <1>18, <1>19 DEF PoolInv

-----------------------------------------------------------------------------
(* The invariant.                                                          *)

\* Every step of a serial program keeps the invariant.
LEMMA NextPoolInv ==
  Serial /\ PoolInv /\ TimersNeedATimeout /\ [Next]_vars => PoolInv'
<1>. SUFFICES ASSUME Serial, PoolInv, TimersNeedATimeout, [Next]_vars
              PROVE  PoolInv'
  OBVIOUS
<1>1. ASSUME NEW t \in Threads, ThreadStep(t) \/ ConfigurePool(t)
      PROVE  PoolInv'
  BY <1>1, ThreadPoolInv, ConfigurePoolInv
<1>3. ASSUME NEW t \in Threads, Compute(t), UNCHANGED sessionVars
      PROVE  PoolInv'
  <2>1. CASE RetrieveKey(t) \/ GetOutput(t) \/ Multiply(t)
    BY <2>1, <1>1, <1>3 DEF ThreadStep
  <2>2. CASE Lease(t)
    BY <2>2, <1>3, ScanPoolInv, DynamicPoolInv, FailsPoolInv DEF Lease
  <2>3. CASE TakeSlot(t)
    BY <2>3, <1>3, TakePoolInv
  <2>4. CASE Decrypt(t)
    BY <2>4, <1>3, DecryptPoolInv
  <2>5. CASE GetReadView(t)
    BY <2>5, <1>3, GetReadViewPoolInv
  <2>6. CASE GiveUp(t) \/ ReleaseWeights(t)
    <3>1. TRUE \in BOOLEAN /\ FALSE \in BOOLEAN
      BY Zenon
    <3>2. PICK miss \in BOOLEAN :
            /\ pc[t] \in {"fail", "release"} /\ PoolRelease(t) /\ NextNode(t, miss)
            /\ UNCHANGED <<vault, key, session>>
      BY <2>6, <3>1, Zenon DEF GiveUp, ReleaseWeights
    <3>. QED
      BY <3>2, <1>3, ReleasePoolInv
  <2>. QED
    BY <2>1, <2>2, <2>3, <2>4, <2>5, <2>6, <1>3 DEF Compute
<1>4. ASSUME NEW s \in Sessions, TimerFires(s) \/ BeginCompact(s) \/ EndCompact(s)
      PROVE  PoolInv'
  BY <1>4, TimerPoolInv, BeginCompactPoolInv, EndCompactPoolInv
<1>5. CASE UNCHANGED vars
  <2>. USE <1>5 DEF vars, sessionVars, kernelVars
  <2>1. TypeOK'
    BY DEF PoolInv, TypeOK, NativeTypeOK, KernelTypeOK, nativeVars
  <2>2. OpensAlone' /\ NodeIsCounted'
    BY DEF PoolInv, OpensAlone, NodeIsCounted, Computing
  <2>. QED
    BY <2>1, <2>2, ControlStep DEF Computing
<1>. QED
  BY <1>1, <1>3, <1>4, <1>5 DEF Next, Working, ThreadStep

\* Only the end of a run starts a timer, and only with an idle_timeout.
LEMMA NextTimers == TypeOK /\ TimersNeedATimeout /\ [Next]_vars => TimersNeedATimeout'
<1>. SUFFICES ASSUME TypeOK, TimersNeedATimeout, [Next]_vars, ~IdleTimeout, NEW s \in Sessions
              PROVE  ~compaction_timer'[s] /\ ~elapsed'[s] /\ ~lock'[s]
  BY DEF TimersNeedATimeout
<1>1. ~compaction_timer[s] /\ ~elapsed[s] /\ ~lock[s]
  BY DEF TimersNeedATimeout
<1>2. ASSUME NEW t \in Threads, NEW x \in Sessions, BeginRun(t, x)
      PROVE  ~compaction_timer'[s] /\ ~elapsed'[s] /\ ~lock'[s]
  BY <1>1, <1>2, Zenon DEF BeginRun, TypeOK
<1>3. ASSUME NEW t \in Threads, EndRun(t)
      PROVE  ~compaction_timer'[s] /\ ~elapsed'[s] /\ ~lock'[s]
  <2>1. compaction_timer' = [compaction_timer EXCEPT ![session[t]] = IdleTimeout \/ @]
        /\ UNCHANGED <<elapsed, lock>>
    BY <1>3 DEF EndRun, Schedules
  <2>. QED
    BY <2>1, <1>1, Zenon DEF TypeOK
<1>4. ASSUME NEW x \in Sessions
      PROVE  ~TimerFires(x) /\ ~BeginCompact(x) /\ ~EndCompact(x)
  BY DEF TimersNeedATimeout, TimerFires, BeginCompact, EndCompact
<1>5. CASE UNCHANGED <<compaction_timer, elapsed, lock>>
  BY <1>1, <1>5
<1>6. \/ \E t \in Threads, x \in Sessions : BeginRun(t, x)
      \/ \E t \in Threads : EndRun(t)
      \/ UNCHANGED <<compaction_timer, elapsed, lock>>
  BY <1>4, Zenon DEF Next, vars, sessionVars, Working, Open, MaskKey, ConfigurePool, RunRaises
<1>. QED
  BY <1>2, <1>3, <1>5, <1>6

\* There is no timer at first.
LEMMA InitIInv == Init => IInv
BY InitPoolInv, Zenon DEF IInv, Init, TimersNeedATimeout

\* What SecureONNXSession checks of the pool follows from the invariant.
LEMMA InvariantImplies ==
  PoolInv => AccessIsMapped /\ QuietProcessIsClean
<1>. SUFFICES ASSUME PoolInv
              PROVE  AccessIsMapped /\ QuietProcessIsClean
  OBVIOUS
<1>1. AccessIsMapped
  <2>. SUFFICES ASSUME NEW t \in Threads, Computing(t)
                PROVE  ptr[t] \in mapped /\ (pc[t] = "compute" => view[ptr[t]] # "none")
    BY DEF AccessIsMapped, Computing
  <2>1. ptr[t] \in mapped
    BY DEF PoolInv, MappedIsAccounted
  <2>. QED
    BY <2>1 DEF PoolInv, OpenUnderAPointer
<1>2. QuietProcessIsClean
  <2>. SUFFICES ASSUME \A x \in Threads : pc[x] = "idle", \A s \in Sessions : ~lock[s]
                PROVE  /\ mapped = SlotRegions(Elements)
                       /\ \A r \in Regions : content[r] = Nothing /\ view[r] = "none"
    BY DEF QuietProcessIsClean
  <2>1. ~Compacting /\ \A t \in Threads : ~Computing(t)
    BY DEF Compacting, Computing
  <2>2. mapped = SlotRegions(Elements)
    BY <2>1 DEF PoolInv, MappedIsAccounted
  <2>3. \A t \in Threads : ptr[t] = Nothing
    BY <2>1 DEF PoolInv, PointersAreExclusive
  <2>. QED
    BY <2>2, <2>3 DEF PoolInv, OpenUnderAPointer
<1>. QED
  BY <1>1, <1>2

\* The inductive invariant holds of every serial program, however many
\* threads, sessions, slots and pages it has.
THEOREM SessionInvariant ==
  ASSUME Serial
  PROVE  Spec => []IInv
<1>1. IInv /\ [Next]_vars => IInv'
  BY NextPoolInv, NextTimers DEF IInv, PoolInv
<1>. QED
  BY <1>1, InitIInv, PTL DEF Spec

\* The variables of pool, kernels and sessions keep their types.
THEOREM SessionTypeOK ==
  ASSUME Serial
  PROVE  Spec => []TypeOK
<1>1. IInv => TypeOK
  BY DEF IInv, PoolInv
<1>. QED
  BY <1>1, SessionInvariant, PTL

-----------------------------------------------------------------------------
(* A process without a pool, whose calls overlap as they like.             *)

\* Before a session is opened there is no page.
LEMMA InitPrivate == Init => PrivatePagesInv
<1>. SUFFICES ASSUME Init PROVE PrivatePagesInv
  OBVIOUS
<1>1. PoolInv
  BY InitPoolInv
<1>2. NothingIsPooled /\ \A t \in Threads : pc[t] # "take" /\ ~Computing(t)
  BY DEF Init, NativeInit, KernelInit, NothingIsPooled, Computing
<1>3. mapped = {ptr[t] : t \in {u \in Threads : Computing(u)}}
  BY <1>2 DEF Init, NativeInit
<1>. QED
  BY <1>1, <1>2, <1>3 DEF PrivatePagesInv, PagesArePrivate, PoolInv

\* There is no element, and what is mapped is what the kernels hold.
LEMMA PrivateFacts ==
  ASSUME PrivatePagesInv
  PROVE  /\ TypeOK /\ Elements = {} /\ SlotRegions(Elements) = {} /\ IdleSlots = {}
         /\ \A r : SlotOf(r) = {}
         /\ \A n : AvailableSlots(n) = {}
         /\ \A t \in Threads : Computing(t) <=> ptr[t] \in mapped
         /\ \A t \in Threads : Computing(t) <=> ptr[t] # Nothing
         /\ \A t \in Threads : Computing(t) => ptr[t] \in Regions
         /\ \A t, u \in Threads : ptr[t] = ptr[u] /\ ptr[t] # Nothing => t = u
<1>1. TypeOK /\ Elements = {}
  BY DEF PrivatePagesInv, NothingIsPooled, Elements
<1>2. /\ SlotRegions(Elements) = {} /\ IdleSlots = {}
      /\ \A r : SlotOf(r) = {}
      /\ \A n : AvailableSlots(n) = {}
  BY <1>1 DEF SlotRegions, IdleSlots, SlotOf, AvailableSlots
<1>3. /\ \A t \in Threads : Computing(t) <=> ptr[t] # Nothing
      /\ \A t, u \in Threads : ptr[t] = ptr[u] /\ ptr[t] # Nothing => t = u
  BY DEF PrivatePagesInv, PagesArePrivate, PointersAreExclusive
<1>4. mapped \subseteq Regions /\ \A t \in Threads : ptr[t] \in Regions \cup {Nothing}
  BY <1>1 DEF TypeOK, NativeTypeOK
<1>5. \A t \in Threads : Computing(t) <=> ptr[t] \in mapped
  BY <1>3, <1>4 DEF PrivatePagesInv, PagesArePrivate
<1>. QED
  BY <1>1, <1>2, <1>3, <1>4, <1>5

\* Steps that change no page.
LEMMA PrivateControl ==
  ASSUME PrivatePagesInv, TypeOK', NothingIsPooled', NodeIsCounted',
         UNCHANGED <<mapped, ptr>>,
         \A r \in Regions : view'[r] = view[r] /\ content'[r] = content[r],
         \A t \in Threads : /\ Computing(t)' = Computing(t)
                            /\ pc'[t] # "take"
                            /\ pc'[t] \in {"view", "output", "compute"} =>
                                 /\ pc[t] \in {"view", "output", "compute"}
                                 /\ session'[t] = session[t]
  PROVE  PrivatePagesInv'
<1>1. PointersAreExclusive'
  BY DEF PrivatePagesInv, PagesArePrivate, PointersAreExclusive
<1>2. (mapped = {ptr[t] : t \in {u \in Threads : Computing(u)}})'
  BY DEF PrivatePagesInv, PagesArePrivate
<1>3. OpenUnderAPointer' /\ ComputeReadsOwnWeights'
  <2>1. \A t \in Threads : pc[t] \in {"view", "output", "compute"} => ptr[t] \in Regions
    BY PrivateFacts DEF Computing
  <2>. QED
    BY <2>1 DEF PrivatePagesInv, PagesArePrivate, OpenUnderAPointer, ComputeReadsOwnWeights
<1>. QED
  BY <1>1, <1>2, <1>3 DEF PrivatePagesInv, PagesArePrivate

\* A session is opened, a run begins or ends, a node goes on.
LEMMA PrivateThread ==
  ASSUME PrivatePagesInv, NEW t \in Threads, ThreadStep(t)
  PROVE  PrivatePagesInv'
<1>. USE ThreadPhases DEF PrivatePagesInv
<1>1. TypeOK' /\ UNCHANGED nativeVars
  BY ThreadTypeOK
<1>2. NothingIsPooled' /\ UNCHANGED <<mapped, ptr, view, content>>
  BY <1>1 DEF nativeVars, NothingIsPooled
<1>3. NodeIsCounted'
  BY DEF NodeIsCounted, Computing
<1>4. \A u \in Threads : /\ Computing(u)' = Computing(u)
                         /\ pc'[u] # "take"
                         /\ pc'[u] \in {"view", "output", "compute"} =>
                              /\ pc[u] \in {"view", "output", "compute"}
                              /\ session'[u] = session[u]
  BY DEF Computing
<1>. QED
  BY <1>1, <1>2, <1>3, <1>4, PrivateControl

\* The pool is configured away.
LEMMA PrivateConfigure ==
  ASSUME PrivatePagesInv, NoPool, NEW t \in Threads, ConfigurePool(t)
  PROVE  PrivatePagesInv'
<1>. USE PrivateFacts
<1>1. ClearPool
  <2>1. session[t] \in Sessions
    BY DEF TypeOK, KernelTypeOK
  <2>. QED
    BY <2>1 DEF NoPool, ConfigurePool, PoolConfigure
<1>2. /\ UNCHANGED <<g_pool, found, ptr, active_slots>> /\ g_pool_size' = 0
      /\ g_pool_initialized' = FALSE /\ mapped' = mapped
      /\ view' = [r \in Regions |-> view[r]] /\ content' = [r \in Regions |-> content[r]]
      /\ UNCHANGED <<vault, key, session, todo, missed, compaction_timer, elapsed, lock>>
      /\ opened' = [opened EXCEPT ![session[t]] = TRUE]
      /\ pc[t] = "configure" /\ pc' = [pc EXCEPT ![t] = "idle"]
  BY <1>1 DEF ClearPool, ConfigurePool, MoveTo
<1>3. TypeOK'
  <2>1. g_pool_initialized' \in BOOLEAN
    BY <1>2, Zenon
  <2>2. opened \in [Sessions -> BOOLEAN]
    BY Zenon DEF TypeOK
  <2>3. opened' \in [Sessions -> BOOLEAN]
    BY <1>2, <2>2, Flags, Zenon
  <2>. QED
    BY <1>2, <2>1, <2>3 DEF TypeOK, NativeTypeOK, KernelTypeOK, Phases
<1>4. NothingIsPooled'
  BY <1>2 DEF PrivatePagesInv, NothingIsPooled
<1>5. \A u \in Threads : /\ Computing(u)' = Computing(u) /\ pc'[u] # "take"
                         /\ u # t => pc'[u] = pc[u]
                         /\ pc'[t] = "idle"
  BY <1>2 DEF Computing, PrivatePagesInv, TypeOK, KernelTypeOK
<1>6. NodeIsCounted'
  BY <1>2, <1>5 DEF PrivatePagesInv, NodeIsCounted
<1>. QED
  BY <1>2, <1>3, <1>4, <1>5, <1>6, PrivateControl

\* The scan of an empty list keeps nothing.
LEMMA EmptyScan ==
  ASSUME Elements = {}, NEW s, CompactScan(s)
  PROVE  active_slots' = [active_slots EXCEPT ![s] = <<>>]
<1>1. PICK used : used = {i \in Elements : g_pool[i].in_use}
  OBVIOUS
<1>2. used = {} /\ Cardinality(used) = 0
  BY <1>1, FS_EmptySet
<1>3. PICK position \in [1..Cardinality(used) -> used] :
        active_slots' = [active_slots EXCEPT ![s] =
                           [j \in 1..Cardinality(used) |-> g_pool[position[j]]]]
  BY <1>1 DEF CompactScan
<1>4. [j \in 1..Cardinality(used) |-> g_pool[position[j]]] = <<>>
  BY <1>2
<1>. QED
  BY <1>3, <1>4

\* A timer fires, and a compaction finds nothing.
LEMMA PrivateTimer ==
  ASSUME PrivatePagesInv, NEW s \in Sessions,
         TimerFires(s) \/ BeginCompact(s) \/ EndCompact(s)
  PROVE  PrivatePagesInv'
<1>. USE PrivateFacts
<1>1. compaction_timer \in [Sessions -> BOOLEAN] /\ elapsed \in [Sessions -> BOOLEAN]
      /\ lock \in [Sessions -> BOOLEAN]
  BY Zenon DEF TypeOK
<1>2. UNCHANGED <<kernelVars, opened>>
  BY DEF TimerFires, BeginCompact, EndCompact
<1>3. /\ NativeTypeOK' /\ NothingIsPooled' /\ UNCHANGED <<mapped, ptr>>
      /\ \A r \in Regions : view'[r] = view[r] /\ content'[r] = content[r]
      /\ compaction_timer' \in [Sessions -> BOOLEAN] /\ elapsed' \in [Sessions -> BOOLEAN]
      /\ lock' \in [Sessions -> BOOLEAN]
  <2>. USE DEF PrivatePagesInv, TypeOK, NativeTypeOK, NothingIsPooled
  <2>1. CASE TimerFires(s)
    <3>1. /\ UNCHANGED <<nativeVars, lock>>
          /\ compaction_timer' = [compaction_timer EXCEPT ![s] = FALSE]
          /\ elapsed' = [elapsed EXCEPT ![s] = TRUE]
      BY <2>1 DEF TimerFires
    <3>2. compaction_timer' \in [Sessions -> BOOLEAN] /\ elapsed' \in [Sessions -> BOOLEAN]
      BY <1>1, <3>1, Flags, Zenon
    <3>. QED
      BY <1>1, <3>1, <3>2 DEF nativeVars, Elements
  <2>2. CASE BeginCompact(s)
    <3>1. SlotRegions({}) = {}
      BY DEF SlotRegions
    <3>3. <<>> \in Seq(SlotRecord)
      OBVIOUS
    <3>4. active_slots' = [active_slots EXCEPT ![s] = <<>>]
      BY <2>2, EmptyScan DEF BeginCompact
    <3>5. /\ UNCHANGED <<g_pool, g_pool_size, g_pool_initialized, found, ptr, mapped>>
          /\ view' = [r \in Regions |-> view[r]] /\ content' = [r \in Regions |-> content[r]]
          /\ UNCHANGED compaction_timer
          /\ elapsed' = [elapsed EXCEPT ![s] = FALSE] /\ lock' = [lock EXCEPT ![s] = TRUE]
      BY <2>2, <3>1 DEF BeginCompact, CompactScan
    <3>6. elapsed' \in [Sessions -> BOOLEAN] /\ lock' \in [Sessions -> BOOLEAN]
      BY <1>1, <3>5, Flags, Zenon
    <3>7. \A x \in Sessions \ {s} : lock'[x] = lock[x]
      BY <1>1, <3>5
    <3>. QED
      BY <1>1, <3>3, <3>4, <3>5, <3>6, <3>7
  <2>3. CASE EndCompact(s)
    <3>1. active_slots[s] = <<>> /\ Len(<<>>) = 0
      BY <2>3 DEF EndCompact
    <3>2. /\ g_pool' = [i \in 1..NumSlots |-> g_pool[i]]
          /\ g_pool_size' = 0
          /\ active_slots' = [active_slots EXCEPT ![s] = Nothing]
          /\ UNCHANGED <<mapped, view, content, found, ptr, compaction_timer, elapsed>>
          /\ lock' = [lock EXCEPT ![s] = FALSE]
      BY <2>3, <3>1 DEF EndCompact, CompactAssign
    <3>3. g_pool_initialized' = (g_pool_initialized /\ <<>> # <<>>)
      BY <2>3, <3>1 DEF EndCompact, CompactAssign
    <3>4. g_pool_initialized' \in BOOLEAN
      BY <3>3, Zenon
    <3>5. lock' \in [Sessions -> BOOLEAN] /\ lock'[s] = FALSE
      BY <1>1, <3>2, Flags, Zenon
    <3>6. \A x \in Sessions \ {s} : lock'[x] = lock[x]
      BY <1>1, <3>2
    <3>. QED
      BY <1>1, <3>2, <3>4, <3>5, <3>6
  <2>. QED
    BY <2>1, <2>2, <2>3
<1>4. TypeOK'
  BY <1>2, <1>3 DEF TypeOK, KernelTypeOK, kernelVars
<1>5. NodeIsCounted' /\ \A t \in Threads : /\ Computing(t)' = Computing(t)
                                           /\ pc'[t] = pc[t] /\ session'[t] = session[t]
  BY <1>2 DEF PrivatePagesInv, NodeIsCounted, Computing, kernelVars
<1>. QED
  BY <1>3, <1>4, <1>5, PrivateControl DEF PrivatePagesInv

\* A kernel gets a page that nobody has, or none.
LEMMA PrivateLease ==
  ASSUME PrivatePagesInv, NEW t \in Threads, Lease(t), UNCHANGED sessionVars
  PROVE  PrivatePagesInv'
<1>. USE PrivateFacts
<1>. DEFINE n == LayerSize[session[t]]
<1>1. pc[t] = "lease" /\ UNCHANGED <<vault, session, sessionVars>> /\ t \in Callers
  BY DEF Lease
<1>2. ~LeaseScan(t, n)
  BY DEF LeaseScan
<1>3. CASE LeaseDynamic(t, n) /\ MoveTo(t, "decrypt") /\ UNCHANGED <<key, todo, missed>>
  <2>1. PICK r \in Regions \ mapped :
          /\ mapped' = mapped \cup {r}
          /\ view' = [view EXCEPT ![r] = "write"]
          /\ content' = [content EXCEPT ![r] = Nothing]
          /\ ptr' = [ptr EXCEPT ![t] = r]
    BY <1>3 DEF LeaseDynamic
  <2>2. /\ UNCHANGED <<g_pool, g_pool_size, g_pool_initialized, found, active_slots>>
        /\ pc' = [pc EXCEPT ![t] = "decrypt"]
    BY <1>3 DEF LeaseDynamic, MoveTo
  <2>3. /\ view' \in [Regions -> {"none", "write", "read"}] /\ DOMAIN content' = Regions
        /\ content'[r] = Nothing
        /\ \A q \in Regions \ {r} : view'[q] = view[q] /\ content'[q] = content[q]
        /\ ptr' \in [Callers -> Regions \cup {Nothing}] /\ ptr'[t] = r
        /\ \A y \in Callers \ {t} : ptr'[y] = ptr[y]
        /\ mapped' \subseteq Regions
    BY <2>1, <1>1 DEF TypeOK, NativeTypeOK
  <2>4. TypeOK'
    BY <1>1, <1>3, <2>2, <2>3 DEF TypeOK, NativeTypeOK, KernelTypeOK, Phases, sessionVars
  <2>5. /\ pc'[t] = "decrypt" /\ \A u \in Threads \ {t} : pc'[u] = pc[u]
        /\ ~Computing(t) /\ Computing(t)'
        /\ \A u \in Threads \ {t} : (Computing(u)' <=> Computing(u))
    BY <1>1, <2>2 DEF TypeOK, KernelTypeOK, Computing
  <2>6. r # Nothing /\ \A u \in Threads : ptr[u] # r
    <3>1. \A u \in Threads : ptr[u] = r => Computing(u)
      BY <2>1
    <3>. QED
      BY <3>1, <2>1
  <2>7. PointersAreExclusive'
    <3>1. ASSUME NEW u \in Threads
          PROVE  ptr'[u] # Nothing <=> Computing(u)'
      <4>1. CASE u = t
        BY <4>1, <2>3, <2>5, <2>6
      <4>2. CASE u # t
        <5>1. ptr'[u] = ptr[u] /\ (Computing(u)' <=> Computing(u))
          BY <4>2, <2>3, <2>5
        <5>2. Computing(u) <=> ptr[u] # Nothing
          OBVIOUS
        <5>. QED
          BY <5>1, <5>2
      <4>. QED
        BY <4>1, <4>2
    <3>2. \A s \in Sessions : ptr'[s] = Nothing
      <4>1. \A s \in Sessions : ptr[s] = Nothing /\ s \in Callers \ {t}
        BY DEF PrivatePagesInv, PagesArePrivate, PointersAreExclusive
      <4>. QED
        BY <4>1, <2>3
    <3>3. ASSUME NEW u \in Threads, NEW v \in Threads, ptr'[u] = ptr'[v], ptr'[u] # Nothing
          PROVE  u = v
      BY <3>3, <2>3, <2>6
    <3>. QED
      BY <3>1, <3>2, <3>3 DEF PointersAreExclusive
  <2>8. (mapped = {ptr[u] : u \in {v \in Threads : Computing(v)}})'
    <3>. DEFINE pages == {ptr[u] : u \in {v \in Threads : Computing(v)}}
    <3>1. pages' \subseteq pages \cup {r}
      BY <2>3, <2>5
    <3>2. pages \subseteq pages' /\ r \in pages'
      BY <2>3, <2>5
    <3>3. mapped = pages
      BY DEF PrivatePagesInv, PagesArePrivate
    <3>4. mapped' = pages'
      <4>. HIDE DEF pages
      <4>. QED
        BY <3>1, <3>2, <3>3, <2>1
    <3>. QED
      BY <3>4
  <2>9. OpenUnderAPointer' /\ ComputeReadsOwnWeights'
    <3>1. ASSUME NEW q \in Regions, view'[q] # "none" \/ content'[q] # Nothing
          PROVE  \E u \in Threads : ptr'[u] = q
      <4>1. CASE q = r
        BY <4>1, <2>3
      <4>2. CASE q # r
        <5>1. PICK u \in Threads : ptr[u] = q
          BY <3>1, <4>2, <2>3 DEF PrivatePagesInv, PagesArePrivate, OpenUnderAPointer
        <5>. QED
          BY <5>1, <2>3, <2>5, <4>2
      <4>. QED
        BY <4>1, <4>2
    <3>2. ASSUME NEW u \in Threads, pc'[u] \in {"view", "output", "compute"}
          PROVE  view'[ptr'[u]] # "none" /\ content'[ptr'[u]] = session'[u]
      <4>1. u # t /\ pc'[u] = pc[u] /\ Computing(u)
        BY <3>2, <2>5 DEF Computing
      <4>2. ptr'[u] = ptr[u] /\ ptr[u] # r /\ ptr[u] \in Regions
        BY <4>1, <2>3, <2>6
      <4>. QED
        BY <3>2, <4>1, <4>2, <2>3, <1>1
        DEF PrivatePagesInv, PagesArePrivate, OpenUnderAPointer, ComputeReadsOwnWeights
    <3>. QED
      BY <3>1, <3>2 DEF OpenUnderAPointer, ComputeReadsOwnWeights
  <2>10. NothingIsPooled' /\ NodeIsCounted' /\ \A u \in Threads : pc'[u] # "take"
    BY <1>1, <1>3, <2>2, <2>5 DEF PrivatePagesInv, NothingIsPooled, NodeIsCounted, sessionVars
  <2>. QED
    BY <2>4, <2>7, <2>8, <2>9, <2>10 DEF PrivatePagesInv, PagesArePrivate
<1>4. CASE LeaseFails(t, n) /\ NextNode(t, TRUE) /\ key' = [key EXCEPT ![t] = Nothing]
  <2>1. TRUE \in BOOLEAN /\ NodeIsCounted
    BY Zenon DEF PrivatePagesInv
  <2>2. /\ pc' = [pc EXCEPT ![t] = "node"]
        /\ todo' \in [Threads -> 0..NodesPerRun]
        /\ missed' \in [Threads -> BOOLEAN]
        /\ \A u \in Threads \ {t} : todo'[u] = todo[u]
    BY <1>1, <1>4, <2>1, NextNodeFacts, Zenon
  <2>3. UNCHANGED nativeVars
    BY <1>4 DEF LeaseFails
  <2>4. TypeOK'
    <3>1. NativeTypeOK'
      BY <2>3 DEF TypeOK, NativeTypeOK, nativeVars, Elements
    <3>2. KernelTypeOK'
      BY <1>1, <1>4, <2>2 DEF TypeOK, KernelTypeOK, Phases, Keys
    <3>. QED
      BY <1>1, <3>1, <3>2 DEF TypeOK, sessionVars
  <2>5. /\ pc'[t] = "node" /\ \A u \in Threads \ {t} : pc'[u] = pc[u]
        /\ \A u \in Threads : Computing(u)' = Computing(u)
    <3>1. pc'[t] = "node" /\ \A u \in Threads \ {t} : pc'[u] = pc[u]
      BY <2>2 DEF TypeOK, KernelTypeOK
    <3>2. ASSUME NEW u \in Threads
          PROVE  Computing(u)' = Computing(u)
      <4>1. CASE u = t
        BY <4>1, <1>1, <3>1 DEF Computing
      <4>2. CASE u # t
        BY <4>2, <3>1 DEF Computing
      <4>. QED
        BY <4>1, <4>2
    <3>. QED
      BY <3>1, <3>2
  <2>6. NothingIsPooled' /\ NodeIsCounted'
    <3>1. NothingIsPooled'
      BY <1>1, <2>3 DEF PrivatePagesInv, NothingIsPooled, sessionVars, nativeVars
    <3>2. ASSUME NEW u \in Threads, pc'[u] \in {"lease", "take"} \/ Computing(u)'
          PROVE  todo'[u] > 0
      <4>1. u # t
        BY <3>2, <2>5 DEF Computing
      <4>2. pc[u] \in {"lease", "take"} \/ Computing(u)
        BY <3>2, <4>1, <2>5
      <4>. QED
        BY <4>1, <4>2, <2>2 DEF PrivatePagesInv, NodeIsCounted
    <3>. QED
      BY <3>1, <3>2 DEF NodeIsCounted
  <2>. QED
    BY <1>1, <2>3, <2>4, <2>5, <2>6, PrivateControl DEF PrivatePagesInv, nativeVars
<1>. QED
  BY <1>2, <1>3, <1>4 DEF Lease

\* A kernel writes its weights into its own page.
LEMMA PrivateDecrypt ==
  ASSUME PrivatePagesInv, NEW t \in Threads, Decrypt(t), UNCHANGED sessionVars
  PROVE  PrivatePagesInv'
<1>. USE PrivateFacts
<1>1. Computing(t) /\ ptr[t] \in Regions
  BY DEF Decrypt, Computing
<1>2. PICK phase \in {"view", "fail"} : pc' = [pc EXCEPT ![t] = phase]
  BY DEF Decrypt, MoveTo
<1>3. /\ view' \in [Regions -> {"none", "write", "read"}]
      /\ DOMAIN content' = Regions
      /\ \A q \in Regions \ {ptr[t]} : view'[q] = view[q] /\ content'[q] = content[q]
      /\ view'[ptr[t]] # "none" /\ content'[ptr[t]] = session[t]
  BY <1>1 DEF Decrypt, TypeOK, NativeTypeOK
<1>4. /\ UNCHANGED <<g_pool, g_pool_size, g_pool_initialized, mapped, found, ptr,
                     active_slots, vault, session, todo, missed, sessionVars>>
      /\ key' = [key EXCEPT ![t] = Nothing]
  BY DEF Decrypt
<1>5. TypeOK'
  <2>1. NativeTypeOK'
    BY <1>3, <1>4 DEF TypeOK, NativeTypeOK, Elements
  <2>2. KernelTypeOK'
    BY <1>2, <1>4 DEF TypeOK, KernelTypeOK, Phases, Keys
  <2>. QED
    BY <1>4, <2>1, <2>2 DEF TypeOK, sessionVars
<1>6. /\ pc'[t] = phase /\ \A u \in Threads \ {t} : pc'[u] = pc[u]
      /\ \A u \in Threads : Computing(u)' = Computing(u)
  BY <1>1, <1>2 DEF TypeOK, KernelTypeOK, Computing
<1>7. NothingIsPooled' /\ NodeIsCounted' /\ PointersAreExclusive'
      /\ \A u \in Threads : pc'[u] # "take"
  BY <1>2, <1>4, <1>6 DEF PrivatePagesInv, PagesArePrivate, NothingIsPooled, NodeIsCounted,
     PointersAreExclusive, sessionVars
<1>8. (mapped = {ptr[u] : u \in {v \in Threads : Computing(v)}})'
  BY <1>4, <1>6 DEF PrivatePagesInv, PagesArePrivate
<1>9. OpenUnderAPointer' /\ ComputeReadsOwnWeights'
  <2>1. ASSUME NEW q \in Regions, view'[q] # "none" \/ content'[q] # Nothing
        PROVE  \E u \in Threads : ptr'[u] = q
    BY <2>1, <1>3, <1>4 DEF PrivatePagesInv, PagesArePrivate, OpenUnderAPointer
  <2>2. ASSUME NEW u \in Threads, pc'[u] \in {"view", "output", "compute"}
        PROVE  view'[ptr'[u]] # "none" /\ content'[ptr'[u]] = session'[u]
    <3>1. CASE u = t
      BY <3>1, <1>3, <1>4
    <3>2. CASE u # t
      <4>1. pc'[u] = pc[u] /\ Computing(u) /\ ptr[u] \in Regions
        BY <2>2, <3>2, <1>6 DEF Computing
      <4>2. ptr[u] # ptr[t]
        BY <4>1, <3>2, <1>1
      <4>. QED
        BY <2>2, <4>1, <4>2, <1>3, <1>4
        DEF PrivatePagesInv, PagesArePrivate, OpenUnderAPointer, ComputeReadsOwnWeights
    <3>. QED
      BY <3>1, <3>2
  <2>. QED
    BY <2>1, <2>2 DEF OpenUnderAPointer, ComputeReadsOwnWeights
<1>. QED
  BY <1>5, <1>7, <1>8, <1>9 DEF PrivatePagesInv, PagesArePrivate

\* A page that is no slot has only the one view.
LEMMA PrivateGetReadView ==
  ASSUME PrivatePagesInv, NEW t \in Threads, GetReadView(t), UNCHANGED sessionVars
  PROVE  PrivatePagesInv'
<1>. USE PrivateFacts
<1>1. UNCHANGED nativeVars
  BY DEF GetReadView, PoolGetReadView, nativeVars
<1>2. /\ pc[t] = "view" /\ pc' = [pc EXCEPT ![t] = "output"]
      /\ UNCHANGED <<vault, key, session, todo, missed, sessionVars>>
  BY DEF GetReadView, MoveTo
<1>3. TypeOK'
  <2>1. NativeTypeOK'
    BY <1>1 DEF TypeOK, NativeTypeOK, nativeVars, Elements
  <2>2. KernelTypeOK'
    BY <1>2 DEF TypeOK, KernelTypeOK, Phases
  <2>. QED
    BY <1>2, <2>1, <2>2 DEF TypeOK, sessionVars
<1>4. /\ pc'[t] = "output" /\ \A u \in Threads \ {t} : pc'[u] = pc[u]
      /\ \A u \in Threads : Computing(u)' = Computing(u)
  BY <1>2 DEF TypeOK, KernelTypeOK, Computing
<1>5. NothingIsPooled' /\ NodeIsCounted'
  BY <1>1, <1>2, <1>4
  DEF PrivatePagesInv, NothingIsPooled, NodeIsCounted, sessionVars, nativeVars
<1>. QED
  BY <1>1, <1>2, <1>3, <1>4, <1>5, PrivateControl DEF PrivatePagesInv, nativeVars

\* A kernel's page is wiped and unmapped.
LEMMA PrivateRelease ==
  ASSUME PrivatePagesInv, NEW t \in Threads, NEW miss \in BOOLEAN,
         pc[t] \in {"fail", "release"}, PoolRelease(t), NextNode(t, miss),
         UNCHANGED <<vault, key, session, sessionVars>>
  PROVE  PrivatePagesInv'
<1>. USE PrivateFacts
<1>0. PICK r : r = ptr[t]
  OBVIOUS
<1>1. Computing(t) /\ t \in Callers /\ r \in Regions /\ r # Nothing
      /\ \A u \in Threads \ {t} : ptr[u] # r
  BY <1>0 DEF Computing
<1>2. /\ UNCHANGED <<g_pool, g_pool_size, g_pool_initialized, found, active_slots>>
      /\ mapped' = mapped \ {r}
  BY <1>0 DEF PoolRelease
<1>3. /\ view' \in [Regions -> {"none", "write", "read"}] /\ view'[r] = "none"
      /\ \A q \in Regions \ {r} : view'[q] = view[q] /\ content'[q] = content[q]
      /\ DOMAIN content' = Regions /\ content'[r] = Nothing
  BY <1>0, <1>1 DEF PoolRelease, WipeRegion, TypeOK, NativeTypeOK
<1>4. /\ ptr' \in [Callers -> Regions \cup {Nothing}] /\ ptr'[t] = Nothing
      /\ \A y \in Callers \ {t} : ptr'[y] = ptr[y]
  BY <1>1 DEF PoolRelease, TypeOK, NativeTypeOK
<1>5. /\ pc' = [pc EXCEPT ![t] = "node"]
      /\ todo' \in [Threads -> 0..NodesPerRun]
      /\ missed' \in [Threads -> BOOLEAN]
      /\ \A u \in Threads \ {t} : todo'[u] = todo[u]
  <2>1. TypeOK /\ NodeIsCounted
    BY DEF PrivatePagesInv
  <2>2. Computing(t)
    BY <1>1
  <2>. QED
    BY <2>1, <2>2, NextNodeFacts
<1>6. /\ pc'[t] = "node" /\ \A u \in Threads \ {t} : pc'[u] = pc[u]
      /\ ~Computing(t)' /\ \A u \in Threads \ {t} : (Computing(u)' <=> Computing(u))
  BY <1>5 DEF TypeOK, KernelTypeOK, Computing
<1>7. TypeOK'
  <2>1. NativeTypeOK'
    BY <1>2, <1>3, <1>4 DEF TypeOK, NativeTypeOK
  <2>2. KernelTypeOK'
    BY <1>5 DEF TypeOK, KernelTypeOK, Phases
  <2>. QED
    BY <2>1, <2>2 DEF TypeOK, sessionVars
<1>8. NothingIsPooled' /\ NodeIsCounted' /\ \A u \in Threads : pc'[u] # "take"
  BY <1>2, <1>5, <1>6 DEF PrivatePagesInv, NothingIsPooled, NodeIsCounted, sessionVars
<1>9. PointersAreExclusive'
  <2>1. ASSUME NEW u \in Threads
        PROVE  ptr'[u] # Nothing <=> Computing(u)'
    <3>1. CASE u = t
      BY <3>1, <1>4, <1>6
    <3>2. CASE u # t
      <4>1. ptr'[u] = ptr[u] /\ (Computing(u)' <=> Computing(u))
        BY <3>2, <1>4, <1>6
      <4>2. Computing(u) <=> ptr[u] # Nothing
        OBVIOUS
      <4>. QED
        BY <4>1, <4>2
    <3>. QED
      BY <3>1, <3>2
  <2>2. \A s \in Sessions : ptr'[s] = Nothing
    BY <1>4 DEF PrivatePagesInv, PagesArePrivate, PointersAreExclusive
  <2>3. ASSUME NEW u \in Threads, NEW v \in Threads, ptr'[u] = ptr'[v], ptr'[u] # Nothing
        PROVE  u = v
    BY <2>3, <1>4
  <2>. QED
    BY <2>1, <2>2, <2>3 DEF PointersAreExclusive
<1>10. (mapped = {ptr[u] : u \in {v \in Threads : Computing(v)}})'
  <2>. DEFINE pages == {ptr[u] : u \in {v \in Threads : Computing(v)}}
  <2>1. pages' = pages \ {r}
    <3>1. \A u \in Threads \ {t} : ptr'[u] = ptr[u] /\ (Computing(u)' <=> Computing(u))
      BY <1>4, <1>6
    <3>. QED
      BY <3>1, <1>0, <1>1, <1>6
  <2>2. mapped = pages
    BY DEF PrivatePagesInv, PagesArePrivate
  <2>3. mapped' = pages'
    <3>. HIDE DEF pages
    <3>. QED
      BY <2>1, <2>2, <1>2
  <2>. QED
    BY <2>3
<1>11. OpenUnderAPointer' /\ ComputeReadsOwnWeights'
  <2>1. ASSUME NEW q \in Regions, view'[q] # "none" \/ content'[q] # Nothing
        PROVE  \E u \in Threads : ptr'[u] = q
    <3>1. q # r
      BY <2>1, <1>3
    <3>2. PICK u \in Threads : ptr[u] = q
      BY <2>1, <3>1, <1>3 DEF PrivatePagesInv, PagesArePrivate, OpenUnderAPointer
    <3>. QED
      BY <3>1, <3>2, <1>0, <1>4
  <2>2. ASSUME NEW u \in Threads, pc'[u] \in {"view", "output", "compute"}
        PROVE  view'[ptr'[u]] # "none" /\ content'[ptr'[u]] = session'[u]
    <3>1. u # t /\ pc'[u] = pc[u] /\ Computing(u)
      BY <2>2, <1>6 DEF Computing
    <3>2. ptr'[u] = ptr[u] /\ ptr[u] # r /\ ptr[u] \in Regions
      BY <3>1, <1>1, <1>4
    <3>. QED
      BY <2>2, <3>1, <3>2, <1>3
      DEF PrivatePagesInv, PagesArePrivate, OpenUnderAPointer, ComputeReadsOwnWeights
  <2>. QED
    BY <2>1, <2>2 DEF OpenUnderAPointer, ComputeReadsOwnWeights
<1>. QED
  BY <1>7, <1>8, <1>9, <1>10, <1>11 DEF PrivatePagesInv, PagesArePrivate

\* Every step keeps the pages private, whatever the other threads do.
LEMMA NextPrivate ==
  ASSUME PrivatePagesInv, NoPool, [Next]_vars
  PROVE  PrivatePagesInv'
<1>1. ASSUME NEW t \in Threads, ThreadStep(t)
      PROVE  PrivatePagesInv'
  BY <1>1, PrivateThread
<1>2. ASSUME NEW t \in Threads, Lease(t) \/ Decrypt(t) \/ GetReadView(t), UNCHANGED sessionVars
      PROVE  PrivatePagesInv'
  BY <1>2, PrivateLease, PrivateDecrypt, PrivateGetReadView
<1>3. ASSUME NEW t \in Threads, GiveUp(t) \/ ReleaseWeights(t), UNCHANGED sessionVars
      PROVE  PrivatePagesInv'
  <2>1. PICK miss \in BOOLEAN : NextNode(t, miss)
    <3>1. TRUE \in BOOLEAN /\ FALSE \in BOOLEAN
      BY Zenon
    <3>2. NextNode(t, TRUE) \/ NextNode(t, FALSE)
      BY <1>3 DEF GiveUp, ReleaseWeights
    <3>. QED
      BY <3>1, <3>2, Zenon
  <2>2. /\ pc[t] \in {"fail", "release"} /\ PoolRelease(t)
        /\ UNCHANGED <<vault, key, session, sessionVars>>
    BY <1>3 DEF GiveUp, ReleaseWeights
  <2>. QED
    BY <2>1, <2>2, PrivateRelease
<1>4. ASSUME NEW t \in Threads, TakeSlot(t)
      PROVE  FALSE
  BY <1>4 DEF TakeSlot, PrivatePagesInv
<1>5. ASSUME NEW t \in Threads, ConfigurePool(t)
      PROVE  PrivatePagesInv'
  BY <1>5, PrivateConfigure
<1>6. ASSUME NEW s \in Sessions, TimerFires(s) \/ BeginCompact(s) \/ EndCompact(s)
      PROVE  PrivatePagesInv'
  BY <1>6, PrivateTimer
<1>7. CASE UNCHANGED vars
  <2>1. TypeOK' /\ NodeIsCounted' /\ NothingIsPooled'
    <3>1. NativeTypeOK'
      BY <1>7 DEF vars, nativeVars, PrivatePagesInv, TypeOK, NativeTypeOK, Elements
    <3>. QED
      BY <1>7, <3>1 DEF vars, nativeVars, kernelVars, sessionVars, PrivatePagesInv, TypeOK,
         KernelTypeOK, NodeIsCounted, Computing, NothingIsPooled
  <2>. QED
    BY <1>7, <2>1, PrivateControl
    DEF vars, nativeVars, kernelVars, PrivatePagesInv, Computing
<1>. QED
  BY <1>1, <1>2, <1>3, <1>4, <1>5, <1>6, <1>7 DEF Next, Working, Compute, ThreadStep

LEMMA PrivateImplies ==
  PrivatePagesInv => AccessIsMapped /\ ComputeReadsOwnWeights /\ QuietProcessIsClean
<1>. SUFFICES ASSUME PrivatePagesInv
              PROVE  AccessIsMapped /\ ComputeReadsOwnWeights /\ QuietProcessIsClean
  OBVIOUS
<1>1. AccessIsMapped
  BY PrivateFacts
  DEF AccessIsMapped, Computing, PrivatePagesInv, PagesArePrivate, OpenUnderAPointer
<1>2. ComputeReadsOwnWeights
  BY DEF PrivatePagesInv, PagesArePrivate
<1>3. QuietProcessIsClean
  <2>. SUFFICES ASSUME \A x \in Threads : pc[x] = "idle"
                PROVE  /\ mapped = SlotRegions(Elements)
                       /\ \A r \in Regions : content[r] = Nothing /\ view[r] = "none"
    BY DEF QuietProcessIsClean
  <2>1. \A t \in Threads : ~Computing(t) /\ ptr[t] = Nothing
    BY PrivateFacts DEF Computing
  <2>2. mapped = {} /\ SlotRegions(Elements) = {}
    BY <2>1, PrivateFacts DEF PrivatePagesInv, PagesArePrivate
  <2>. QED
    BY <2>1, <2>2 DEF PrivatePagesInv, PagesArePrivate, OpenUnderAPointer
<1>. QED
  BY <1>1, <1>2, <1>3

\* A process without a pool gives every kernel a page of its own, however its
\* threads, its sessions and their timers interleave: pal_lease_secure_slot
\* maps it and pal_release_secure_slot wipes and unmaps it.
THEOREM SessionPagesArePrivate ==
  ASSUME NoPool
  PROVE  Spec => []PrivatePagesInv
<1>1. PrivatePagesInv /\ [Next]_vars => PrivatePagesInv'
  BY NextPrivate
<1>. QED
  BY <1>1, InitPrivate, PTL DEF Spec

-----------------------------------------------------------------------------
(* What a serial program and one without a pool have in common.            *)

\* No kernel of a serial program touches an address that a compaction or a
\* new session has unmapped, and none of a program without a pool does, in
\* whatever order its threads call.
THEOREM SessionAccessIsMapped ==
  ASSUME Serial \/ NoPool
  PROVE  Spec => []AccessIsMapped
<1>1. CASE Serial
  <2>1. IInv => AccessIsMapped
    BY InvariantImplies DEF IInv
  <2>. QED
    BY <1>1, <2>1, SessionInvariant, PTL
<1>2. CASE NoPool
  BY <1>2, PrivateImplies, SessionPagesArePrivate, PTL
<1>. QED
  BY <1>1, <1>2

\* The kernels of both compute with the weights of the session that their
\* thread runs.
THEOREM SessionComputeReadsOwnWeights ==
  ASSUME Serial \/ NoPool
  PROVE  Spec => []ComputeReadsOwnWeights
<1>1. CASE Serial
  <2>1. IInv => ComputeReadsOwnWeights
    BY DEF IInv, PoolInv
  <2>. QED
    BY <1>1, <2>1, SessionInvariant, PTL
<1>2. CASE NoPool
  BY <1>2, PrivateImplies, SessionPagesArePrivate, PTL
<1>. QED
  BY <1>1, <1>2

\* Between the runs of both there is no page but the pool's, and no plaintext
\* at all.
THEOREM SessionQuietProcessIsClean ==
  ASSUME Serial \/ NoPool
  PROVE  Spec => []QuietProcessIsClean
<1>1. CASE Serial
  <2>1. IInv => QuietProcessIsClean
    BY InvariantImplies DEF IInv
  <2>. QED
    BY <1>1, <2>1, SessionInvariant, PTL
<1>2. CASE NoPool
  BY <1>2, PrivateImplies, SessionPagesArePrivate, PTL
<1>. QED
  BY <1>1, <1>2

-----------------------------------------------------------------------------
(* Refinement: the pool implements SlotLease.                              *)

\* What SlotLease sees of the pool: the regions that are mapped and in the
\* vector.  A compaction has taken the idle ones away before it shortens it.
LEMMA PoolRegionsFacts ==
  ASSUME PoolInv
  PROVE  /\ PoolRegions \subseteq Regions /\ Nothing \notin PoolRegions
         /\ ~Compacting => PoolRegions = SlotRegions(Elements)
         /\ Compacting => PoolRegions = SlotRegions(Elements \ IdleSlots)
<1>. DEFINE pages == {ptr[u] : u \in {v \in Threads : Computing(v)}}
<1>1. PoolRegions \subseteq Regions /\ Nothing \notin PoolRegions
  BY DEF PoolRegions, PoolInv, TypeOK, NativeTypeOK
<1>2. ASSUME ~Compacting
      PROVE  PoolRegions = SlotRegions(Elements)
  BY <1>2 DEF PoolRegions, PoolInv, MappedIsAccounted
<1>3. ASSUME Compacting
      PROVE  PoolRegions = SlotRegions(Elements \ IdleSlots)
  <2>1. mapped = SlotRegions(Elements \ IdleSlots) \cup pages
    BY <1>3 DEF PoolInv, MappedIsAccounted
  <2>2. SlotRegions(Elements \ IdleSlots) \subseteq SlotRegions(Elements)
    BY DEF SlotRegions
  <2>3. ASSUME NEW q \in pages, q \in SlotRegions(Elements)
        PROVE  q \in SlotRegions(Elements \ IdleSlots)
    <3>1. PICK i \in Elements : q = g_pool[i].region
      BY <2>3 DEF SlotRegions
    <3>2. i \notin IdleSlots
      BY <3>1 DEF PoolInv, SlotsAreAccounted, IdleSlots
    <3>. QED
      BY <3>1, <3>2 DEF SlotRegions
  <2>. QED
    <3>. HIDE DEF pages
    <3>. QED
      BY <2>1, <2>2, <2>3 DEF PoolRegions
<1>. QED
  BY <1>1, <1>2, <1>3

\* There is no pool at first.
LEMMA SessionInitRefines == Init => SlotLease!LeaseInit
<1>. SUFFICES ASSUME Init
              PROVE  SlotLease!LeaseInit
  OBVIOUS
<1>1. PoolRegions = {}
  BY DEF Init, NativeInit, PoolRegions
<1>. QED
  BY <1>1 DEF SlotLease!LeaseInit

\* Whoever changes neither the pool, nor a pointer into it, nor which of its
\* slots hold a plaintext, takes no step of SlotLease.
LEMMA SessionStutters ==
  ASSUME PoolRegions' = PoolRegions,
         \A t \in Threads : ptr'[t] = ptr[t]
                            \/ (ptr[t] \notin PoolRegions /\ ptr'[t] \notin PoolRegions),
         \A r \in PoolRegions : (content'[r] # Nothing <=> content[r] # Nothing)
  PROVE  UNCHANGED SlotLease!leaseVars
<1>1. \A t \in Threads : {ptr'[t]} \cap PoolRegions = {ptr[t]} \cap PoolRegions
  OBVIOUS
<1>2. [t \in Threads |-> {ptr[t]} \cap PoolRegions]' = [t \in Threads |-> {ptr[t]} \cap PoolRegions]
  BY <1>1
<1>3. {r \in PoolRegions : content[r] # Nothing}' = {r \in PoolRegions : content[r] # Nothing}
  OBVIOUS
<1>. QED
  BY <1>2, <1>3 DEF SlotLease!leaseVars

\* A lease takes a free slot of the pool: Grant.
LEMMA TakeRefines ==
  ASSUME PoolInv, Serial, TimersNeedATimeout, NEW t \in Threads, TakeSlot(t)
  PROVE  SlotLease!LeaseNext
<1>0. PICK i, r : i = found[t] /\ r = g_pool[i].region
  OBVIOUS
<1>1. /\ pc[t] = "take"
      /\ g_pool' = [g_pool EXCEPT ![i].in_use = TRUE]
      /\ ptr' = [ptr EXCEPT ![t] = r]
      /\ UNCHANGED <<g_pool_size, mapped, content>>
  BY <1>0 DEF TakeSlot, LeaseTake
<1>2. i \in Elements /\ ~g_pool[i].in_use /\ r \in Regions /\ t \in Callers /\ found[t] # 0
  BY <1>0, <1>1 DEF PoolInv, InsidersAreInPhase, FoundIsFree, ElementsAreRegions
<1>3. ~Compacting
  BY <1>2 DEF PoolInv, InsidersAreInPhase, InsidePool, Compacting
<1>4. \A u \in Threads : ptr[u] # r
  BY <1>0, <1>2 DEF PoolInv, SlotsAreAccounted
<1>5. ptr[t] = Nothing
  BY <1>1 DEF PoolInv, PointersAreExclusive, Computing
<1>6. PoolRegions' = PoolRegions
  <2>1. Elements' = Elements /\ Elements \subseteq 1..NumSlots
        /\ g_pool \in [1..NumSlots -> SlotRecord]
    BY <1>1 DEF Elements, PoolInv, TypeOK, NativeTypeOK
  <2>2. \A j \in Elements : g_pool'[j].region = g_pool[j].region
    BY <2>1, <1>1 DEF SlotRecord
  <2>3. SlotRegions(Elements)' = SlotRegions(Elements)
    BY <2>1, <2>2 DEF SlotRegions
  <2>. QED
    BY <2>3, <1>1 DEF PoolRegions
<1>7. r \in PoolRegions /\ Nothing \notin PoolRegions
  BY <1>0, <1>2, <1>3, PoolRegionsFacts DEF SlotRegions
<1>8. r \notin SlotLease!Held
  BY <1>4 DEF SlotLease!Held
<1>9. ptr'[t] = r /\ \A u \in Threads \ {t} : ptr'[u] = ptr[u]
  BY <1>1, <1>2 DEF PoolInv, TypeOK, NativeTypeOK
<1>10. [u \in Threads |-> {ptr[u]} \cap PoolRegions]' =
         [[u \in Threads |-> {ptr[u]} \cap PoolRegions] EXCEPT ![t] = @ \cup {r}]
  <2>1. {ptr'[t]} \cap PoolRegions' = ({ptr[t]} \cap PoolRegions) \cup {r}
    BY <1>5, <1>6, <1>7, <1>9
  <2>2. \A u \in Threads \ {t} : {ptr'[u]} \cap PoolRegions' = {ptr[u]} \cap PoolRegions
    BY <1>6, <1>9
  <2>. QED
    BY <2>1, <2>2
<1>11. SlotLease!Grant(t, r)
  BY <1>1, <1>6, <1>7, <1>8, <1>10 DEF SlotLease!Grant
<1>. QED
  BY <1>2, <1>11 DEF SlotLease!LeaseNext

\* A page of its own is no part of the pool.
LEMMA DynamicRefines ==
  ASSUME PoolInv, Serial, TimersNeedATimeout, NEW t \in Threads, NEW n, pc[t] = "lease", LeaseDynamic(t, n)
  PROVE  UNCHANGED SlotLease!leaseVars
<1>1. PICK r \in Regions \ mapped :
        /\ mapped' = mapped \cup {r}
        /\ content' = [content EXCEPT ![r] = Nothing]
        /\ ptr' = [ptr EXCEPT ![t] = r]
        /\ UNCHANGED <<g_pool, g_pool_size>>
  BY DEF LeaseDynamic
<1>2. ~Compacting
  BY LeasesAlone DEF LeaseDynamic
<1>3. SlotRegions(Elements) \subseteq mapped
  BY <1>2 DEF PoolInv, MappedIsAccounted
<1>4. SlotRegions(Elements)' = SlotRegions(Elements)
  BY <1>1 DEF SlotRegions, Elements
<1>5. PoolRegions' = PoolRegions /\ r \notin PoolRegions
  BY <1>1, <1>3, <1>4 DEF PoolRegions
<1>6. ptr[t] = Nothing /\ Nothing \notin PoolRegions
  BY PoolRegionsFacts DEF PoolInv, PointersAreExclusive, Computing
<1>7. \A u \in Threads : ptr'[u] = ptr[u]
                         \/ (ptr[u] \notin PoolRegions /\ ptr'[u] \notin PoolRegions)
  BY <1>1, <1>5, <1>6 DEF PoolInv, TypeOK, NativeTypeOK
<1>8. \A q \in PoolRegions : content'[q] = content[q]
  BY <1>1, <1>5, PoolRegionsFacts DEF PoolInv, TypeOK, NativeTypeOK
<1>. QED
  BY <1>5, <1>7, <1>8, SessionStutters

\* The decryption of a weight into a slot of the pool: Fill.
LEMMA DecryptRefines ==
  ASSUME PoolInv, NEW t \in Threads, Decrypt(t)
  PROVE  SlotLease!LeaseNext \/ UNCHANGED SlotLease!leaseVars
<1>0. PICK r : r = ptr[t]
  OBVIOUS
<1>1. /\ content' = [content EXCEPT ![r] = session[t]]
      /\ UNCHANGED <<g_pool, g_pool_size, mapped, ptr>>
      /\ session[t] # Nothing /\ r \in Regions /\ r \in mapped
  BY <1>0 DEF Decrypt, PoolInv, TypeOK, NativeTypeOK, KernelTypeOK
<1>2. PoolRegions' = PoolRegions /\ PoolRegions \subseteq Regions
  BY <1>1, PoolRegionsFacts DEF PoolRegions, SlotRegions, Elements
<1>3. content'[r] # Nothing /\ \A q \in Regions \ {r} : content'[q] = content[q]
  BY <1>1 DEF PoolInv, TypeOK, NativeTypeOK
<1>4. CASE r \in PoolRegions
  <2>1. {q \in PoolRegions : content[q] # Nothing}' =
          {q \in PoolRegions : content[q] # Nothing} \cup {r}
    BY <1>2, <1>3, <1>4
  <2>2. [u \in Threads |-> {ptr[u]} \cap PoolRegions]' = [u \in Threads |-> {ptr[u]} \cap PoolRegions]
    BY <1>1, <1>2
  <2>3. SlotLease!Fill(t, r)
    BY <2>1, <2>2, <1>0, <1>2, <1>4 DEF SlotLease!Fill
  <2>. QED
    BY <2>3, <1>1 DEF SlotLease!LeaseNext
<1>5. CASE r \notin PoolRegions
  BY <1>1, <1>2, <1>3, <1>5, SessionStutters
<1>. QED
  BY <1>4, <1>5

\* A release returns the slot, or unmaps the thread's own page: Return.
LEMMA ReleaseRefines ==
  ASSUME PoolInv, Serial, TimersNeedATimeout, NEW t \in Threads, pc[t] \in {"fail", "release"}, PoolRelease(t)
  PROVE  SlotLease!LeaseNext \/ UNCHANGED SlotLease!leaseVars
<1>0. PICK r : r = ptr[t]
  OBVIOUS
<1>1. Computing(t) /\ t \in Callers
  BY DEF Computing
<1>2. /\ r \in Regions /\ r \in mapped
      /\ \A u \in Threads \ {t} : ptr[u] # r
      /\ SlotOf(r) = {i \in Elements : g_pool[i].region = r}
      /\ Elements \subseteq 1..NumSlots
      /\ g_pool \in [1..NumSlots -> SlotRecord]
  BY <1>0, <1>1, PointerFacts, SlotOfFacts DEF PoolRelease, PoolInv, TypeOK, NativeTypeOK
<1>3. ptr'[t] = Nothing /\ \A u \in Threads \ {t} : ptr'[u] = ptr[u]
  BY <1>1 DEF PoolRelease, PoolInv, TypeOK, NativeTypeOK
<1>4. content'[r] = Nothing /\ \A q \in Regions \ {r} : content'[q] = content[q]
  BY <1>0, <1>2 DEF PoolRelease, WipeRegion, PoolInv, TypeOK, NativeTypeOK
<1>5. Elements' = Elements
  BY DEF PoolRelease, Elements
<1>6. SlotRegions(Elements)' = SlotRegions(Elements)
  <2>1. \A i \in Elements : g_pool'[i].region = g_pool[i].region
    <3>1. CASE SlotOf(r) # {}
      <4>1. g_pool' = [i \in 1..NumSlots |->
              IF i \in SlotOf(r) THEN [g_pool[i] EXCEPT !.in_use = FALSE] ELSE g_pool[i]]
        BY <3>1, <1>0 DEF PoolRelease
      <4>2. \A i \in 1..NumSlots : [g_pool[i] EXCEPT !.in_use = FALSE].region = g_pool[i].region
        BY <1>2 DEF SlotRecord
      <4>. QED
        BY <4>1, <4>2, <1>2
    <3>2. CASE SlotOf(r) = {}
      BY <3>2, <1>0 DEF PoolRelease
    <3>. QED
      BY <3>1, <3>2
  <2>. QED
    BY <2>1, <1>5 DEF SlotRegions
<1>7. r \in SlotRegions(Elements) <=> SlotOf(r) # {}
  BY <1>2 DEF SlotRegions
<1>8. mapped' = IF SlotOf(r) # {} THEN mapped ELSE mapped \ {r}
  BY <1>0 DEF PoolRelease
<1>9. PoolRegions' = PoolRegions /\ (r \in PoolRegions <=> SlotOf(r) # {})
  BY <1>2, <1>6, <1>7, <1>8 DEF PoolRegions
<1>10. Nothing \notin PoolRegions /\ PoolRegions \subseteq Regions
  BY PoolRegionsFacts
<1>11. CASE r \in PoolRegions
  <2>1. {q \in PoolRegions : content[q] # Nothing}' =
          {q \in PoolRegions : content[q] # Nothing} \ {r}
    BY <1>4, <1>9, <1>10
  <2>2. [u \in Threads |-> {ptr[u]} \cap PoolRegions]' =
          [[u \in Threads |-> {ptr[u]} \cap PoolRegions] EXCEPT ![t] = @ \ {r}]
    <3>1. {ptr'[t]} \cap PoolRegions' = ({ptr[t]} \cap PoolRegions) \ {r}
      BY <1>0, <1>3, <1>9, <1>10
    <3>2. \A u \in Threads \ {t} : {ptr'[u]} \cap PoolRegions' = {ptr[u]} \cap PoolRegions
      BY <1>3, <1>9
    <3>. QED
      BY <3>1, <3>2
  <2>3. SlotLease!Return(t, r)
    BY <2>1, <2>2, <1>0, <1>9, <1>11 DEF SlotLease!Return
  <2>. QED
    BY <2>3, <1>2 DEF SlotLease!LeaseNext
<1>12. CASE r \notin PoolRegions
  BY <1>0, <1>3, <1>4, <1>9, <1>10, <1>12, SessionStutters
<1>. QED
  BY <1>11, <1>12

\* A new session replaces the pool, which nobody holds a slot of: Rebuild.
LEMMA ConfigureRefines ==
  ASSUME PoolInv, Serial, TimersNeedATimeout, NEW t \in Threads, ConfigurePool(t)
  PROVE  SlotLease!LeaseNext
<1>1. PoolInv'
  BY ConfigurePoolInv
<1>2. \A u \in Threads : ~Computing(u)
  BY DEF ConfigurePool, PoolInv, OpensAlone, Computing
<1>3. /\ \A u \in Threads : ptr[u] = Nothing /\ ptr'[u] = Nothing
      /\ Nothing \notin PoolRegions /\ PoolRegions \subseteq Regions
      /\ PoolRegions' \subseteq Regions /\ Nothing \notin PoolRegions'
  <2>1. UNCHANGED ptr
    BY DEF ConfigurePool, PoolConfigure, ClearPool
  <2>2. PoolRegions' \subseteq Regions /\ Nothing \notin PoolRegions'
    BY <1>1 DEF PoolRegions, PoolInv, TypeOK, NativeTypeOK
  <2>. QED
    BY <2>1, <2>2, <1>2, PoolRegionsFacts DEF PoolInv, PointersAreExclusive
<1>4. \A r \in Regions : content[r] = Nothing /\ content'[r] = Nothing
  BY <1>1, <1>3 DEF PoolInv, OpenUnderAPointer
<1>5. SlotLease!Held = {}
  BY <1>3 DEF SlotLease!Held
<1>6. /\ [u \in Threads |-> {ptr[u]} \cap PoolRegions]' = [u \in Threads |-> {ptr[u]} \cap PoolRegions]
      /\ {q \in PoolRegions : content[q] # Nothing}' = {q \in PoolRegions : content[q] # Nothing}
  BY <1>3, <1>4
<1>7. SlotLease!Rebuild(PoolRegions')
  BY <1>5, <1>6 DEF SlotLease!Rebuild
<1>. QED
  BY <1>3, <1>7 DEF SlotLease!LeaseNext

\* A compaction takes the slots away that nobody holds: Unmap.
LEMMA BeginCompactRefines ==
  ASSUME PoolInv, Serial, TimersNeedATimeout, NEW s \in Sessions, BeginCompact(s)
  PROVE  SlotLease!LeaseNext
<1>0. PICK gone : gone = SlotRegions(IdleSlots)
  OBVIOUS
<1>1. s \in Callers /\ ~lock[s] /\ Admitted(s) /\ ~InsidePool(s) /\ IdleTimeout
  BY DEF BeginCompact, CompactScan, PoolInv, InsidersAreInPhase, InsidePool,
         TimersNeedATimeout
<1>2. ~Compacting
  BY <1>1, EntersAlone
<1>3. /\ mapped' = mapped \ gone
      /\ content' = [r \in Regions |-> IF r \in gone THEN Nothing ELSE content[r]]
      /\ UNCHANGED <<g_pool, g_pool_size, ptr>>
  BY <1>0 DEF BeginCompact, CompactScan
<1>4. \A u \in Threads : ptr[u] \notin gone
  <2>. SUFFICES ASSUME NEW u \in Threads, NEW i \in IdleSlots, ptr[u] = g_pool[i].region
                PROVE  FALSE
    BY <1>0 DEF SlotRegions
  <2>. QED
    BY DEF PoolInv, SlotsAreAccounted, IdleSlots
<1>5. PoolRegions = SlotRegions(Elements) /\ PoolRegions \subseteq Regions
  BY <1>2, PoolRegionsFacts
<1>6. gone \subseteq PoolRegions
  BY <1>0, <1>5 DEF SlotRegions, IdleSlots
<1>7. PoolRegions' = PoolRegions \ gone
  BY <1>3 DEF PoolRegions, SlotRegions, Elements
<1>8. \A r \in gone : content[r] = Nothing
  BY <1>4, <1>5, <1>6 DEF PoolInv, OpenUnderAPointer
<1>9. [u \in Threads |-> {ptr[u]} \cap PoolRegions]' = [u \in Threads |-> {ptr[u]} \cap PoolRegions]
  BY <1>3, <1>4, <1>7
<1>10. {q \in PoolRegions : content[q] # Nothing}' = {q \in PoolRegions : content[q] # Nothing}
  BY <1>3, <1>5, <1>7, <1>8
<1>11. SlotLease!Unmap(gone)
  BY <1>4, <1>6, <1>7, <1>9, <1>10 DEF SlotLease!Unmap, SlotLease!Held
<1>. QED
  BY <1>5, <1>6, <1>11 DEF SlotLease!LeaseNext

\* Shortening the vector afterwards changes nothing for those who hold slots.
LEMMA EndCompactRefines ==
  ASSUME PoolInv, Serial, TimersNeedATimeout, NEW s \in Sessions, EndCompact(s)
  PROVE  UNCHANGED SlotLease!leaseVars
<1>1. PoolInv' /\ ~Compacting'
  <2>1. PoolInv'
    BY EndCompactPoolInv
  <2>2. lock' = [lock EXCEPT ![s] = FALSE] /\ \A x \in Sessions \ {s} : ~lock[x]
    BY DEF EndCompact, CompactAssign, PoolInv, InsidersAreInPhase, InsidePool
  <2>. QED
    BY <2>1, <2>2 DEF Compacting, PoolInv, TypeOK
<1>2. PICK kept : kept = active_slots[s]
  OBVIOUS
<1>3. Compacting /\ CarriedSlots(kept)
  BY <1>2 DEF EndCompact, Compacting, PoolInv, CompactionCarriesTheSlotsInUse
<1>4. /\ UNCHANGED <<ptr, content, mapped>>
      /\ g_pool' = [i \in 1..NumSlots |-> IF i <= Len(kept) THEN kept[i] ELSE g_pool[i]]
      /\ g_pool_size' = Len(kept)
  BY <1>2 DEF EndCompact, CompactAssign
<1>5. Len(kept) \in Nat /\ Len(kept) <= NumSlots /\ DOMAIN kept = 1..Len(kept)
  BY <1>3 DEF CarriedSlots, PoolInv, TypeOK, NativeTypeOK
<1>6. SlotRegions(Elements)' = {kept[j].region : j \in 1..Len(kept)}
  BY <1>4, <1>5 DEF SlotRegions, Elements
<1>7. \A j \in 1..Len(kept) : kept[j].region \in SlotRegions(Elements \ IdleSlots)
  <2>1. \A j \in 1..Len(kept) : \E i \in Elements \ IdleSlots : g_pool[i] = kept[j]
    BY <1>3, <1>5 DEF CarriedSlots, IdleSlots
  <2>. QED
    BY <2>1 DEF SlotRegions
<1>8. \A i \in Elements \ IdleSlots : g_pool[i].region \in SlotRegions(Elements)'
  <2>1. \A i \in Elements \ IdleSlots : \E j \in 1..Len(kept) : g_pool[i] = kept[j]
    BY <1>3, <1>5 DEF CarriedSlots, IdleSlots
  <2>. QED
    BY <2>1, <1>6
<1>9. SlotRegions(Elements)' = SlotRegions(Elements \ IdleSlots)
  <2>1. SlotRegions(Elements \ IdleSlots) = {g_pool[i].region : i \in Elements \ IdleSlots}
    BY DEF SlotRegions
  <2>2. \A q \in SlotRegions(Elements)' : q \in SlotRegions(Elements \ IdleSlots)
    BY <1>6, <1>7
  <2>3. \A q \in SlotRegions(Elements \ IdleSlots) : q \in SlotRegions(Elements)'
    BY <2>1, <1>8
  <2>. QED
    BY <2>2, <2>3
<1>10. PoolRegions = SlotRegions(Elements \ IdleSlots)
  BY <1>3, PoolRegionsFacts
<1>11. SlotRegions(Elements)' \subseteq mapped'
  BY <1>1 DEF PoolInv, MappedIsAccounted
<1>12. PoolRegions' = PoolRegions
  BY <1>9, <1>10, <1>11 DEF PoolRegions
<1>. QED
  BY <1>4, <1>12, SessionStutters

\* Every step of a serial program is a step of SlotLease, or none.
LEMMA SessionNextRefines ==
  Serial /\ PoolInv /\ TimersNeedATimeout /\ [Next]_vars =>
    [SlotLease!LeaseNext]_(SlotLease!leaseVars)
<1>. SUFFICES ASSUME Serial, PoolInv, TimersNeedATimeout, [Next]_vars
              PROVE  SlotLease!LeaseNext \/ UNCHANGED SlotLease!leaseVars
  OBVIOUS
<1>1. ASSUME UNCHANGED nativeVars
      PROVE  UNCHANGED SlotLease!leaseVars
  <2>1. PoolRegions' = PoolRegions
    BY <1>1 DEF nativeVars, PoolRegions, SlotRegions, Elements
  <2>. QED
    BY <2>1, <1>1, SessionStutters DEF nativeVars
<1>2. ASSUME UNCHANGED <<g_pool, g_pool_size, mapped, content, ptr>>
      PROVE  UNCHANGED SlotLease!leaseVars
  <2>1. PoolRegions' = PoolRegions
    BY <1>2 DEF PoolRegions, SlotRegions, Elements
  <2>. QED
    BY <2>1, <1>2, SessionStutters
<1>3. ASSUME NEW t \in Threads, NEW s \in Sessions, Open(t, s) \/ BeginRun(t, s)
      PROVE  UNCHANGED nativeVars
  BY <1>3 DEF Open, BeginRun
<1>4. ASSUME NEW t \in Threads, MaskKey(t) \/ EndRun(t) \/ RunRaises(t)
      PROVE  UNCHANGED nativeVars
  BY <1>4 DEF MaskKey, EndRun, RunRaises
<1>5. ASSUME NEW t \in Threads, Compute(t)
      PROVE  SlotLease!LeaseNext \/ UNCHANGED SlotLease!leaseVars
  <2>1. CASE RetrieveKey(t) \/ GetOutput(t) \/ Multiply(t)
    BY <2>1, <1>1 DEF RetrieveKey, GetOutput, Multiply
  <2>2. CASE Lease(t)
    <3>. DEFINE n == LayerSize[session[t]]
    <3>1. CASE LeaseScan(t, n)
      BY <3>1, <1>2 DEF LeaseScan
    <3>2. CASE LeaseDynamic(t, n)
      BY <3>2, <2>2, DynamicRefines DEF Lease
    <3>3. CASE LeaseFails(t, n)
      BY <3>3, <1>1 DEF LeaseFails
    <3>. QED
      BY <3>1, <3>2, <3>3, <2>2 DEF Lease
  <2>3. CASE TakeSlot(t)
    BY <2>3, TakeRefines
  <2>4. CASE Decrypt(t)
    BY <2>4, DecryptRefines
  <2>5. CASE GetReadView(t)
    BY <2>5, <1>2 DEF GetReadView, PoolGetReadView
  <2>6. CASE GiveUp(t) \/ ReleaseWeights(t)
    BY <2>6, ReleaseRefines DEF GiveUp, ReleaseWeights
  <2>. QED
    BY <2>1, <2>2, <2>3, <2>4, <2>5, <2>6, <1>5 DEF Compute
<1>6. ASSUME NEW t \in Threads, ConfigurePool(t)
      PROVE  SlotLease!LeaseNext
  BY <1>6, ConfigureRefines
<1>7. ASSUME NEW s \in Sessions, TimerFires(s) \/ BeginCompact(s) \/ EndCompact(s)
      PROVE  SlotLease!LeaseNext \/ UNCHANGED SlotLease!leaseVars
  BY <1>1, <1>7, BeginCompactRefines, EndCompactRefines DEF TimerFires
<1>8. CASE UNCHANGED vars
  BY <1>8, <1>1 DEF vars
<1>. QED
  BY <1>1, <1>3, <1>4, <1>5, <1>6, <1>7, <1>8 DEF Next, Working

\* The native pool keeps the protocol that its callers rely on, through
\* compactions, failed nodes and the opening of sessions: LeaseInvariant then
\* says that no slot has two holders, none is unmapped under its holder, and
\* none keeps a plaintext after its lease.
THEOREM SessionImplementsSlotLease ==
  ASSUME Serial
  PROVE  Spec => ImplementsSlotLease
<1>1. IInv /\ [Next]_vars => [SlotLease!LeaseNext]_(SlotLease!leaseVars)
  BY SessionNextRefines DEF IInv
<1>. QED
  BY <1>1, SessionInitRefines, SessionInvariant, PTL
  DEF Spec, ImplementsSlotLease, SlotLease!LeaseSpec
==============================================================================
