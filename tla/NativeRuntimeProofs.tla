------------------------- MODULE NativeRuntimeProofs -------------------------
(***************************************************************************)
(* What TLAPS proves of the native library's engine, pool and vault, for   *)
(* every request, every key and every size of the buffers.                 *)
(***************************************************************************)
EXTENDS NativeRuntimeInvariant, SizesProofs, FiniteSetTheorems

USE VaultAssumption, SlotsAssumption

-----------------------------------------------------------------------------
(* The AES-GCM engine.                                                     *)

LEMMA EngineStart == EngineInit => EngineInv
BY DEF EngineInit, EngineInv, EngineTypeOK, Acquired

LEMMA EngineStep ==
  ASSUME EngineInv, EngineNext
  PROVE  EngineInv'
<1>. USE DEF EngineInv, EngineTypeOK, Acquired
<1>1. CASE Begin
  BY <1>1 DEF Begin
<1>2. CASE InitContext
  BY <1>2 DEF InitContext, Create, Call
<1>3. CASE Update \/ SetTag \/ Final
  BY <1>3 DEF Update, SetTag, Call, Final
<1>4. CASE OpenAlgorithm
  BY <1>4 DEF OpenAlgorithm, Create, Call
<1>5. CASE ImportKey \/ BCryptDecrypt
  BY <1>5 DEF ImportKey, BCryptDecrypt
<1>. QED
  BY <1>1, <1>2, <1>3, <1>4, <1>5 DEF EngineNext

-----------------------------------------------------------------------------
(* The slots of the native pool.                                           *)

LEMMA LargerOfTwo ==
  ASSUME NEW a \in Int, NEW b \in Int
  PROVE  Max({a, b}) \in {a, b} /\ Max({a, b}) >= a /\ Max({a, b}) >= b
<1>1. \E x \in {a, b} : \A y \in {a, b} : x >= y
  OBVIOUS
<1>. QED
  BY <1>1 DEF Max

LEMMA SlotSizesFacts ==
  ASSUME NEW r \in Requests
  PROVE  /\ SlotSizes(r) \in Seq(Nat)
         /\ Len(SlotSizes(r)) <= 7
         /\ r.max_layer_size \in Nat
         /\ r.use_tiered => /\ Len(SlotSizes(r)) = 7
                            /\ SlotSizes(r)[6] >= r.max_layer_size
                            /\ SlotSizes(r)[7] >= r.max_layer_size
         /\ ~r.use_tiered => /\ Len(SlotSizes(r)) = 4
                             /\ SlotSizes(r)[1] = r.max_layer_size
                             /\ SlotSizes(r)[2] = r.max_layer_size
<1>1. r.max_layer_size \in Nat
  OBVIOUS
<1>2. Max({r.max_layer_size, MediumSlot}) \in Nat
      /\ Max({r.max_layer_size, MediumSlot}) >= r.max_layer_size
  BY <1>1, LargerOfTwo DEF MediumSlot
<1>. QED
  BY <1>1, <1>2 DEF SlotSizes, SmallSlot, MediumSlot

LEMMA SlotsStart == SlotsInit => SlotsInv
<1>. SUFFICES ASSUME SlotsInit
              PROVE  SlotsInv
  OBVIOUS
<1>1. SlotsTypeOK
  <2>1. failed \in BOOLEAN /\ (g_pool_initialized => Quiet)
    BY Zenon DEF SlotsInit
  <2>. QED
    BY <2>1 DEF SlotsInit, SlotsTypeOK
<1>2. SlotInCreation /\ ObjectsAreAccounted
  BY DEF SlotsInit, SlotInCreation, ObjectsAreAccounted, NoSlot
<1>3. PoolIsAsRequested
  BY DEF SlotsInit, PoolIsAsRequested
<1>4. ViewsFail
  BY DEF SlotsInit, ViewsFail, NoSlot
<1>5. PoolIsPartOfTheRequest
  BY DEF SlotsInit, PoolIsPartOfTheRequest
<1>. QED
  BY <1>1, <1>2, <1>3, <1>4, <1>5 DEF SlotsInv

LEMMA ConfigureKeeps ==
  ASSUME SlotsInv, NEW r \in Requests, Configure(r)
  PROVE  SlotsInv'
<1>1. /\ slot = NoSlot /\ slot' = NoSlot /\ g_pool' = <<>> /\ request' = r
      /\ g_pool_initialized' = FALSE /\ system' = system
      /\ objects' = objects - Len(g_pool) /\ views' = views - 2 * Len(g_pool)
      /\ to_create' = <<>> \/ to_create' = SlotSizes(r)
      /\ failed' = FALSE
  BY DEF Configure, Quiet
<1>2. to_create' \in Seq(Nat) /\ Len(to_create') <= 7
  <2>1. SlotSizes(r) \in Seq(Nat) /\ Len(SlotSizes(r)) <= 7
    BY SlotSizesFacts
  <2>2. <<>> \in Seq(Nat) /\ Len(<<>>) <= 7
    OBVIOUS
  <2>. QED
    BY <1>1, <2>1, <2>2
<1>3. objects' = 0 /\ views' = 0
  BY <1>1 DEF SlotsInv, ObjectsAreAccounted, SlotsTypeOK, NoSlot
<1>4. SlotsTypeOK'
  <2>1. configures' \in 0..MaxConfigures
    BY DEF Configure, SlotsInv, SlotsTypeOK
  <2>2. failed' \in BOOLEAN /\ (g_pool_initialized' => Quiet')
    BY <1>1, Zenon
  <2>3. Len(<<>>) = 0
    OBVIOUS
  <2>. QED
    BY <1>1, <1>2, <1>3, <2>1, <2>2, <2>3 DEF SlotsInv, SlotsTypeOK
<1>5. SlotInCreation' /\ ObjectsAreAccounted'
  BY <1>1, <1>2, <1>3 DEF SlotInCreation, ObjectsAreAccounted, NoSlot
<1>6. PoolIsAsRequested'
  BY <1>1, SlotSizesFacts DEF PoolIsAsRequested
<1>7. ViewsFail'
  BY <1>1 DEF ViewsFail, NoSlot
<1>8. PoolIsPartOfTheRequest'
  <2>1. CASE to_create' = <<>>
    BY <1>1, <2>1 DEF PoolIsPartOfTheRequest
  <2>2. CASE to_create' # <<>>
    <3>1. PICK sizes : sizes = SlotSizes(r)
      OBVIOUS
    <3>2. UsePool(r) /\ to_create' = sizes /\ sizes \in Seq(Nat)
      BY <2>2, <3>1, SlotSizesFacts DEF Configure
    <3>3. Len(sizes) - Len(to_create') = 0 /\ SubSeq(sizes, 1, 0) = <<>>
      BY <3>2
    <3>4. \A i \in 1..Len(to_create') : to_create'[i] = sizes[0 + i]
      BY <3>2
    <3>5. Total(g_pool') = 0 /\ Total(SubSeq(sizes, 1, 0)) = 0
      BY <1>1, <3>3, TotalOfNone
    <3>6. Total(g_pool') <= Total(SubSeq(sizes, 1, 0))
      BY <3>5
    <3>. QED
      BY <1>1, <3>1, <3>2, <3>3, <3>4, <3>6 DEF PoolIsPartOfTheRequest
  <2>. QED
    BY <2>1, <2>2
<1>. QED
  BY <1>4, <1>5, <1>6, <1>7, <1>8 DEF SlotsInv

\* The next size is taken from the list.
LEMMA NextSlotFacts ==
  ASSUME SlotsInv, to_create # <<>>, NextSlot
  PROVE  /\ to_create' \in Seq(Nat) /\ Len(to_create') = Len(to_create) - 1
         /\ \A i \in 1..Len(to_create') : to_create'[i] = to_create[i + 1]
         /\ Head(to_create) = to_create[1] /\ Head(to_create) \in Nat /\ Len(to_create) >= 1
         /\ g_pool_initialized' => to_create' = <<>>
<1>1. to_create \in Seq(Nat) /\ to_create' = Tail(to_create)
  BY DEF NextSlot, SlotsInv, SlotInCreation
<1>2. /\ to_create' \in Seq(Nat) /\ Len(to_create') = Len(to_create) - 1
      /\ \A i \in 1..Len(to_create') : to_create'[i] = to_create[i + 1]
      /\ Head(to_create) = to_create[1] /\ Head(to_create) \in Nat /\ Len(to_create) >= 1
  BY <1>1
<1>3. ASSUME Len(to_create) = 1
      PROVE  to_create' = <<>>
  BY <1>2, <1>3, EmptySeq
<1>. QED
  BY <1>2, <1>3 DEF NextSlot

\* The first size that is left has been tried, and the pool has grown by it or
\* has not grown.
LEMMA NextSlotKeepsThePart ==
  ASSUME SlotsInv, to_create # <<>>, NextSlot, request' = request,
         g_pool' = g_pool \/ g_pool' = Append(g_pool, Head(to_create))
  PROVE  PoolIsPartOfTheRequest'
<1>1. PICK sizes, n, left :
        sizes = SlotSizes(request) /\ n = Len(to_create) /\ left = Len(to_create')
  OBVIOUS
<1>2. /\ request \in Requests /\ UsePool(request)
      /\ Len(sizes) - n \in Nat
      /\ \A i \in 1..n : to_create[i] = sizes[(Len(sizes) - n) + i]
      /\ Total(g_pool) <= Total(SubSeq(sizes, 1, Len(sizes) - n))
  BY <1>1, Zenon DEF SlotsInv, PoolIsPartOfTheRequest
<1>3. /\ sizes \in Seq(Nat) /\ sizes \in Seq(Int) /\ Len(sizes) \in Nat
      /\ g_pool \in Seq(Int)
  <2>1. sizes \in Seq(Nat)
    BY <1>1, <1>2, SlotSizesFacts
  <2>2. g_pool \in Seq(Nat)
    BY DEF SlotsInv, SlotsTypeOK
  <2>. QED
    BY <2>1, <2>2
<1>4. /\ n >= 1 /\ n \in Nat /\ left = n - 1
      /\ \A i \in 1..left : to_create'[i] = to_create[i + 1]
      /\ Head(to_create) = to_create[1] /\ Head(to_create) \in Nat
  BY <1>1, NextSlotFacts DEF SlotsInv, SlotInCreation
<1>5. PICK k : k = Len(sizes) - left
  OBVIOUS
<1>6. k \in 1..Len(sizes) /\ k - 1 = Len(sizes) - n
  BY <1>2, <1>3, <1>4, <1>5
<1>7. to_create[1] = sizes[k]
  <2>1. 1 \in 1..n /\ (Len(sizes) - n) + 1 = k
    BY <1>3, <1>4, <1>6
  <2>. QED
    BY <1>2, <2>1
<1>8. \A i \in 1..left : to_create'[i] = sizes[k + i]
  <2>1. ASSUME NEW i \in 1..left
        PROVE  i + 1 \in 1..n /\ (Len(sizes) - n) + (i + 1) = k + i
    <3>1. PICK m \in Nat : m = Len(sizes)
      BY <1>3
    <3>. QED
      BY <1>4, <1>5, <3>1
  <2>. QED
    BY <1>2, <1>4, <2>1
<1>9. Total(g_pool') <= Total(SubSeq(sizes, 1, k))
  <2>0. /\ Total(SubSeq(sizes, 1, k - 1)) \in Int
        /\ Total(SubSeq(sizes, 1, k)) = Total(SubSeq(sizes, 1, k - 1)) + sizes[k]
    BY <1>3, <1>6, TotalOfPrefix
  <2>1. PICK before, after, now :
          /\ before = Total(SubSeq(sizes, 1, k - 1)) /\ after = Total(SubSeq(sizes, 1, k))
          /\ now = Total(g_pool)
    OBVIOUS
  <2>2. before \in Int /\ after = before + sizes[k] /\ sizes[k] \in Nat
    <3>1. sizes[k] \in Nat
      BY <1>4, <1>7
    <3>2. before \in Int
      BY <2>0, <2>1, Zenon
    <3>3. after = before + sizes[k]
      BY <2>0, <2>1, Zenon
    <3>. QED
      BY <3>1, <3>2, <3>3
  <2>3. now \in Int /\ Total(Append(g_pool, sizes[k])) = now + sizes[k]
    <3>1. sizes[k] \in Int
      BY <2>2
    <3>2. Total(g_pool) \in Int /\ Total(Append(g_pool, sizes[k])) = Total(g_pool) + sizes[k]
      BY <1>3, <3>1, TotalOfAppend
    <3>. QED
      BY <2>1, <3>2, Zenon
  <2>4. now <= before
    BY <1>2, <1>6, <2>1
  <2>5. Total(g_pool') = now \/ Total(g_pool') = now + sizes[k]
    BY <1>4, <1>7, <2>1, <2>3
  <2>. QED
    BY <2>1, <2>2, <2>3, <2>4, <2>5
<1>. QED
  BY <1>1, <1>2, <1>3, <1>5, <1>6, <1>8, <1>9 DEF PoolIsPartOfTheRequest

LEMMA GivesUpKeeps ==
  ASSUME SlotsInv, to_create # <<>>, slot = NoSlot, GivesUp
  PROVE  SlotsInv'
<1>1. /\ failed' = TRUE
      /\ UNCHANGED <<system, request, g_pool, slot, objects, views, configures>>
  BY DEF GivesUp
<1>2. SlotsTypeOK'
  BY <1>1, NextSlotFacts DEF GivesUp, SlotsInv, SlotsTypeOK, Quiet
<1>3. SlotInCreation' /\ ObjectsAreAccounted' /\ PoolIsAsRequested'
  BY <1>1, NextSlotFacts DEF GivesUp, SlotsInv, SlotInCreation, ObjectsAreAccounted,
     PoolIsAsRequested
<1>4. ViewsFail'
  BY <1>1 DEF ViewsFail, NoSlot
<1>5. PoolIsPartOfTheRequest'
  BY <1>1, NextSlotKeepsThePart DEF GivesUp
<1>. QED
  BY <1>2, <1>3, <1>4, <1>5 DEF SlotsInv

LEMMA CreatesKeeps ==
  ASSUME SlotsInv, to_create # <<>>, slot = NoSlot, Creates
  PROVE  SlotsInv'
<1>1. Head(to_create) \in Nat
  BY DEF SlotsInv, SlotInCreation
<1>2. SlotsTypeOK'
  <2>1. ~g_pool_initialized
    BY DEF SlotsInv, SlotsTypeOK, Quiet
  <2>. QED
    BY <2>1 DEF Creates, SlotsInv, SlotsTypeOK, Quiet
<1>3. SlotInCreation' /\ ObjectsAreAccounted'
  BY <1>1 DEF Creates, SlotsInv, SlotsTypeOK, SlotInCreation, ObjectsAreAccounted, NoSlot
<1>4. PoolIsAsRequested'
  BY DEF Creates, SlotsInv, PoolIsAsRequested
<1>5. ViewsFail'
  BY DEF Creates, ViewsFail
<1>6. PoolIsPartOfTheRequest'
  BY DEF Creates, SlotsInv, PoolIsPartOfTheRequest
<1>. QED
  BY <1>2, <1>3, <1>4, <1>5, <1>6 DEF SlotsInv

LEMMA MapViewsKeeps ==
  ASSUME SlotsInv, MapViews
  PROVE  SlotsInv'
<1>1. PICK w, r \in BOOLEAN :
        /\ slot' = [slot EXCEPT !.stage = "views", !.write = w, !.read = r]
        /\ views' = views + (IF w THEN 1 ELSE 0) + (IF r THEN 1 ELSE 0)
        /\ failed' = (failed \/ ~w \/ ~r)
  BY DEF MapViews
<1>2. /\ slot.stage = "object" /\ ~slot.write /\ ~slot.read /\ slot # NoSlot
      /\ slot'.size = slot.size /\ slot'.stage = "views"
      /\ slot'.write = w /\ slot'.read = r
      /\ UNCHANGED <<system, request, g_pool, to_create, g_pool_initialized, objects, configures>>
  <2>1. slot.stage = "object" /\ ~slot.write /\ ~slot.read
    BY DEF MapViews, SlotsInv, SlotInCreation
  <2>2. slot # NoSlot
    BY <2>1 DEF NoSlot
  <2>3. UNCHANGED <<system, request, g_pool, to_create, g_pool_initialized, objects, configures>>
    BY DEF MapViews
  <2>4. /\ slot'.size = slot.size /\ slot'.stage = "views"
        /\ slot'.write = w /\ slot'.read = r
    BY <1>1, SMT DEF SlotsInv, SlotInCreation
  <2>. QED
    BY <2>1, <2>2, <2>3, <2>4
<1>5. SlotsTypeOK'
  <2>1. failed' \in BOOLEAN
    BY <1>1, Zenon
  <2>2. ~g_pool_initialized'
    BY <1>2 DEF SlotsInv, SlotsTypeOK, Quiet
  <2>3. views' \in Nat
    BY <1>1 DEF SlotsInv, SlotsTypeOK
  <2>. QED
    BY <1>2, <2>1, <2>2, <2>3 DEF SlotsInv, SlotsTypeOK
<1>6. SlotInCreation' /\ ObjectsAreAccounted'
  <2>1. slot' \in [size : Nat, stage : {"none", "object", "views"}, write : BOOLEAN, read : BOOLEAN]
    BY <1>1 DEF SlotsInv, SlotInCreation
  <2>2. SlotInCreation'
    BY <1>2, <2>1 DEF SlotsInv, SlotInCreation
  <2>3. ObjectsAreAccounted'
    BY <1>1, <1>2 DEF SlotsInv, SlotsTypeOK, ObjectsAreAccounted
  <2>. QED
    BY <2>2, <2>3
<1>7. PoolIsAsRequested'
  BY <1>1, <1>2 DEF SlotsInv, PoolIsAsRequested, SlotsTypeOK
<1>8. ViewsFail'
  BY <1>1, <1>2 DEF ViewsFail
<1>9. PoolIsPartOfTheRequest'
  BY <1>2 DEF SlotsInv, PoolIsPartOfTheRequest
<1>. QED
  BY <1>5, <1>6, <1>7, <1>8, <1>9 DEF SlotsInv

LEMMA KeepSlotKeeps ==
  ASSUME SlotsInv, KeepSlot
  PROVE  SlotsInv'
<1>1. /\ slot.write /\ slot.read /\ slot.stage = "views" /\ slot # NoSlot
      /\ to_create # <<>> /\ slot.size = Head(to_create)
      /\ g_pool' = Append(g_pool, slot.size) /\ slot' = NoSlot /\ NextSlot
      /\ UNCHANGED <<system, request, objects, views, failed, configures>>
  BY DEF KeepSlot, SlotsInv, SlotsTypeOK, NoSlot
<1>2. /\ g_pool' \in Seq(Nat) /\ Len(g_pool') = Len(g_pool) + 1
      /\ \A i \in 1..Len(g_pool) : g_pool'[i] = g_pool[i]
      /\ g_pool'[Len(g_pool) + 1] = to_create[1]
  BY <1>1, NextSlotFacts DEF SlotsInv, SlotsTypeOK
<1>3. SlotsTypeOK'
  BY <1>1, <1>2, NextSlotFacts DEF SlotsInv, SlotsTypeOK, Quiet
<1>4. SlotInCreation' /\ ObjectsAreAccounted'
  BY <1>1, <1>2, NextSlotFacts DEF SlotsInv, SlotsTypeOK, SlotInCreation, ObjectsAreAccounted,
     NoSlot
<1>5. PoolIsAsRequested'
  <2>. SUFFICES ASSUME ~failed
                PROVE  /\ request \in Requests
                       /\ Len(g_pool') + Len(to_create') = Len(SlotSizes(request))
                       /\ \A i \in 1..Len(g_pool') : g_pool'[i] = SlotSizes(request)[i]
                       /\ \A i \in 1..Len(to_create') :
                            to_create'[i] = SlotSizes(request)[Len(g_pool') + i]
    BY <1>1 DEF PoolIsAsRequested, SlotSizes
  <2>1. /\ request \in Requests
        /\ Len(g_pool) + Len(to_create) = Len(SlotSizes(request))
        /\ \A i \in 1..Len(g_pool) : g_pool[i] = SlotSizes(request)[i]
        /\ \A i \in 1..Len(to_create) : to_create[i] = SlotSizes(request)[Len(g_pool) + i]
    BY <1>1, Zenon DEF SlotsInv, PoolIsAsRequested
  <2>2. Len(g_pool) \in Nat /\ Len(to_create) \in Nat
    BY DEF SlotsInv, SlotsTypeOK, SlotInCreation
  <2>3. Len(g_pool') + Len(to_create') = Len(SlotSizes(request))
    <3>1. Len(to_create') = Len(to_create) - 1
      BY <1>1, NextSlotFacts
    <3>2. Len(g_pool') = Len(g_pool) + 1
      BY <1>2
    <3>3. Len(g_pool) + Len(to_create) = Len(SlotSizes(request))
      BY <2>1
    <3>. QED
      BY <2>2, <3>1, <3>2, <3>3
  <2>4. ASSUME NEW i \in 1..Len(g_pool')
        PROVE  g_pool'[i] = SlotSizes(request)[i]
    BY <1>1, <1>2, <2>1, <2>2, NextSlotFacts
  <2>5. ASSUME NEW i \in 1..Len(to_create')
        PROVE  to_create'[i] = SlotSizes(request)[Len(g_pool') + i]
    <3>1. /\ i + 1 \in 1..Len(to_create) /\ to_create'[i] = to_create[i + 1]
          /\ Len(g_pool) + (i + 1) = Len(g_pool') + i
      BY <1>1, <1>2, <2>2, NextSlotFacts
    <3>. QED
      BY <2>1, <3>1
  <2>. QED
    BY <2>1, <2>3, <2>4, <2>5
<1>6. ViewsFail'
  BY <1>1 DEF ViewsFail, NoSlot
<1>7. PoolIsPartOfTheRequest'
  BY <1>1, NextSlotKeepsThePart
<1>. QED
  BY <1>3, <1>4, <1>5, <1>6, <1>7 DEF SlotsInv

LEMMA DiscardSlotKeeps ==
  ASSUME SlotsInv, DiscardSlot
  PROVE  SlotsInv'
<1>1. /\ slot.stage = "views" /\ ~(slot.write /\ slot.read)
      /\ objects' = objects - 1
      /\ views' = views - (IF slot.write \/ slot.read THEN 1 ELSE 0)
      /\ slot' = NoSlot /\ NextSlot
      /\ UNCHANGED <<system, request, g_pool, failed, configures>>
  BY DEF DiscardSlot
<1>2. to_create # <<>>
  BY <1>1 DEF SlotsInv, SlotsTypeOK, NoSlot
<1>3. /\ objects' = Len(g_pool) /\ views' = 2 * Len(g_pool)
      /\ Len(g_pool) \in Nat
  BY <1>1 DEF SlotsInv, SlotsTypeOK, SlotInCreation, ObjectsAreAccounted
<1>4. SlotsTypeOK'
  BY <1>1, <1>2, <1>3, NextSlotFacts DEF SlotsInv, SlotsTypeOK, SlotInCreation, Quiet
<1>5. SlotInCreation' /\ ObjectsAreAccounted'
  BY <1>1, <1>2, <1>3, NextSlotFacts DEF SlotInCreation, ObjectsAreAccounted, NoSlot
<1>6. failed
  BY <1>1 DEF SlotsInv, ViewsFail
<1>7. PoolIsAsRequested'
  BY <1>1, <1>6 DEF PoolIsAsRequested
<1>8. ViewsFail'
  BY <1>1 DEF ViewsFail, NoSlot
<1>9. PoolIsPartOfTheRequest'
  BY <1>1, <1>2, NextSlotKeepsThePart
<1>. QED
  BY <1>4, <1>5, <1>7, <1>8, <1>9 DEF SlotsInv

LEMMA SlotsStep ==
  ASSUME SlotsInv, SlotsNext
  PROVE  SlotsInv'
<1>1. ASSUME NEW r \in Requests, Configure(r)
      PROVE  SlotsInv'
  BY <1>1, ConfigureKeeps
<1>2. CASE CreateSlotLinux \/ CreateSlotMacos \/ CreateSlotWindows
  BY <1>2, GivesUpKeeps, CreatesKeeps, DiscardSlotKeeps
  DEF CreateSlotLinux, CreateSlotMacos, CreateSlotWindows, CreateObjectLinux, CreateObjectMacos,
      CreateObjectWindows, DiscardSlotLinux, DiscardSlotMacos, DiscardSlotWindows
<1>3. CASE MapViews \/ KeepSlot
  BY <1>3, MapViewsKeeps, KeepSlotKeeps
<1>. QED
  BY <1>1, <1>2, <1>3 DEF SlotsNext

\* All that the request asks for: what pool_cost counts, and what it does not.
LEMMA TotalOfTheRequest ==
  ASSUME NEW r \in Requests, NEW k \in 0..Len(SlotSizes(r))
  PROVE  /\ Total(SubSeq(SlotSizes(r), 1, k)) \in Int
         /\ Total(SubSeq(SlotSizes(r), 1, k)) <=
              PoolCost(r) + (IF r.use_tiered THEN 2 * Max({0, MediumSlot - r.max_layer_size})
                             ELSE 0)
<1>. DEFINE sizes == SlotSizes(r)
            P == [j \in 0..Len(sizes) |-> Total(SubSeq(sizes, 1, j))]
<1>1. sizes \in Seq(Nat) /\ sizes \in Seq(Int) /\ Len(sizes) \in Nat /\ r.max_layer_size \in Nat
  <2>1. sizes \in Seq(Nat) /\ r.max_layer_size \in Nat
    BY SlotSizesFacts
  <2>. HIDE DEF sizes
  <2>. QED
    BY <2>1
<1>2. P[0] = 0 /\ \A j \in 1..Len(sizes) : P[j] = P[j - 1] + sizes[j]
  <2>. HIDE DEF sizes
  <2>1. SubSeq(sizes, 1, 0) = <<>>
    BY <1>1
  <2>2. P[0] = 0
    <3>1. Total(SubSeq(sizes, 1, 0)) = 0
      BY <2>1, TotalOfNone
    <3>2. 0 \in 0..Len(sizes)
      BY <1>1
    <3>. QED
      BY <3>1, <3>2
  <2>3. ASSUME NEW j \in 1..Len(sizes)
        PROVE  P[j] = P[j - 1] + sizes[j]
    BY <1>1, TotalOfPrefix
  <2>. HIDE DEF P
  <2>. QED
    BY <2>2, <2>3
<1>3. P[k] = Total(SubSeq(sizes, 1, k))
  OBVIOUS
<1>. HIDE DEF P
<1>4. PICK large, more :
        /\ large = Max({r.max_layer_size, MediumSlot})
        /\ more = Max({0, MediumSlot - r.max_layer_size})
  OBVIOUS
<1>5. large \in Nat /\ more \in Nat /\ large = r.max_layer_size + more
  <2>1. PICK l \in Nat : l = r.max_layer_size
    BY <1>1
  <2>2. l \in Int /\ 32 \in Int /\ 0 \in Int /\ 32 - l \in Int /\ MediumSlot = 32
    BY DEF MediumSlot
  <2>3. large \in {l, 32} /\ large >= l /\ large >= 32
    BY <1>4, <2>1, <2>2, LargerOfTwo
  <2>4. more \in {0, 32 - l} /\ more >= 0 /\ more >= 32 - l
    BY <1>4, <2>1, <2>2, LargerOfTwo
  <2>. QED
    BY <2>1, <2>3, <2>4
<1>6. CASE r.use_tiered
  <2>1. sizes = <<4, 4, 4, 32, 32, large, large>>
    BY <1>4, <1>6 DEF SlotSizes, SmallSlot, MediumSlot
  <2>. HIDE DEF sizes
  <2>2. Len(sizes) = 7 /\ sizes[1] = 4 /\ sizes[2] = 4 /\ sizes[3] = 4 /\ sizes[4] = 32
        /\ sizes[5] = 32 /\ sizes[6] = large /\ sizes[7] = large
    BY <2>1
  <2>3. /\ P[0] = 0 /\ P[1] = 4 /\ P[2] = 8 /\ P[3] = 12 /\ P[4] = 44 /\ P[5] = 76
        /\ P[6] = 76 + large /\ P[7] = 76 + 2 * large
    <3>1. /\ P[1] = P[0] + 4 /\ P[2] = P[1] + 4 /\ P[3] = P[2] + 4 /\ P[4] = P[3] + 32
          /\ P[5] = P[4] + 32 /\ P[6] = P[5] + large /\ P[7] = P[6] + large
      BY <1>2, <2>2
    <3>. QED
      BY <1>2, <1>5, <3>1
  <2>4. k \in 0..7
    BY <2>2 DEF sizes
  <2>5. P[k] \in Int /\ P[k] <= 76 + 2 * large
    <3>1. k \in {0, 1, 2, 3, 4, 5, 6, 7}
      BY <2>4
    <3>2. \A q \in {0, 4, 8, 12, 44, 76, 76 + large, 76 + 2 * large} :
            q \in Int /\ q <= 76 + 2 * large
      BY <1>5
    <3>3. P[k] \in {0, 4, 8, 12, 44, 76, 76 + large, 76 + 2 * large}
      BY <2>3, <3>1, Zenon
    <3>. QED
      BY <3>2, <3>3, Zenon
  <2>6. PoolCost(r) = 76 + 2 * r.max_layer_size
    BY <1>1, <1>6 DEF PoolCost, SmallSlot, MediumSlot
  <2>. QED
    BY <1>1, <1>3, <1>4, <1>5, <1>6, <2>5, <2>6 DEF sizes
<1>7. CASE ~r.use_tiered
  <2>1. sizes = [i \in 1..4 |-> r.max_layer_size]
    BY <1>7 DEF SlotSizes
  <2>2. Len(sizes) = 4 /\ \A i \in 1..4 : sizes[i] = r.max_layer_size
    BY <1>7, SlotSizesFacts, <2>1
  <2>. HIDE DEF sizes
  <2>3. PICK l \in Nat : l = r.max_layer_size
    BY <1>1
  <2>4. P[0] = 0 /\ P[1] = l /\ P[2] = 2 * l /\ P[3] = 3 * l /\ P[4] = 4 * l
    BY <1>2, <2>2, <2>3
  <2>5. k \in 0..4
    BY <2>2 DEF sizes
  <2>6. P[k] \in Int /\ P[k] <= 4 * l
    BY <2>3, <2>4, <2>5
  <2>7. PoolCost(r) = 4 * l
    BY <1>7, <2>3 DEF PoolCost
  <2>. QED
    BY <1>3, <1>7, <2>3, <2>6, <2>7 DEF sizes
<1>. QED
  BY <1>6, <1>7

LEMMA BudgetIsKept ==
  ASSUME SlotsInv, LargeLayers
  PROVE  PoolStaysWithinItsBudget
<1>. DEFINE uncounted == IF request.use_tiered
                         THEN 2 * Max({0, MediumSlot - request.max_layer_size}) ELSE 0
<1>. SUFFICES ASSUME g_pool # <<>>, request.use_hybrid
              PROVE  5 * Total(g_pool) <= request.avail_ram
  BY DEF PoolStaysWithinItsBudget
<1>1. PICK sizes, tried : sizes = SlotSizes(request) /\ tried = Len(sizes) - Len(to_create)
  OBVIOUS
<1>2. /\ request \in Requests /\ UsePool(request) /\ tried \in Nat
      /\ Total(g_pool) <= Total(SubSeq(sizes, 1, tried))
  BY <1>1, Zenon DEF SlotsInv, PoolIsPartOfTheRequest
<1>3. request.avail_ram \in Nat /\ request.max_layer_size \in Nat /\ request.use_tiered \in BOOLEAN
  BY <1>2
<1>4. 5 * PoolCost(request) <= request.avail_ram /\ PoolCost(request) \in Int
  BY <1>2, <1>3 DEF UsePool, PoolCost, SmallSlot, MediumSlot
<1>5. tried \in 0..Len(sizes)
  <2>1. Len(sizes) \in Nat /\ Len(to_create) \in Nat
    BY <1>1, <1>2, SlotSizesFacts DEF SlotsInv, SlotInCreation
  <2>. QED
    BY <1>1, <1>2, <2>1
<1>6. PICK all, more, now, cost :
        /\ all = Total(SubSeq(sizes, 1, tried)) /\ more = uncounted
        /\ now = Total(g_pool) /\ cost = PoolCost(request)
  OBVIOUS
<1>7. all \in Int /\ all <= cost + more
  BY <1>1, <1>2, <1>5, <1>6, TotalOfTheRequest
<1>8. now \in Int
  <2>1. g_pool \in Seq(Int)
    BY DEF SlotsInv, SlotsTypeOK
  <2>. QED
    BY <1>6, <2>1, TotalOfAppend
<1>9. more = 0
  <2>1. CASE request.use_tiered
    <3>1. PICK less \in Int : less = MediumSlot - request.max_layer_size
      BY <1>3 DEF MediumSlot
    <3>2. less <= 0
      BY <1>2, <1>3, <2>1, <3>1 DEF LargeLayers, MediumSlot
    <3>3. Max({0, less}) \in {0, less} /\ Max({0, less}) >= 0
      <4>1. 0 \in Int /\ less \in Int
        BY <3>1
      <4>. QED
        BY <4>1, LargerOfTwo, Zenon
    <3>4. Max({0, less}) = 0
      BY <3>2, <3>3
    <3>. QED
      BY <1>6, <2>1, <3>1, <3>4
  <2>2. CASE ~request.use_tiered
    BY <1>6, <2>2
  <2>. QED
    BY <2>1, <2>2
<1>10. now <= all /\ 5 * cost <= request.avail_ram /\ cost \in Int
  BY <1>2, <1>4, <1>6
<1>11. 5 * now <= request.avail_ram
  BY <1>3, <1>7, <1>8, <1>9, <1>10
<1>. HIDE DEF uncounted
<1>. QED
  BY <1>6, <1>11

\* Between two calls there is no slot in creation.
LEMMA QuietPoolLeaksNothing ==
  ASSUME SlotsInv, EngineInv
  PROVE  NothingLeaks
<1>1. Quiet => objects = Len(g_pool) /\ views = 2 * Len(g_pool)
  BY DEF SlotsInv, SlotsTypeOK, ObjectsAreAccounted, Quiet, NoSlot
<1>2. step = "idle" => held = {}
  BY DEF EngineInv, Acquired
<1>. QED
  BY <1>1, <1>2 DEF NothingLeaks

LEMMA TwoLargeSlots ==
  ASSUME SlotsInv
  PROVE  PoolHoldsTheLargestLayerTwice
<1>. SUFFICES ASSUME g_pool_initialized, ~failed
              PROVE  Cardinality({i \in DOMAIN g_pool : g_pool[i] >= request.max_layer_size}) >= 2
  BY DEF PoolHoldsTheLargestLayerTwice
<1>. DEFINE large == {i \in DOMAIN g_pool : g_pool[i] >= request.max_layer_size}
<1>1. /\ request \in Requests /\ to_create = <<>> /\ g_pool \in Seq(Nat)
      /\ Len(g_pool) = Len(SlotSizes(request))
      /\ \A i \in 1..Len(g_pool) : g_pool[i] = SlotSizes(request)[i]
  BY DEF SlotsInv, SlotsTypeOK, PoolIsAsRequested, Quiet
<1>2. \E i, j \in DOMAIN g_pool : i # j /\ {i, j} \subseteq large
  <2>1. CASE request.use_tiered
    <3>0. Len(g_pool) = 7
      BY <1>1, <2>1, SlotSizesFacts
    <3>1. {6, 7} \subseteq DOMAIN g_pool /\ {6, 7} \subseteq 1..Len(g_pool)
      BY <1>1, <3>0
    <3>2. g_pool[6] >= request.max_layer_size /\ g_pool[7] >= request.max_layer_size
      BY <1>1, <2>1, <3>1, SlotSizesFacts
    <3>. QED
      BY <3>1, <3>2
  <2>2. CASE ~request.use_tiered
    <3>0. Len(g_pool) = 4
      BY <1>1, <2>2, SlotSizesFacts
    <3>1. {1, 2} \subseteq DOMAIN g_pool /\ {1, 2} \subseteq 1..Len(g_pool)
      BY <1>1, <3>0
    <3>2. /\ g_pool[1] = request.max_layer_size /\ g_pool[2] = request.max_layer_size
          /\ request.max_layer_size \in Nat
      BY <1>1, <2>2, <3>1, SlotSizesFacts
    <3>. QED
      BY <3>1, <3>2
  <2>. QED
    BY <2>1, <2>2
<1>3. IsFiniteSet(large)
  <2>1. IsFiniteSet(1..Len(g_pool))
    BY <1>1, FS_Interval
  <2>2. large \subseteq 1..Len(g_pool)
    BY <1>1
  <2>. QED
    BY <2>1, <2>2, FS_Subset
<1>. HIDE DEF large
<1>4. PICK i, j : i # j /\ {i, j} \subseteq large
  BY <1>2
<1>5. IsFiniteSet({i}) /\ Cardinality({i}) = 1
  BY FS_Singleton
<1>6. Cardinality({i} \cup {j}) = 2
  <2>1. j \notin {i}
    BY <1>4
  <2>. QED
    BY <1>5, <2>1, FS_AddElement
<1>7. {i} \cup {j} \in SUBSET large
  BY <1>4
<1>8. Cardinality({i} \cup {j}) <= Cardinality(large)
  BY <1>3, <1>7, FS_Subset
<1>9. Cardinality(large) \in Nat
  BY <1>3, FS_CardinalityType
<1>. QED
  BY <1>6, <1>8, <1>9 DEF large

-----------------------------------------------------------------------------
(* The key vault.                                                          *)

LEMMA XorTwice ==
  ASSUME NEW a \in Bits, NEW b \in Bits
  PROVE  Xor(a, b) \in Bits /\ Xor(b, Xor(a, b)) = a
<1>. USE DEF Xor, Bits
<1>1. CASE a = 0 /\ b = 0
  BY <1>1
<1>2. CASE a = 0 /\ b = 1
  BY <1>2
<1>3. CASE a = 1 /\ b = 0
  BY <1>3
<1>4. CASE a = 1 /\ b = 1
  BY <1>4
<1>. QED
  BY <1>1, <1>2, <1>3, <1>4

\* What a retrieve copies is a key of the length that was stored.
LEMMA UnmaskedFacts ==
  ASSUME VaultInv
  PROVE  /\ Unmasked \in Seq(Bits) /\ Len(Unmasked) = g_key_len
         /\ Unmasked = <<>> <=> g_key_len = 0
<1>1. g_key_len \in Nat /\ g_key_len <= PageSize
  BY DEF VaultInv, VaultTypeOK
<1>2. ASSUME NEW i \in 1..g_key_len
      PROVE  Unmasked[i] \in Bits
  <2>1. g_share1[i] \in Bits /\ g_share2[i] \in Bits
    BY <1>1 DEF VaultInv, VaultTypeOK, Bytes
  <2>. QED
    BY <2>1, XorTwice DEF Unmasked
<1>3. Unmasked \in Seq(Bits) /\ Len(Unmasked) = g_key_len
  BY <1>1, <1>2 DEF Unmasked
<1>. QED
  BY <1>1, <1>3, EmptySeq

\* The key of the abstract vault.
AbstractKey == IF Lost THEN <<>> ELSE Unmasked

LEMMA VaultStart == VaultInit => VaultInv /\ Abstract!Init
<1>. SUFFICES ASSUME VaultInit
              PROVE  VaultInv /\ Abstract!Init
  OBVIOUS
<1>1. VaultInv
  <2>1. vault_call.ok \in BOOLEAN
    <3>1. vault_call.ok = FALSE
      BY DEF VaultInit, Stored
    <3>. QED
      BY <3>1, Zenon
  <2>2. /\ platform \in Platforms /\ g_key_len \in 0..PageSize /\ g_key_len = 0
        /\ g_encrypted_key = "null"
        /\ g_share1 \in [Bytes -> Bits] /\ g_share2 \in [Bytes -> Bits]
    BY DEF VaultInit, Bits
  <2>. QED
    BY <2>1, <2>2, Zenon DEF VaultInv, VaultTypeOK
<1>2. Unmasked = <<>> /\ Lost = FALSE
  BY <1>1, UnmaskedFacts DEF VaultInit, Lost
<1>3. (platform # "windows") \in BOOLEAN
  BY Zenon
<1>4. vault_call = Abstract!Stored(<<>>, FALSE)
  BY DEF VaultInit, Stored, Abstract!Stored, Abstract!NoKey
<1>5. (IF Lost THEN <<>> ELSE Unmasked) = Abstract!NoKey
  BY <1>2 DEF Abstract!NoKey
<1>6. Abstract!Init
  BY <1>2, <1>3, <1>4, <1>5, Zenon DEF Abstract!Init, Abstract!NoKey
<1>. QED
  BY <1>1, <1>6

LEMMA KeyFacts ==
  ASSUME VaultInv, NEW k \in KeysOf[platform]
  PROVE  k \in Seq(Bits) /\ Len(k) \in Nat /\ k \in UNION {KeysOf[p] : p \in Platforms}
<1>1. platform \in Platforms
  BY DEF VaultInv, VaultTypeOK
<1>2. k \in Seq(Bits)
  BY <1>1
<1>. QED
  BY <1>1, <1>2

\* The bytes of the new key are what a retrieve will copy.
LEMMA KeyIsStored ==
  ASSUME VaultInv, NEW k \in Seq(Bits), platform' = platform, g_key_len' = Len(k),
         \A i \in 1..Len(k) :
           k[i] = IF platform \in {"linux", "macos", "android"}
                  THEN Xor(g_share1'[i], g_share2'[i]) ELSE g_share1'[i]
  PROVE  Unmasked' = k
<1>1. Unmasked' \in Seq(Bits) /\ Len(Unmasked') = Len(k)
      /\ \A i \in 1..Len(k) : Unmasked'[i] = k[i]
  <2>1. \A i \in 1..Len(k) : k[i] \in Bits /\ Unmasked'[i] = k[i]
    BY DEF Unmasked
  <2>2. Unmasked' \in Seq(Bits) /\ Len(Unmasked') = Len(k)
    BY <2>1 DEF Unmasked
  <2>. QED
    BY <2>1, <2>2
<1>. QED
  BY <1>1, SeqEqual

\* A store that succeeded, was refused, or lost the key is a store of the
\* abstract vault.
LEMMA StoreRefines ==
  ASSUME NEW k \in UNION {KeysOf[p] : p \in Platforms}, platform' = platform,
         \/ AbstractKey' = k /\ Lost' = FALSE /\ vault_call' = Stored(k, TRUE)
         \/ AbstractKey' = AbstractKey /\ Lost' = Lost /\ vault_call' = Stored(k, FALSE)
         \/ platform = "windows" /\ Lost' = TRUE /\ vault_call' = Stored(k, FALSE)
  PROVE  Abstract!Next
<1>1. Lost' = TRUE => AbstractKey' = <<>>
  BY DEF AbstractKey
<1>2. Abstract!Store(k)
  BY <1>1 DEF AbstractKey, Stored, Abstract!Store, Abstract!Stored, Abstract!NoKey
<1>. QED
  BY <1>2 DEF Abstract!Next

LEMMA CallOk ==
  ASSUME NEW c, \/ c.ok = TRUE \/ c.ok = FALSE
  PROVE  c.ok \in BOOLEAN
BY Zenon

LEMMA MaskStep ==
  ASSUME VaultInv, NEW k \in KeysOf[platform], platform \in {"linux", "macos", "android"},
         platform' = platform, Len(k) <= VaultSize,
         NEW share \in [DOMAIN k -> Bits], Mask(k, share)
  PROVE  VaultInv' /\ Abstract!Next
<1>1. k \in Seq(Bits) /\ Len(k) \in Nat /\ Len(k) <= PageSize /\ DOMAIN k = 1..Len(k)
  BY KeyFacts
<1>2. /\ g_key_len' = Len(k) /\ vault_call' = Stored(k, TRUE)
      /\ \A i \in Bytes : g_share1'[i] = IF i <= Len(k) THEN share[i] ELSE g_share1[i]
      /\ \A i \in Bytes : g_share2'[i] = IF i <= Len(k) THEN Xor(k[i], share[i]) ELSE g_share2[i]
  BY DEF Mask
<1>3. \A i \in 1..Len(k) : /\ i \in Bytes /\ k[i] \in Bits /\ share[i] \in Bits
                           /\ Xor(k[i], share[i]) \in Bits
                           /\ Xor(share[i], Xor(k[i], share[i])) = k[i]
  BY <1>1, XorTwice DEF Bytes
<1>4. g_share1' \in [Bytes -> Bits] /\ g_share2' \in [Bytes -> Bits]
  <2>1. \A i \in Bytes : i <= Len(k) => i \in 1..Len(k)
    BY <1>1 DEF Bytes
  <2>2. \A i \in Bytes : g_share1[i] \in Bits /\ g_share2[i] \in Bits
    BY DEF VaultInv, VaultTypeOK
  <2>. QED
    BY <1>3, <2>1, <2>2 DEF Mask
<1>5. VaultInv'
  <2>1. vault_call'.ok \in BOOLEAN
    BY <1>2, CallOk DEF Stored
  <2>2. /\ platform' \in Platforms /\ g_key_len' \in 0..PageSize /\ platform' # "windows"
        /\ g_encrypted_key' = "null"
    BY <1>1, <1>2 DEF Mask, VaultInv, VaultTypeOK
  <2>. QED
    BY <1>4, <2>1, <2>2, Zenon DEF VaultInv, VaultTypeOK
<1>6. Unmasked' = k
  <2>1. \A i \in 1..Len(k) : k[i] = Xor(g_share1'[i], g_share2'[i])
    BY <1>1, <1>2, <1>3
  <2>. QED
    BY <1>1, <1>2, <2>1, KeyIsStored
<1>7. Lost' = FALSE /\ AbstractKey' = k
  BY <1>6 DEF Mask, Lost, AbstractKey, VaultInv
<1>. QED
  BY <1>2, <1>5, <1>7, StoreRefines, KeyFacts

\* The key is stored as it is.
LEMMA ClearStep ==
  ASSUME VaultInv, NEW k \in KeysOf[platform], platform' = platform,
         platform \in {"embedded", "windows"}, Len(k) <= PageSize,
         g_key_len' = Len(k), g_share2' = g_share2,
         \/ g_share1' = [i \in Bytes |-> IF i <= Len(k) THEN k[i] ELSE g_share1[i]]
         \/ g_share1' = [i \in Bytes |-> IF i <= Len(k) THEN k[i] ELSE 0]
  PROVE  /\ g_share1' \in [Bytes -> Bits] /\ g_share2' \in [Bytes -> Bits]
         /\ g_key_len' \in 0..PageSize
         /\ Unmasked' = k
<1>1. k \in Seq(Bits) /\ Len(k) \in Nat
  BY KeyFacts
<1>2. \A i \in 1..Len(k) : i \in Bytes /\ k[i] \in Bits
  BY <1>1 DEF Bytes
<1>3. g_share1' \in [Bytes -> Bits]
  <2>1. \A i \in Bytes : i <= Len(k) => i \in 1..Len(k)
    BY <1>1 DEF Bytes
  <2>2. \A i \in Bytes : g_share1[i] \in Bits
    BY DEF VaultInv, VaultTypeOK
  <2>. QED
    BY <1>2, <2>1, <2>2 DEF Bits
<1>4. Unmasked' = k
  <2>1. \A i \in 1..Len(k) : k[i] = g_share1'[i]
    BY <1>1, <1>2
  <2>. QED
    BY <1>1, <2>1, KeyIsStored
<1>. QED
  BY <1>1, <1>3, <1>4 DEF VaultInv, VaultTypeOK

LEMMA EmbeddedStep ==
  ASSUME VaultInv, NEW k \in KeysOf[platform], platform' = platform, StoreEmbedded(k)
  PROVE  VaultInv' /\ Abstract!Next
<1>1. /\ platform = "embedded" /\ g_key_len' = Len(k) /\ vault_call' = Stored(k, TRUE)
      /\ UNCHANGED <<g_share2, g_encrypted_key>>
      /\ g_share1' = [i \in Bytes |-> IF i <= Len(k) THEN k[i] ELSE g_share1[i]]
  BY DEF StoreEmbedded
<1>2. Len(k) <= PageSize
  BY KeyFacts DEF StoreEmbedded
<1>3. /\ g_share1' \in [Bytes -> Bits] /\ g_share2' \in [Bytes -> Bits]
      /\ g_key_len' \in 0..PageSize /\ Unmasked' = k
  BY <1>1, <1>2, ClearStep
<1>4. VaultInv'
  <2>1. vault_call'.ok \in BOOLEAN
    BY <1>1, CallOk DEF Stored
  <2>2. g_encrypted_key' = "null" /\ platform' \in Platforms /\ platform' # "windows"
    BY <1>1 DEF VaultInv, VaultTypeOK
  <2>. QED
    BY <1>3, <2>1, <2>2, Zenon DEF VaultInv, VaultTypeOK
<1>5. Lost' = FALSE /\ AbstractKey' = k
  BY <1>1, <1>3 DEF Lost, AbstractKey, VaultInv
<1>. QED
  BY <1>1, <1>4, <1>5, StoreRefines, KeyFacts

\* The page cannot be allocated; or the key before it is lost, as the new one
\* is too long or cannot be encrypted; or the key is stored.
LEMMA WindowsStep ==
  ASSUME VaultInv, NEW k \in KeysOf[platform], platform' = platform, StoreWindows(k)
  PROVE  VaultInv' /\ Abstract!Next
<1>1. platform = "windows" /\ g_share2' = g_share2
  BY DEF StoreWindows
<1>2. CASE /\ g_encrypted_key = "null" /\ vault_call' = Stored(k, FALSE)
           /\ UNCHANGED <<g_share1, g_encrypted_key, g_key_len>>
  <2>1. vault_call'.ok \in BOOLEAN
    BY <1>2, CallOk DEF Stored
  <2>2. VaultInv'
    BY <1>1, <1>2, <2>1 DEF VaultInv, VaultTypeOK
  <2>3. Lost' = Lost /\ AbstractKey' = AbstractKey
    BY <1>1, <1>2 DEF Lost, AbstractKey, Unmasked
  <2>. QED
    BY <1>2, <2>2, <2>3, StoreRefines, KeyFacts
<1>3. CASE /\ Len(k) > PageSize
           /\ g_share1' = [i \in Bytes |-> 0] /\ g_encrypted_key' = "clear"
           /\ vault_call' = Stored(k, FALSE) /\ g_key_len' = g_key_len
  <2>1. vault_call'.ok \in BOOLEAN
    BY <1>3, CallOk DEF Stored
  <2>2. VaultInv'
    BY <1>1, <1>3, <2>1 DEF VaultInv, VaultTypeOK, Bits
  <2>3. Lost' = TRUE
    BY <1>3 DEF Lost
  <2>. QED
    BY <1>1, <1>3, <2>2, <2>3, StoreRefines, KeyFacts
<1>4. CASE /\ Len(k) <= PageSize
           /\ g_share1' = [i \in Bytes |-> IF i <= Len(k) THEN k[i] ELSE 0]
           /\ g_key_len' = Len(k)
           /\ \/ g_encrypted_key' = "encrypted" /\ vault_call' = Stored(k, TRUE)
              \/ g_encrypted_key' = "clear" /\ vault_call' = Stored(k, FALSE)
  <2>1. vault_call'.ok \in BOOLEAN
    BY <1>4, CallOk DEF Stored
  <2>2. /\ g_share1' \in [Bytes -> Bits] /\ g_share2' \in [Bytes -> Bits]
        /\ g_key_len' \in 0..PageSize /\ Unmasked' = k
    BY <1>1, <1>4, ClearStep
  <2>3. VaultInv'
    BY <1>1, <1>4, <2>1, <2>2 DEF VaultInv, VaultTypeOK
  <2>4. CASE g_encrypted_key' = "encrypted" /\ vault_call' = Stored(k, TRUE)
    <3>1. Lost' = FALSE /\ AbstractKey' = k
      BY <2>2, <2>4 DEF Lost, AbstractKey
    <3>. QED
      BY <2>3, <2>4, <3>1, StoreRefines, KeyFacts
  <2>5. CASE g_encrypted_key' = "clear" /\ vault_call' = Stored(k, FALSE)
    <3>1. Lost' = TRUE
      BY <2>5 DEF Lost
    <3>. QED
      BY <1>1, <2>3, <2>5, <3>1, StoreRefines, KeyFacts
  <2>. QED
    BY <1>4, <2>4, <2>5
<1>. QED
  BY <1>2, <1>3, <1>4 DEF StoreWindows

\* The call is refused: the key before stays.
LEMMA RefusedStep ==
  ASSUME VaultInv, NEW k \in KeysOf[platform], platform' = platform, StoreRefused(k)
  PROVE  VaultInv' /\ Abstract!Next
<1>1. /\ vault_call' = Stored(k, FALSE)
      /\ UNCHANGED <<platform, g_share1, g_share2, g_encrypted_key, g_key_len>>
  BY DEF StoreRefused
<1>2. VaultInv'
  <2>1. vault_call'.ok \in BOOLEAN
    BY <1>1, CallOk DEF Stored
  <2>. QED
    BY <1>1, <2>1 DEF VaultInv, VaultTypeOK
<1>3. AbstractKey' = AbstractKey /\ Lost' = Lost
  BY <1>1 DEF AbstractKey, Unmasked, Lost
<1>. QED
  BY <1>1, <1>2, <1>3, StoreRefines, KeyFacts

\* A retrieve gives the key to a buffer that can hold it; on Windows it may
\* fail, or give other bytes if the key is lost.
LEMMA RetrieveStep ==
  ASSUME VaultInv, NEW n \in BufferSizes, RetrieveMasked(n) \/ RetrieveWindows(n)
  PROVE  VaultInv' /\ Abstract!Next
<1>1. UNCHANGED <<platform, g_share1, g_share2, g_encrypted_key, g_key_len>>
  BY DEF RetrieveMasked, RetrieveWindows
<1>2. g_key_len \in Nat /\ n \in Nat
  BY DEF VaultInv, VaultTypeOK
<1>3. VaultInv'
  <2>1. vault_call'.ok \in BOOLEAN
    <3>1. CASE RetrieveMasked(n)
      BY <3>1, CallOk DEF RetrieveMasked, Retrieved
    <3>2. CASE RetrieveWindows(n)
      BY <3>2, CallOk DEF RetrieveWindows, Retrieved
    <3>. QED
      BY <3>1, <3>2
  <2>. QED
    BY <1>1, <2>1 DEF VaultInv, VaultTypeOK
<1>4. AbstractKey' = AbstractKey /\ Lost' = Lost
  BY <1>1 DEF AbstractKey, Unmasked, Lost
<1>5. ~Lost => (AbstractKey # <<>> /\ Len(AbstractKey) <= n <=> g_key_len \in 1..n)
               /\ AbstractKey = Unmasked
  BY <1>2, UnmaskedFacts DEF AbstractKey
<1>6. \/ /\ AbstractKey # <<>> /\ Len(AbstractKey) <= n
         /\ vault_call' = Retrieved(n, TRUE, AbstractKey)
      \/ /\ AbstractKey # <<>> /\ Len(AbstractKey) <= n => platform = "windows"
         /\ vault_call' = Retrieved(n, FALSE, <<>>)
      \/ Lost /\ \E m \in 1..n : \E bytes \in [1..m -> {0, 1}] :
                   vault_call' = Retrieved(n, TRUE, bytes)
  <2>1. CASE RetrieveMasked(n)
    <3>1. ~Lost /\ platform # "windows"
      BY <2>1 DEF RetrieveMasked, VaultInv, Lost
    <3>2. vault_call' = IF g_key_len = 0 \/ n < g_key_len
                        THEN Retrieved(n, FALSE, <<>>) ELSE Retrieved(n, TRUE, Unmasked)
      BY <2>1, Zenon DEF RetrieveMasked
    <3>3. CASE g_key_len \in 1..n
      <4>0. ~(g_key_len = 0 \/ n < g_key_len)
        BY <1>2, <3>3
      <4>1. vault_call' = Retrieved(n, TRUE, Unmasked)
        BY <3>2, <4>0, Zenon
      <4>. QED
        BY <1>5, <3>1, <3>3, <4>1
    <3>4. CASE g_key_len \notin 1..n
      <4>1. g_key_len = 0 \/ n < g_key_len
        BY <1>2, <3>4
      <4>2. vault_call' = Retrieved(n, FALSE, <<>>)
        BY <3>2, <4>1, Zenon
      <4>. QED
        BY <1>5, <3>1, <3>4, <4>2, Zenon
    <3>. QED
      BY <3>3, <3>4
  <2>2. CASE RetrieveWindows(n)
    <3>1. CASE vault_call' = Retrieved(n, FALSE, <<>>)
      BY <2>2, <3>1 DEF RetrieveWindows
    <3>2. CASE /\ g_key_len \in 1..n /\ g_encrypted_key = "encrypted"
               /\ vault_call' = Retrieved(n, TRUE, Unmasked)
      BY <1>5, <3>2 DEF Lost
    <3>3. CASE /\ g_key_len \in 1..n /\ g_encrypted_key = "clear"
               /\ \E bytes \in [1..g_key_len -> Bits] : vault_call' = Retrieved(n, TRUE, bytes)
      BY <3>3 DEF Lost, Bits
    <3>. QED
      BY <2>2, <3>1, <3>2, <3>3 DEF RetrieveWindows
  <2>. QED
    BY <2>1, <2>2
<1>7. Abstract!Retrieve(n)
  BY <1>1, <1>4, <1>6 DEF AbstractKey, Abstract!Retrieve, Abstract!Fits, Abstract!Retrieved,
     Abstract!NoKey, Retrieved
<1>. QED
  BY <1>3, <1>7 DEF Abstract!Next

LEMMA VaultStep ==
  ASSUME VaultInv, VaultNext
  PROVE  VaultInv' /\ Abstract!Next
<1>1. ASSUME NEW k \in KeysOf[platform], StoreKey(k)
      PROVE  VaultInv' /\ Abstract!Next
  <2>. platform' = platform
    BY <1>1 DEF StoreKey
  <2>1. CASE StoreLinux(k) \/ StoreMacos(k) \/ StoreAndroid(k)
    BY <2>1, MaskStep DEF StoreLinux, StoreMacos, StoreAndroid
  <2>2. CASE StoreEmbedded(k)
    BY <2>2, EmbeddedStep
  <2>3. CASE StoreWindows(k)
    BY <2>3, WindowsStep
  <2>4. CASE StoreRefused(k)
    BY <2>4, RefusedStep
  <2>. QED
    BY <1>1, <2>1, <2>2, <2>3, <2>4 DEF StoreKey
<1>. QED
  BY <1>1, RetrieveStep DEF VaultNext

abstractVars ==
  <<platform # "windows", IF Lost THEN <<>> ELSE Unmasked, Lost, vault_call>>

LEMMA VaultStutter ==
  ASSUME VaultInv, UNCHANGED vaultVars
  PROVE  VaultInv' /\ UNCHANGED abstractVars
BY DEF vaultVars, VaultInv, VaultTypeOK, Unmasked, Lost, abstractVars

-----------------------------------------------------------------------------
(***************************************************************************)
(* The three parts together.                                               *)
(***************************************************************************)

LEMMA SlotsStutter ==
  ASSUME SlotsInv, UNCHANGED slotVars
  PROVE  SlotsInv'
<1>1. UNCHANGED <<system, request, g_pool, g_pool_initialized, to_create, slot, objects, views,
                  failed, configures>>
  BY DEF slotVars
<1>. QED
  BY <1>1, Zenon DEF SlotsInv, SlotsTypeOK, SlotInCreation, ObjectsAreAccounted, PoolIsAsRequested, PoolIsPartOfTheRequest,
     ViewsFail, Quiet

LEMMA EngineStutter ==
  ASSUME EngineInv, UNCHANGED engineVars
  PROVE  EngineInv'
BY DEF engineVars, EngineInv, EngineTypeOK, Acquired

LEMMA PoolAndEngineStep ==
  ASSUME SlotsInv, EngineInv, [Next]_vars
  PROVE  SlotsInv' /\ EngineInv'
<1>1. CASE Vault
  BY <1>1, SlotsStutter, EngineStutter DEF Vault
<1>2. CASE Slots
  BY <1>2, SlotsStep, EngineStutter DEF Slots
<1>3. CASE Engine
  BY <1>3, SlotsStutter, EngineStep DEF Engine
<1>4. CASE UNCHANGED vars
  BY <1>4, SlotsStutter, EngineStutter DEF vars
<1>. QED
  BY <1>1, <1>2, <1>3, <1>4 DEF Next

LEMMA VaultOrStutter ==
  ASSUME VaultInv, [Next]_vars
  PROVE  VaultInv' /\ (Abstract!Next \/ UNCHANGED abstractVars)
<1>1. CASE Vault
  BY <1>1, VaultStep DEF Vault
<1>2. CASE Slots \/ Engine \/ UNCHANGED vars
  BY <1>2, VaultStutter DEF Slots, Engine, vars
<1>. QED
  BY <1>1, <1>2 DEF Next

\* The pool of slots and the cryptographic engine keep their invariants:
\* whatever call fails, every descriptor, view and handle is accounted for
\* (pal_configure_pool of pal_linux.cpp, pal_macos.cpp and pal_windows.cpp;
\* vajraa_decrypt_gcm of crypto_engine.cpp).
THEOREM NativePoolAndEngineInvariant == Spec => [](SlotsInv /\ EngineInv)
<1>1. Init => SlotsInv /\ EngineInv
  BY SlotsStart, EngineStart DEF Init
<1>2. SlotsInv /\ EngineInv /\ [Next]_vars => (SlotsInv /\ EngineInv)'
  BY PoolAndEngineStep
<1>. QED
  BY <1>1, <1>2, PTL DEF Spec

\* No failure of a call of the system or of the library leaks a descriptor,
\* a view, a handle or the engine's copy of the key.
THEOREM NativeNothingLeaks == Spec => []NothingLeaks
<1>1. SlotsInv /\ EngineInv => NothingLeaks
  BY QuietPoolLeaksNothing
<1>. QED
  BY <1>1, NativePoolAndEngineInvariant, PTL

\* A pool that was configured without a failure holds two slots of the
\* largest layer's size, in each of the sizings of pal_configure_pool.
THEOREM NativePoolHoldsTheLargestLayerTwice == Spec => []PoolHoldsTheLargestLayerTwice
<1>1. SlotsInv /\ EngineInv => PoolHoldsTheLargestLayerTwice
  BY TwoLargeSlots
<1>. QED
  BY <1>1, NativePoolAndEngineInvariant, PTL

\* If the largest layer has 32 MB at least, or the pool has no tiers, then in
\* hybrid mode it takes no more than 20% of the memory that was available,
\* whichever slots could be created.  For smaller layers it may take more.
THEOREM NativePoolStaysWithinItsBudget ==
  ASSUME LargeLayers
  PROVE  Spec => []PoolStaysWithinItsBudget
<1>1. SlotsInv /\ EngineInv => PoolStaysWithinItsBudget
  BY BudgetIsKept
<1>. QED
  BY <1>1, NativePoolAndEngineInvariant, PTL

\* The inductive invariant of the native library.
THEOREM NativeInvariant == Spec => []IInv
<1>1. Init => IInv
  BY SlotsStart, EngineStart, VaultStart DEF Init, IInv
<1>2. IInv /\ [Next]_vars => IInv'
  BY PoolAndEngineStep, VaultOrStutter DEF IInv
<1>. QED
  BY <1>1, <1>2, PTL DEF Spec

\* The state of the vault, of the pool and of the engine stays well formed.
THEOREM NativeTypeOK == Spec => []TypeOK
<1>1. IInv => TypeOK
  BY DEF IInv, VaultInv, SlotsInv, EngineInv, TypeOK
<1>. QED
  BY <1>1, NativeInvariant, PTL

\* The vault of every platform implements the key store: what the shares, or
\* the page of ciphertext, recombine to is the key stored last.  A call that
\* is refused leaves the key before it, but for Windows, where a store that
\* fails may lose it and a retrieve may fail (pal_store_key and
\* pal_retrieve_key of the five platforms).
THEOREM NativeImplementsKeyStore == Spec => ImplementsKeyStore
<1>1. Init => Abstract!Init
  BY VaultStart DEF Init
<1>2. IInv /\ [Next]_vars
        => [Abstract!Next]_<<platform # "windows", IF Lost THEN <<>> ELSE Unmasked, Lost, vault_call>>
  BY VaultOrStutter DEF IInv, abstractVars
<1>. QED
  BY <1>1, <1>2, NativeInvariant, PTL DEF Spec, ImplementsKeyStore, Abstract!Spec
==============================================================================
