----------------------- MODULE VajraaMemoryPoolProofs -----------------------
(***************************************************************************)
(* What TLAPS proves of the Python pool, for any number of clients and     *)
(* slots and every setting of the configuration.                           *)
(***************************************************************************)
EXTENDS VajraaMemoryPoolInvariant, TLAPS

USE PoolAssumption

-----------------------------------------------------------------------------
(* The pages of a slot.                                                    *)

\* Every page belongs to one slot, and the two views of a slot are among its
\* pages, distinct under double mapping.
LEMMA PageFacts ==
  /\ NoSlot \notin Slots
  /\ \A s \in Slots :
       /\ PagesOf(s) \subseteq Pages
       /\ WriteView(s) \in PagesOf(s)
       /\ ReadView(s) \in PagesOf(s)
       /\ UseDoubleMapping => WriteView(s) # ReadView(s)
       /\ ~UseDoubleMapping => WriteView(s) = ReadView(s)
       /\ WriteView(s)[1] = s
       /\ ReadView(s)[1] = s
       /\ \A p \in PagesOf(s) : p[1] = s
       /\ PagesOf(s) # {}
  /\ \A p \in Pages : p[1] \in Slots /\ p \in PagesOf(p[1])
<1>1. NoSlot \notin Slots
  BY DEF NoSlot, Slots
<1>2. \A s \in Slots :
       /\ PagesOf(s) \subseteq Pages
       /\ WriteView(s) \in PagesOf(s)
       /\ ReadView(s) \in PagesOf(s)
       /\ UseDoubleMapping => WriteView(s) # ReadView(s)
       /\ ~UseDoubleMapping => WriteView(s) = ReadView(s)
       /\ WriteView(s)[1] = s
       /\ ReadView(s)[1] = s
       /\ \A p \in PagesOf(s) : p[1] = s
  BY DEF PagesOf, Pages, WriteView, ReadView, ViewNames
<1>3. \A s \in Slots : PagesOf(s) # {}
  BY <1>2
<1>4. \A p \in Pages : p[1] \in Slots /\ p \in PagesOf(p[1])
  BY DEF PagesOf, Pages
<1>. QED
  BY <1>1, <1>2, <1>3, <1>4

\* Protect changes the pages it is given and no other.
LEMMA ProtectFacts ==
  ASSUME NEW S, NEW x
  PROVE  /\ DOMAIN Protect(S, x) = Pages
         /\ \A p \in Pages : Protect(S, x)[p] = IF p \in S THEN x ELSE prot[p]
         /\ prot \in [Pages -> {"unmapped", "noaccess", "readwrite"}]
            /\ x \in {"unmapped", "noaccess", "readwrite"}
            => Protect(S, x) \in [Pages -> {"unmapped", "noaccess", "readwrite"}]
BY DEF Protect

\* The pages of a set of slots are the pages whose slot is in the set.
LEMMA AllPagesFacts ==
  ASSUME NEW S \in SUBSET Slots
  PROVE  \A p \in Pages : p \in AllPagesOf(S) <=> p[1] \in S
BY PageFacts DEF AllPagesOf

-----------------------------------------------------------------------------
\* The pool starts in the invariant, eager or lazy: nothing is leased, and the
\* pages of the list are closed and hold nothing.
LEMMA InitIInv == Init => IInv
<1>. SUFFICES ASSUME Init PROVE IInv
  OBVIOUS
<1>1. TypeOK
  <2>1. is_initialized \in BOOLEAN /\ compaction_timer \in BOOLEAN
    BY Zenon DEF Init
  <2>2. slots \subseteq Slots /\ plain \subseteq Pages
    BY DEF Init
  <2>3. elapsed \in 0..MaxElapsed
    BY DEF Init
  <2>4. prot \in [Pages -> {"unmapped", "noaccess", "readwrite"}]
    BY DEF Init
  <2>5. pc \in [Clients -> Phases] /\ want \in [Clients -> RequestSizes]
    BY DEF Init, Phases
  <2>6. held \in [Clients -> Slots \cup {NoSlot}] /\ in_use \in [Slots -> BOOLEAN]
    BY DEF Init
  <2>. QED
    BY <2>1, <2>2, <2>3, <2>4, <2>5, <2>6 DEF TypeOK
<1>2. HoldersAreInPhase /\ ListedMeansInitialized /\ ViewsFollowPhases
      /\ WriteViewLockedInExecution
  BY DEF Init, HoldersAreInPhase, HoldingPhases, ListedMeansInitialized,
         ViewsFollowPhases, WriteViewLockedInExecution
<1>3. LeasesAreAccounted
  BY PageFacts DEF Init, LeasesAreAccounted
<1>4. PagesFollowTheList
  BY PageFacts DEF Init, PagesFollowTheList
<1>5. IdleSlotIsSealed
  BY PageFacts DEF Init, IdleSlotIsSealed
<1>6. PlaintextUnderLease
  BY DEF Init, PlaintextUnderLease
<1>. QED
  BY <1>1, <1>2, <1>3, <1>4, <1>5, <1>6 DEF IInv
-----------------------------------------------------------------------------
\* What holding a slot means: the slot is in the list and marked, and no page
\* of it is a page of another client's slot.
LEMMA HolderFacts ==
  ASSUME IInv, NEW c \in Clients, pc[c] \in HoldingPhases
  PROVE  /\ held[c] \in Slots /\ held[c] \in slots
         /\ in_use[held[c]]
         /\ WriteView(held[c]) \in Pages /\ ReadView(held[c]) \in Pages
         /\ WriteView(held[c])[1] = held[c] /\ ReadView(held[c])[1] = held[c]
         /\ \A p \in PagesOf(held[c]) : prot[p] # "unmapped"
         /\ \A d \in Clients \ {c} : pc[d] \in HoldingPhases =>
              /\ held[d] \in Slots
              /\ held[d] # held[c]
              /\ WriteView(held[d]) \notin PagesOf(held[c])
              /\ ReadView(held[d]) \notin PagesOf(held[c])
<1>1. held[c] # NoSlot /\ held[c] \in Slots /\ held[c] \in slots
  BY DEF IInv, TypeOK, HoldersAreInPhase, PagesFollowTheList
<1>2. in_use[held[c]]
  BY <1>1 DEF IInv, LeasesAreAccounted
<1>3. \A d \in Clients \ {c} : pc[d] \in HoldingPhases =>
         held[d] \in Slots /\ held[d] # held[c]
  BY <1>1 DEF IInv, TypeOK, HoldersAreInPhase, LeasesAreAccounted
<1>4. \A p \in PagesOf(held[c]) : prot[p] # "unmapped"
  BY <1>1 DEF IInv, PagesFollowTheList
<1>. QED
  BY <1>1, <1>2, <1>3, <1>4, PageFacts

\* When no slot of the list is in use, no client is between lease and
\* release, and no page holds a plaintext.
LEMMA NobodyHolds ==
  ASSUME IInv, \A s \in slots : ~in_use[s]
  PROVE  /\ \A c \in Clients : held[c] = NoSlot /\ pc[c] \notin HoldingPhases
         /\ \A s \in Slots : ~in_use[s]
         /\ plain = {}
<1>1. \A c \in Clients : held[c] = NoSlot
  BY DEF IInv, TypeOK, PagesFollowTheList, LeasesAreAccounted
<1>2. \A c \in Clients : pc[c] \notin HoldingPhases
  BY <1>1 DEF IInv, HoldersAreInPhase
<1>3. \A s \in Slots : ~in_use[s]
  BY <1>1, PageFacts DEF IInv, LeasesAreAccounted
<1>4. plain = {}
  BY <1>1, PageFacts DEF IInv, TypeOK, PlaintextUnderLease
<1>. QED
  BY <1>1, <1>2, <1>3, <1>4

-----------------------------------------------------------------------------
(* The steps of lease_slot.                                                *)

\* Cancelling the timer touches neither slots nor pages.
LEMMA BeginLeaseStep ==
  ASSUME IInv, NEW c \in Clients, NEW n \in RequestSizes, BeginLease(c, n)
  PROVE  IInv'
<1>. USE DEF IInv, BeginLease, MoveTo, poolVars, pageVars, clientVars
<1>1. TypeOK'
  BY DEF TypeOK, Phases
<1>2. HoldersAreInPhase' /\ PlaintextUnderLease'
  BY DEF TypeOK, HoldersAreInPhase, HoldingPhases, PlaintextUnderLease, PlainPhases
<1>3. ListedMeansInitialized' /\ LeasesAreAccounted' /\ PagesFollowTheList'
      /\ IdleSlotIsSealed'
  BY DEF ListedMeansInitialized, LeasesAreAccounted, PagesFollowTheList,
         IdleSlotIsSealed
<1>4. ViewsFollowPhases' /\ WriteViewLockedInExecution'
  BY DEF TypeOK, ViewsFollowPhases, WriteViewLockedInExecution
<1>. QED
  BY <1>1, <1>2, <1>3, <1>4

\* Reading the flag changes the client's phase only.
LEMMA CheckInitializedStep ==
  ASSUME IInv, NEW c \in Clients, CheckInitialized(c)
  PROVE  IInv'
<1>. USE DEF IInv, CheckInitialized, MoveTo, poolVars, pageVars, clientVars
<1>1. TypeOK'
  BY DEF TypeOK, Phases
<1>2. HoldersAreInPhase' /\ PlaintextUnderLease'
  BY DEF TypeOK, HoldersAreInPhase, HoldingPhases, PlaintextUnderLease, PlainPhases
<1>3. ListedMeansInitialized' /\ LeasesAreAccounted' /\ PagesFollowTheList'
      /\ IdleSlotIsSealed'
  BY DEF ListedMeansInitialized, LeasesAreAccounted, PagesFollowTheList,
         IdleSlotIsSealed
<1>4. ViewsFollowPhases' /\ WriteViewLockedInExecution'
  BY DEF TypeOK, ViewsFollowPhases, WriteViewLockedInExecution
<1>. QED
  BY <1>1, <1>2, <1>3, <1>4

\* A refused client holds nothing and goes back to where it started.
LEMMA RefuseSlotStep ==
  ASSUME IInv, NEW c \in Clients, RefuseSlot(c)
  PROVE  IInv'
<1>. USE DEF IInv, RefuseSlot, MoveTo, poolVars, pageVars, clientVars
<1>1. TypeOK'
  BY DEF TypeOK, Phases
<1>2. HoldersAreInPhase' /\ PlaintextUnderLease'
  BY DEF TypeOK, HoldersAreInPhase, HoldingPhases, PlaintextUnderLease, PlainPhases
<1>3. ListedMeansInitialized' /\ LeasesAreAccounted' /\ PagesFollowTheList'
      /\ IdleSlotIsSealed'
  BY DEF ListedMeansInitialized, LeasesAreAccounted, PagesFollowTheList,
         IdleSlotIsSealed
<1>4. ViewsFollowPhases' /\ WriteViewLockedInExecution'
  BY DEF TypeOK, ViewsFollowPhases, WriteViewLockedInExecution
<1>. QED
  BY <1>1, <1>2, <1>3, <1>4

\* initialize() builds the list only while there is none, so that no holder
\* loses its slot to it.
LEMMA InitializeStep ==
  ASSUME IInv, NEW c \in Clients, Initialize(c)
  PROVE  IInv'
<1>. USE DEF IInv, Initialize, NeedsInitialize, MoveTo
<1>1. CASE is_initialized
  <2>1. TypeOK'
    BY <1>1 DEF TypeOK, Phases
  <2>2. HoldersAreInPhase' /\ PlaintextUnderLease'
    BY <1>1 DEF TypeOK, HoldersAreInPhase, HoldingPhases, PlaintextUnderLease,
                PlainPhases
  <2>3. ListedMeansInitialized' /\ LeasesAreAccounted' /\ PagesFollowTheList'
        /\ IdleSlotIsSealed'
    BY <1>1 DEF ListedMeansInitialized, LeasesAreAccounted, PagesFollowTheList,
                IdleSlotIsSealed
  <2>4. ViewsFollowPhases' /\ WriteViewLockedInExecution'
    BY <1>1 DEF TypeOK, ViewsFollowPhases, WriteViewLockedInExecution
  <2>. QED
    BY <2>1, <2>2, <2>3, <2>4
<1>2. CASE ~is_initialized
  <2>1. /\ \A d \in Clients : held[d] = NoSlot /\ pc[d] \notin HoldingPhases
        /\ plain = {}
    BY <1>2, NobodyHolds DEF ListedMeansInitialized
  <2>2. /\ slots' = Slots /\ is_initialized' = TRUE
        /\ in_use' = [s \in Slots |-> FALSE]
        /\ prot' = Protect(Pages, "noaccess")
        /\ plain' = {} /\ held' = held /\ want' = want
        /\ pc' = [pc EXCEPT ![c] = "pick"]
        /\ UNCHANGED <<elapsed, compaction_timer>>
    BY <1>2, <2>1
  <2>3. \A d \in Clients : held'[d] = NoSlot /\ pc'[d] \notin HoldingPhases
    BY <2>1, <2>2 DEF TypeOK, HoldingPhases
  <2>4. \A p \in Pages : prot'[p] = "noaccess"
    BY <2>2, ProtectFacts
  <2>5. prot' \in [Pages -> {"unmapped", "noaccess", "readwrite"}]
    BY <2>2, ProtectFacts DEF TypeOK
  <2>6. TypeOK'
    <3>. USE <2>2 DEF TypeOK
    <3>1. slots' \subseteq Slots /\ in_use' \in [Slots -> BOOLEAN]
          /\ plain' \subseteq Pages
      OBVIOUS
    <3>2. is_initialized' \in BOOLEAN /\ compaction_timer' \in BOOLEAN
      BY Zenon
    <3>3. pc' \in [Clients -> Phases]
      BY DEF Phases
    <3>. QED
      BY <3>1, <3>2, <3>3, <2>5
  <2>7. HoldersAreInPhase' /\ ListedMeansInitialized' /\ PlaintextUnderLease'
    BY <2>2, <2>3 DEF HoldersAreInPhase, ListedMeansInitialized, PlaintextUnderLease
  <2>8. LeasesAreAccounted'
    BY <2>2, <2>3, PageFacts DEF LeasesAreAccounted
  <2>9. PagesFollowTheList' /\ IdleSlotIsSealed'
    BY <2>2, <2>3, <2>4, PageFacts DEF PagesFollowTheList, IdleSlotIsSealed
  <2>10. ViewsFollowPhases' /\ WriteViewLockedInExecution'
    BY <2>3 DEF ViewsFollowPhases, WriteViewLockedInExecution, HoldingPhases
  <2>. QED
    BY <2>6, <2>7, <2>8, <2>9, <2>10
<1>. QED
  BY <1>1, <1>2 DEF TypeOK

\* The slot picked was free: after the step it has this holder and no other.
LEMMA PickSlotStep ==
  ASSUME IInv, NEW c \in Clients, NEW s \in Slots, PickSlot(c, s)
  PROVE  IInv'
<1>. USE DEF IInv, PickSlot, MoveTo, pageVars
<1>1. s \in slots /\ ~in_use[s] /\ pc[c] = "pick"
  BY DEF Candidates, Available
<1>2. held[c] = NoSlot /\ \A d \in Clients : held[d] # s
  BY <1>1 DEF HoldersAreInPhase, HoldingPhases, LeasesAreAccounted
<1>3. TypeOK'
  BY DEF TypeOK, Phases
<1>4. HoldersAreInPhase' /\ PlaintextUnderLease'
  BY <1>1, <1>2, PageFacts
  DEF TypeOK, HoldersAreInPhase, HoldingPhases, PlaintextUnderLease, PlainPhases
<1>5. ListedMeansInitialized' /\ PagesFollowTheList'
  BY <1>1 DEF TypeOK, ListedMeansInitialized, PagesFollowTheList
<1>6. LeasesAreAccounted'
  BY <1>1, <1>2, PageFacts DEF TypeOK, LeasesAreAccounted
<1>7. IdleSlotIsSealed'
  BY DEF TypeOK, IdleSlotIsSealed
<1>8. ViewsFollowPhases' /\ WriteViewLockedInExecution'
  BY <1>1, <1>2
  DEF TypeOK, ViewsFollowPhases, WriteViewLockedInExecution, HoldersAreInPhase,
      HoldingPhases
<1>. QED
  BY <1>3, <1>4, <1>5, <1>6, <1>7, <1>8

-----------------------------------------------------------------------------
(* The steps of a holder: each touches the pages of its own slot only.     *)

\* Opening the write view of a leased slot.
LEMMA GetWritePtrStep ==
  ASSUME IInv, NEW c \in Clients, GetWritePtr(c)
  PROVE  IInv'
<1>. USE DEF IInv, GetWritePtr, MoveTo, poolVars, pageVars
<1>1. pc[c] \in HoldingPhases
  BY DEF HoldingPhases
<1>3. TypeOK'
  BY <1>1, HolderFacts, ProtectFacts DEF TypeOK, Phases
<1>4. HoldersAreInPhase' /\ PlaintextUnderLease'
  BY <1>1, HolderFacts
  DEF TypeOK, HoldersAreInPhase, HoldingPhases, PlaintextUnderLease, PlainPhases
<1>5. ListedMeansInitialized' /\ LeasesAreAccounted'
  BY DEF ListedMeansInitialized, LeasesAreAccounted
<1>6. PagesFollowTheList'
  BY <1>1, HolderFacts, PageFacts, ProtectFacts DEF TypeOK, PagesFollowTheList
<1>7. IdleSlotIsSealed'
  BY <1>1, HolderFacts, PageFacts, ProtectFacts DEF TypeOK, IdleSlotIsSealed
<1>8. ViewsFollowPhases'
  BY <1>1, HolderFacts, PageFacts, ProtectFacts
  DEF TypeOK, ViewsFollowPhases, HoldingPhases
<1>9. WriteViewLockedInExecution'
  BY <1>1, HolderFacts, PageFacts, ProtectFacts
  DEF TypeOK, WriteViewLockedInExecution, ViewsFollowPhases, HoldingPhases
<1>. QED
  BY <1>3, <1>4, <1>5, <1>6, <1>7, <1>8, <1>9

\* The plaintext goes to the write view of the client's own slot.
LEMMA DecryptStep ==
  ASSUME IInv, NEW c \in Clients, Decrypt(c)
  PROVE  IInv'
<1>. USE DEF IInv, Decrypt, MoveTo, poolVars, pageVars
<1>1. pc[c] \in HoldingPhases
  BY DEF HoldingPhases
<1>3. TypeOK'
  BY <1>1, HolderFacts, ProtectFacts DEF TypeOK, Phases
<1>4. HoldersAreInPhase' /\ PlaintextUnderLease'
  BY <1>1, HolderFacts
  DEF TypeOK, HoldersAreInPhase, HoldingPhases, PlaintextUnderLease, PlainPhases
<1>5. ListedMeansInitialized' /\ LeasesAreAccounted'
  BY DEF ListedMeansInitialized, LeasesAreAccounted
<1>6. PagesFollowTheList'
  BY <1>1, HolderFacts, PageFacts, ProtectFacts DEF TypeOK, PagesFollowTheList
<1>7. IdleSlotIsSealed'
  BY <1>1, HolderFacts, PageFacts, ProtectFacts DEF TypeOK, IdleSlotIsSealed
<1>8. ViewsFollowPhases'
  BY <1>1, HolderFacts, PageFacts, ProtectFacts
  DEF TypeOK, ViewsFollowPhases, HoldingPhases
<1>9. WriteViewLockedInExecution'
  BY <1>1, HolderFacts, PageFacts, ProtectFacts
  DEF TypeOK, WriteViewLockedInExecution, ViewsFollowPhases, HoldingPhases
<1>. QED
  BY <1>3, <1>4, <1>5, <1>6, <1>7, <1>8, <1>9

\* A failed decryption may leave plaintext, in a slot that is still leased.
LEMMA DecryptFailsStep ==
  ASSUME IInv, NEW c \in Clients, DecryptFails(c)
  PROVE  IInv'
<1>. USE DEF IInv, DecryptFails, MoveTo, poolVars, pageVars
<1>1. pc[c] \in HoldingPhases
  BY DEF HoldingPhases
<1>3. TypeOK'
  BY <1>1, HolderFacts, ProtectFacts DEF TypeOK, Phases
<1>4. HoldersAreInPhase' /\ PlaintextUnderLease'
  BY <1>1, HolderFacts
  DEF TypeOK, HoldersAreInPhase, HoldingPhases, PlaintextUnderLease, PlainPhases
<1>5. ListedMeansInitialized' /\ LeasesAreAccounted'
  BY DEF ListedMeansInitialized, LeasesAreAccounted
<1>6. PagesFollowTheList'
  BY <1>1, HolderFacts, PageFacts, ProtectFacts DEF TypeOK, PagesFollowTheList
<1>7. IdleSlotIsSealed'
  BY <1>1, HolderFacts, PageFacts, ProtectFacts DEF TypeOK, IdleSlotIsSealed
<1>8. ViewsFollowPhases'
  BY <1>1, HolderFacts, PageFacts, ProtectFacts
  DEF TypeOK, ViewsFollowPhases, HoldingPhases
<1>9. WriteViewLockedInExecution'
  BY <1>1, HolderFacts, PageFacts, ProtectFacts
  DEF TypeOK, WriteViewLockedInExecution, ViewsFollowPhases, HoldingPhases
<1>. QED
  BY <1>3, <1>4, <1>5, <1>6, <1>7, <1>8, <1>9

\* Opening the read view of a leased slot.
LEMMA UnlockReadViewStep ==
  ASSUME IInv, NEW c \in Clients, UnlockReadView(c)
  PROVE  IInv'
<1>. USE DEF IInv, UnlockReadView, MoveTo, poolVars, pageVars
<1>1. pc[c] \in HoldingPhases
  BY DEF HoldingPhases
<1>3. TypeOK'
  BY <1>1, HolderFacts, ProtectFacts DEF TypeOK, Phases
<1>4. HoldersAreInPhase' /\ PlaintextUnderLease'
  BY <1>1, HolderFacts
  DEF TypeOK, HoldersAreInPhase, HoldingPhases, PlaintextUnderLease, PlainPhases
<1>5. ListedMeansInitialized' /\ LeasesAreAccounted'
  BY DEF ListedMeansInitialized, LeasesAreAccounted
<1>6. PagesFollowTheList'
  BY <1>1, HolderFacts, PageFacts, ProtectFacts DEF TypeOK, PagesFollowTheList
<1>7. IdleSlotIsSealed'
  BY <1>1, HolderFacts, PageFacts, ProtectFacts DEF TypeOK, IdleSlotIsSealed
<1>8. ViewsFollowPhases'
  BY <1>1, HolderFacts, PageFacts, ProtectFacts
  DEF TypeOK, ViewsFollowPhases, HoldingPhases
<1>9. WriteViewLockedInExecution'
  BY <1>1, HolderFacts, PageFacts, ProtectFacts
  DEF TypeOK, WriteViewLockedInExecution, ViewsFollowPhases, HoldingPhases
<1>. QED
  BY <1>3, <1>4, <1>5, <1>6, <1>7, <1>8, <1>9

\* The copy puts the plaintext behind the read view of the client's own slot.
LEMMA CopyToReadViewStep ==
  ASSUME IInv, NEW c \in Clients, CopyToReadView(c)
  PROVE  IInv'
<1>. USE DEF IInv, CopyToReadView, MoveTo, poolVars, pageVars
<1>1. pc[c] \in HoldingPhases
  BY DEF HoldingPhases
<1>3. TypeOK'
  BY <1>1, HolderFacts, ProtectFacts DEF TypeOK, Phases
<1>4. HoldersAreInPhase' /\ PlaintextUnderLease'
  BY <1>1, HolderFacts
  DEF TypeOK, HoldersAreInPhase, HoldingPhases, PlaintextUnderLease, PlainPhases
<1>5. ListedMeansInitialized' /\ LeasesAreAccounted'
  BY DEF ListedMeansInitialized, LeasesAreAccounted
<1>6. PagesFollowTheList'
  BY <1>1, HolderFacts, PageFacts, ProtectFacts DEF TypeOK, PagesFollowTheList
<1>7. IdleSlotIsSealed'
  BY <1>1, HolderFacts, PageFacts, ProtectFacts DEF TypeOK, IdleSlotIsSealed
<1>8. ViewsFollowPhases'
  BY <1>1, HolderFacts, PageFacts, ProtectFacts
  DEF TypeOK, ViewsFollowPhases, HoldingPhases
<1>9. WriteViewLockedInExecution'
  BY <1>1, HolderFacts, PageFacts, ProtectFacts
  DEF TypeOK, WriteViewLockedInExecution, ViewsFollowPhases, HoldingPhases
<1>. QED
  BY <1>3, <1>4, <1>5, <1>6, <1>7, <1>8, <1>9

\* Locking the write view establishes what holds during the execution.
LEMMA LockWriteViewStep ==
  ASSUME IInv, NEW c \in Clients, LockWriteView(c)
  PROVE  IInv'
<1>. USE DEF IInv, LockWriteView, MoveTo, poolVars, pageVars
<1>1. pc[c] \in HoldingPhases
  BY DEF HoldingPhases
<1>3. TypeOK'
  BY <1>1, HolderFacts, ProtectFacts DEF TypeOK, Phases
<1>4. HoldersAreInPhase' /\ PlaintextUnderLease'
  BY <1>1, HolderFacts
  DEF TypeOK, HoldersAreInPhase, HoldingPhases, PlaintextUnderLease, PlainPhases
<1>5. ListedMeansInitialized' /\ LeasesAreAccounted'
  BY DEF ListedMeansInitialized, LeasesAreAccounted
<1>6. PagesFollowTheList'
  BY <1>1, HolderFacts, PageFacts, ProtectFacts DEF TypeOK, PagesFollowTheList
<1>7. IdleSlotIsSealed'
  BY <1>1, HolderFacts, PageFacts, ProtectFacts DEF TypeOK, IdleSlotIsSealed
<1>8. ViewsFollowPhases'
  BY <1>1, HolderFacts, PageFacts, ProtectFacts
  DEF TypeOK, ViewsFollowPhases, HoldingPhases
<1>9. WriteViewLockedInExecution'
  BY <1>1, HolderFacts, PageFacts, ProtectFacts
  DEF TypeOK, WriteViewLockedInExecution, ViewsFollowPhases, HoldingPhases
<1>. QED
  BY <1>3, <1>4, <1>5, <1>6, <1>7, <1>8, <1>9

\* With a single view the slot stays as the decryption left it.
LEMMA KeepSingleViewStep ==
  ASSUME IInv, NEW c \in Clients, KeepSingleView(c)
  PROVE  IInv'
<1>. USE DEF IInv, KeepSingleView, MoveTo, poolVars, pageVars
<1>1. pc[c] \in HoldingPhases
  BY DEF HoldingPhases
<1>3. TypeOK'
  BY <1>1, HolderFacts, ProtectFacts DEF TypeOK, Phases
<1>4. HoldersAreInPhase' /\ PlaintextUnderLease'
  BY <1>1, HolderFacts
  DEF TypeOK, HoldersAreInPhase, HoldingPhases, PlaintextUnderLease, PlainPhases
<1>5. ListedMeansInitialized' /\ LeasesAreAccounted'
  BY DEF ListedMeansInitialized, LeasesAreAccounted
<1>6. PagesFollowTheList'
  BY <1>1, HolderFacts, PageFacts, ProtectFacts DEF TypeOK, PagesFollowTheList
<1>7. IdleSlotIsSealed'
  BY <1>1, HolderFacts, PageFacts, ProtectFacts DEF TypeOK, IdleSlotIsSealed
<1>8. ViewsFollowPhases'
  BY <1>1, HolderFacts, PageFacts, ProtectFacts
  DEF TypeOK, ViewsFollowPhases, HoldingPhases
<1>9. WriteViewLockedInExecution'
  BY <1>1, HolderFacts, PageFacts, ProtectFacts
  DEF TypeOK, WriteViewLockedInExecution, ViewsFollowPhases, HoldingPhases
<1>. QED
  BY <1>3, <1>4, <1>5, <1>6, <1>7, <1>8, <1>9

\* A released slot is wiped and closed before it counts as free.
LEMMA ReleaseSlotStep ==
  ASSUME IInv, NEW c \in Clients, ReleaseSlot(c)
  PROVE  IInv'
<1>. USE DEF IInv
<1>1. pc[c] \in HoldingPhases
  BY DEF ReleaseSlot, HoldingPhases
<1>2. WipedPages(held[c]) = PagesOf(held[c])
  BY <1>1, HolderFacts DEF WipedPages
<1>3. /\ prot' = Protect(PagesOf(held[c]), "noaccess")
      /\ plain' = plain \ PagesOf(held[c])
      /\ in_use' = [in_use EXCEPT ![held[c]] = FALSE]
      /\ held' = [held EXCEPT ![c] = NoSlot]
      /\ pc' = [pc EXCEPT ![c] = "idle"]
      /\ UNCHANGED <<slots, is_initialized, elapsed, want>>
  BY <1>2 DEF ReleaseSlot, MoveTo
<1>4. compaction_timer' \in BOOLEAN
  BY Zenon DEF ReleaseSlot, ScheduleCompaction, TypeOK
<1>5. TypeOK'
  BY <1>3, <1>4, ProtectFacts DEF TypeOK, Phases
<1>6. HoldersAreInPhase' /\ ListedMeansInitialized'
  BY <1>3 DEF TypeOK, HoldersAreInPhase, HoldingPhases, ListedMeansInitialized
<1>7. LeasesAreAccounted'
  BY <1>1, <1>3, HolderFacts, PageFacts DEF TypeOK, LeasesAreAccounted
<1>8. PagesFollowTheList'
  BY <1>1, <1>3, HolderFacts, PageFacts, ProtectFacts DEF TypeOK, PagesFollowTheList
<1>9. IdleSlotIsSealed'
  BY <1>1, <1>3, HolderFacts, PageFacts, ProtectFacts DEF TypeOK, IdleSlotIsSealed
<1>10. PlaintextUnderLease'
  BY <1>1, <1>3, HolderFacts, PageFacts DEF TypeOK, PlaintextUnderLease
<1>11. ViewsFollowPhases'
  BY <1>1, <1>3, HolderFacts, PageFacts, ProtectFacts
  DEF TypeOK, ViewsFollowPhases, HoldingPhases
<1>12. WriteViewLockedInExecution'
  BY <1>1, <1>3, HolderFacts, PageFacts, ProtectFacts
  DEF TypeOK, WriteViewLockedInExecution, HoldingPhases
<1>. QED
  BY <1>5, <1>6, <1>7, <1>8, <1>9, <1>10, <1>11, <1>12

-----------------------------------------------------------------------------
(* The timer thread and shutdown.                                          *)

\* A timer that fires has not touched the pool yet.
LEMMA TimerFiresStep ==
  ASSUME IInv, TimerFires
  PROVE  IInv'
<1>. USE DEF IInv, TimerFires, pageVars, clientVars
<1>1. elapsed' \in 0..MaxElapsed
  BY DEF TypeOK
<1>2. TypeOK'
  BY <1>1 DEF TypeOK
<1>. QED
  BY <1>2
  DEF HoldersAreInPhase, ListedMeansInitialized, LeasesAreAccounted,
      PagesFollowTheList, IdleSlotIsSealed, PlaintextUnderLease,
      ViewsFollowPhases, WriteViewLockedInExecution

\* Freeing the whole list while nobody holds a slot.
LEMMA FreeSlotsStep ==
  ASSUME IInv, FreeSlots, \A s \in slots : ~in_use[s],
         is_initialized' \in BOOLEAN, compaction_timer' \in BOOLEAN,
         elapsed' \in 0..MaxElapsed,
         UNCHANGED <<in_use, pc, want, held>>
  PROVE  IInv'
<1>. USE DEF IInv
<1>1. /\ \A c \in Clients : held[c] = NoSlot /\ pc[c] \notin HoldingPhases
      /\ \A s \in Slots : ~in_use[s]
      /\ plain = {}
  BY NobodyHolds
<1>2. slots' = {} /\ plain' = {}
  BY <1>1 DEF FreeSlots
<1>3. \A p \in Pages : prot'[p] = "unmapped"
  BY AllPagesFacts, ProtectFacts, PageFacts DEF FreeSlots, TypeOK, PagesFollowTheList
<1>4. prot' \in [Pages -> {"unmapped", "noaccess", "readwrite"}]
  BY ProtectFacts DEF FreeSlots, TypeOK
<1>5. TypeOK'
  BY <1>2, <1>4 DEF TypeOK
<1>6. HoldersAreInPhase' /\ ListedMeansInitialized' /\ LeasesAreAccounted'
      /\ PlaintextUnderLease' /\ IdleSlotIsSealed'
  BY <1>2
  DEF HoldersAreInPhase, ListedMeansInitialized, LeasesAreAccounted,
      PlaintextUnderLease, IdleSlotIsSealed
<1>7. PagesFollowTheList'
  BY <1>1, <1>2, <1>3, PageFacts DEF PagesFollowTheList
<1>8. ViewsFollowPhases' /\ WriteViewLockedInExecution'
  BY <1>1 DEF ViewsFollowPhases, WriteViewLockedInExecution, HoldingPhases
<1>. QED
  BY <1>5, <1>6, <1>7, <1>8

\* compact() frees the list while no slot is in use, or does nothing.
LEMMA CompactStep ==
  ASSUME IInv, Compact
  PROVE  IInv'
<1>1. elapsed' \in 0..MaxElapsed
  BY DEF IInv, TypeOK, Compact
<1>2. CASE MayCompact
  <2>1. FreeSlots /\ is_initialized' \in BOOLEAN /\ UNCHANGED <<in_use, pc, want, held>>
    BY <1>2 DEF Compact, clientVars
  <2>2. compaction_timer' \in BOOLEAN
    BY DEF Compact, IInv, TypeOK
  <2>. QED
    BY <1>1, <1>2, <2>1, <2>2, FreeSlotsStep DEF MayCompact
<1>3. CASE ~MayCompact
  <2>1. UNCHANGED <<slots, in_use, is_initialized, compaction_timer, prot, plain,
                    pc, want, held>>
    BY <1>3 DEF Compact, pageVars, clientVars
  <2>2. TypeOK'
    BY <1>1, <2>1 DEF IInv, TypeOK
  <2>. QED
    BY <2>1, <2>2
    DEF IInv, HoldersAreInPhase, ListedMeansInitialized, LeasesAreAccounted,
        PagesFollowTheList, IdleSlotIsSealed, PlaintextUnderLease,
        ViewsFollowPhases, WriteViewLockedInExecution
<1>. QED
  BY <1>2, <1>3

\* shutdown() frees the list while no client holds a slot.
LEMMA ShutdownStep ==
  ASSUME IInv, Shutdown
  PROVE  IInv'
<1>1. \A s \in slots : ~in_use[s]
  BY PageFacts DEF IInv, TypeOK, LeasesAreAccounted, Shutdown
<1>2. FreeSlots /\ UNCHANGED <<in_use, is_initialized, elapsed, pc, want, held>>
      /\ compaction_timer' \in BOOLEAN
  BY DEF Shutdown, clientVars
<1>. QED
  BY <1>1, <1>2, FreeSlotsStep DEF IInv, TypeOK

-----------------------------------------------------------------------------
\* Every step of the pool, its clients and its timers keeps the invariant.
LEMMA NextIInv == IInv /\ [Next]_vars => IInv'
<1>. SUFFICES ASSUME IInv, [Next]_vars PROVE IInv'
  OBVIOUS
<1>1. ASSUME NEW c \in Clients, \E n \in RequestSizes : BeginLease(c, n)
      PROVE  IInv'
  BY <1>1, BeginLeaseStep
<1>2. ASSUME NEW c \in Clients, Lease(c)
      PROVE  IInv'
  BY <1>2, CheckInitializedStep, InitializeStep, PickSlotStep, RefuseSlotStep DEF Lease
<1>3. ASSUME NEW c \in Clients, Use(c)
      PROVE  IInv'
  BY <1>3, GetWritePtrStep, DecryptStep, DecryptFailsStep, UnlockReadViewStep,
     CopyToReadViewStep, LockWriteViewStep, KeepSingleViewStep, ReleaseSlotStep
  DEF Use
<1>4. CASE TimerFires
  BY <1>4, TimerFiresStep
<1>5. CASE Compact
  BY <1>5, CompactStep
<1>6. CASE Shutdown
  BY <1>6, ShutdownStep
<1>7. CASE UNCHANGED vars
  BY <1>7
  DEF vars, poolVars, pageVars, clientVars, IInv, TypeOK, HoldersAreInPhase,
      ListedMeansInitialized, LeasesAreAccounted, PagesFollowTheList,
      IdleSlotIsSealed, PlaintextUnderLease, ViewsFollowPhases,
      WriteViewLockedInExecution
<1>. QED
  BY <1>1, <1>2, <1>3, <1>4, <1>5, <1>6, <1>7 DEF Next

\* The strengthened invariant holds of every reachable state.
THEOREM PoolInvariant == Spec => []IInv
BY InitIInv, NextIInv, PTL DEF Spec

\* Type correctness of the pool.
THEOREM PoolTypeCorrect == Spec => []TypeOK
<1>1. IInv => TypeOK
  BY DEF IInv
<1>. QED
  BY <1>1, PoolInvariant, PTL

\* Leases are exclusive and the in_use flags are exact, for any number of
\* clients, slots and tiers.
THEOREM PoolLeasesAreAccounted == Spec => []LeasesAreAccounted
<1>1. IInv => LeasesAreAccounted
  BY DEF IInv
<1>. QED
  BY <1>1, PoolInvariant, PTL

\* Compaction, shutdown and re-initialization leave leased pages alone.
THEOREM PoolPagesFollowTheList == Spec => []PagesFollowTheList
<1>1. IInv => PagesFollowTheList
  BY DEF IInv
<1>. QED
  BY <1>1, PoolInvariant, PTL

\* Slots are wiped and sealed between leases.
THEOREM PoolIdleSlotIsSealed == Spec => []IdleSlotIsSealed
<1>1. IInv => IdleSlotIsSealed
  BY DEF IInv
<1>. QED
  BY <1>1, PoolInvariant, PTL

\* The write view is locked for as long as the layer computes.
THEOREM PoolWriteViewLockedInExecution == Spec => []WriteViewLockedInExecution
<1>1. IInv => WriteViewLockedInExecution
  BY DEF IInv
<1>. QED
  BY <1>1, PoolInvariant, PTL

-----------------------------------------------------------------------------
\* A page is unmapped by FreeSlots only, with nobody holding a slot, so that
\* there is no plaintext left for the operating system to inherit.
LEMMA FreedPagesStep ==
  ASSUME IInv, [Next]_vars, NEW p \in Pages,
         prot[p] # "unmapped", prot'[p] = "unmapped"
  PROVE  p \notin plain
<1>1. (\A s \in slots : ~in_use[s]) => plain = {}
  BY NobodyHolds
<1>2. CASE Compact
  <2>1. MayCompact
    BY <1>2 DEF Compact, pageVars
  <2>. QED
    BY <1>1, <2>1 DEF MayCompact
<1>3. CASE Shutdown
  BY <1>1, <1>3, PageFacts DEF IInv, TypeOK, LeasesAreAccounted, Shutdown
<1>4. ASSUME NEW c \in Clients, Initialize(c)
      PROVE  FALSE
  BY <1>4, ProtectFacts DEF Initialize
<1>5. ASSUME NEW c \in Clients, Use(c)
      PROVE  FALSE
  BY <1>5, ProtectFacts
  DEF Use, GetWritePtr, Decrypt, DecryptFails, UnlockReadView, CopyToReadView,
      LockWriteView, KeepSingleView, ReleaseSlot, pageVars
<1>6. ASSUME NEW c \in Clients, NEW n \in RequestSizes, BeginLease(c, n)
      PROVE  FALSE
  BY <1>6 DEF BeginLease, pageVars
<1>7. ASSUME NEW c \in Clients,
             CheckInitialized(c) \/ RefuseSlot(c) \/ \E s \in Slots : PickSlot(c, s)
      PROVE  FALSE
  BY <1>7 DEF CheckInitialized, RefuseSlot, PickSlot, pageVars
<1>8. CASE TimerFires \/ UNCHANGED vars
  BY <1>8 DEF TimerFires, vars, pageVars
<1>. QED
  BY <1>2, <1>3, <1>4, <1>5, <1>6, <1>7, <1>8 DEF Next, Lease

\* No page with a plaintext in it is returned to the operating system.
THEOREM PoolFreedPagesWereWiped == Spec => FreedPagesWereWiped
<1>1. IInv /\ [Next]_vars =>
        [\A p \in Pages :
           prot[p] # "unmapped" /\ prot'[p] = "unmapped" => p \notin plain]_vars
  BY FreedPagesStep
<1>. QED
  BY <1>1, PoolInvariant, PTL DEF Spec, FreedPagesWereWiped

-----------------------------------------------------------------------------
(* Refinement: the pool implements SlotLease.                              *)

LeaseOf(c) == {held[c]} \ {NoSlot}
LeaseMap == [c \in Clients |-> LeaseOf(c)]
SecretSlots == {s \in Slots : PagesOf(s) \cap plain # {}}

\* The slots that SlotLease sees as held are the slots the clients hold.
LEMMA HeldFacts ==
  ASSUME IInv
  PROVE  \A s \in Slots :
           s \in SlotLease!Held <=> \E c \in Clients : held[c] = s
BY PageFacts DEF SlotLease!Held, IInv, TypeOK

\* The pool starts where the lease protocol starts: with all slots or none.
LEMMA InitRefines == Init => SlotLease!LeaseInit
BY PageFacts DEF Init, SlotLease!LeaseInit

\* Steps that change neither the list nor a lease nor which slots hold a
\* plaintext are invisible to the abstract pool.
LEMMA StutterRefines ==
  ASSUME UNCHANGED <<slots, held>>, SecretSlots' = SecretSlots
  PROVE  UNCHANGED SlotLease!leaseVars
BY DEF SlotLease!leaseVars, SecretSlots

\* What a holder does to its slot the lease protocol sees as Fill, Return, or
\* nothing.
LEMMA UseRefines ==
  ASSUME IInv, NEW c \in Clients, Use(c)
  PROVE  SlotLease!LeaseNext \/ UNCHANGED SlotLease!leaseVars
<1>1. CASE GetWritePtr(c) \/ UnlockReadView(c) \/ LockWriteView(c) \/ KeepSingleView(c)
  BY <1>1, StutterRefines
  DEF GetWritePtr, UnlockReadView, LockWriteView, KeepSingleView, poolVars, pageVars,
      SecretSlots
<1>2. ASSUME pc[c] \in HoldingPhases, UNCHANGED <<slots, held>>,
             plain' = plain \cup {WriteView(held[c])}
      PROVE  SlotLease!LeaseNext
  <2>1. held[c] \in Slots /\ held[c] \in LeaseOf(c)
    BY <1>2, HolderFacts, PageFacts DEF LeaseOf
  <2>2. SecretSlots' = SecretSlots \cup {held[c]}
    BY <1>2, <2>1, PageFacts DEF SecretSlots, IInv, TypeOK
  <2>3. SlotLease!Fill(c, held[c])
    BY <1>2, <2>1, <2>2 DEF SlotLease!Fill, LeaseOf, SecretSlots
  <2>. QED
    BY <2>1, <2>3 DEF SlotLease!LeaseNext
<1>3. CASE Decrypt(c)
  BY <1>2, <1>3 DEF Decrypt, HoldingPhases, poolVars
<1>4. CASE DecryptFails(c)
  <2>1. pc[c] \in HoldingPhases /\ UNCHANGED <<slots, held>>
    BY <1>4 DEF DecryptFails, HoldingPhases, poolVars
  <2>2. CASE plain' = plain
    BY <2>1, <2>2, StutterRefines DEF SecretSlots
  <2>3. CASE plain' = plain \cup {WriteView(held[c])}
    BY <1>2, <2>1, <2>3
  <2>. QED
    BY <1>4, <2>2, <2>3 DEF DecryptFails
<1>5. CASE CopyToReadView(c)
  <2>1. pc[c] \in HoldingPhases /\ UNCHANGED <<slots, held>>
        /\ plain' = plain \cup {ReadView(held[c])}
    BY <1>5 DEF CopyToReadView, HoldingPhases, poolVars
  <2>2. held[c] \in Slots /\ WriteView(held[c]) \in plain
    BY <1>5, <2>1, HolderFacts DEF IInv, ViewsFollowPhases, CopyToReadView
  <2>3. SecretSlots' = SecretSlots
    BY <2>1, <2>2, PageFacts DEF SecretSlots, IInv, TypeOK
  <2>. QED
    BY <2>1, <2>3, StutterRefines
<1>6. CASE ReleaseSlot(c)
  <2>1. pc[c] \in HoldingPhases
    BY <1>6 DEF ReleaseSlot, HoldingPhases
  <2>2. PICK s \in Slots : s = held[c] /\ s \in LeaseOf(c)
    BY <2>1, HolderFacts, PageFacts DEF LeaseOf
  <2>3. plain' = plain \ PagesOf(s)
    BY <1>6, <2>1, <2>2, HolderFacts DEF ReleaseSlot, WipedPages
  <2>4. SecretSlots' = SecretSlots \ {s}
    BY <2>2, <2>3, PageFacts DEF SecretSlots, IInv, TypeOK
  <2>5. LeaseMap' = [LeaseMap EXCEPT ![c] = @ \ {s}]
    BY <1>6, <2>2 DEF ReleaseSlot, LeaseMap, LeaseOf, IInv, TypeOK
  <2>6. SlotLease!Return(c, s)
    BY <1>6, <2>2, <2>4, <2>5
    DEF SlotLease!Return, ReleaseSlot, LeaseMap, LeaseOf, SecretSlots
  <2>. QED
    BY <2>6 DEF SlotLease!LeaseNext
<1>. QED
  BY <1>1, <1>3, <1>4, <1>5, <1>6 DEF Use

\* lease_slot maps the slots, grants one, or does nothing visible.
LEMMA LeaseRefines ==
  ASSUME IInv, NEW c \in Clients, Lease(c)
  PROVE  SlotLease!LeaseNext \/ UNCHANGED SlotLease!leaseVars
<1>1. CASE CheckInitialized(c) \/ RefuseSlot(c)
  BY <1>1, StutterRefines DEF CheckInitialized, RefuseSlot, poolVars, pageVars, SecretSlots
<1>2. CASE Initialize(c)
  <2>1. CASE is_initialized
    BY <1>2, <2>1, StutterRefines DEF Initialize, NeedsInitialize, SecretSlots
  <2>2. CASE ~is_initialized
    <3>1. slots = {} /\ slots' = Slots /\ UNCHANGED <<plain, held>>
      BY <1>2, <2>2 DEF Initialize, NeedsInitialize, IInv, ListedMeansInitialized
    <3>2. SlotLease!Map(Slots)
      BY <3>1 DEF SlotLease!Map
    <3>. QED
      BY <3>2 DEF SlotLease!LeaseNext
  <2>. QED
    BY <2>1, <2>2
<1>3. ASSUME NEW s \in Slots, PickSlot(c, s)
      PROVE  SlotLease!LeaseNext
  <2>1. s \in slots /\ ~in_use[s] /\ held[c] = NoSlot
    BY <1>3
    DEF PickSlot, Candidates, Available, IInv, HoldersAreInPhase, HoldingPhases
  <2>2. s \notin SlotLease!Held
    BY <2>1, HeldFacts DEF IInv, LeasesAreAccounted
  <2>3. LeaseMap' = [LeaseMap EXCEPT ![c] = @ \cup {s}]
    <3>1. LeaseOf(c) = {} /\ LeaseOf(c)' = {s}
      BY <1>3, <2>1, PageFacts DEF PickSlot, LeaseOf, IInv, TypeOK
    <3>2. \A d \in Clients \ {c} : LeaseOf(d)' = LeaseOf(d)
      BY <1>3 DEF PickSlot, LeaseOf, IInv, TypeOK
    <3>. QED
      BY <3>1, <3>2 DEF LeaseMap
  <2>4. SlotLease!Grant(c, s)
    BY <1>3, <2>1, <2>2, <2>3
    DEF SlotLease!Grant, PickSlot, LeaseMap, LeaseOf, pageVars
  <2>. QED
    BY <2>4 DEF SlotLease!LeaseNext
<1>. QED
  BY <1>1, <1>2, <1>3 DEF Lease

\* Freeing the idle list is the abstract Unmap.
LEMMA FreeSlotsRefines ==
  ASSUME IInv, FreeSlots, held' = held, \A s \in slots : ~in_use[s]
  PROVE  SlotLease!LeaseNext
<1>1. plain = {} /\ plain' = {} /\ slots' = {} /\ \A c \in Clients : held[c] = NoSlot
  BY NobodyHolds DEF FreeSlots
<1>2. SlotLease!Held = {}
  BY <1>1 DEF SlotLease!Held
<1>3. SlotLease!Unmap(slots)
  BY <1>1, <1>2 DEF SlotLease!Unmap, IInv, TypeOK
<1>. QED
  BY <1>3 DEF SlotLease!LeaseNext, IInv, TypeOK

\* Every step of the pool is a step of the lease protocol or invisible to it.
LEMMA NextRefines ==
  IInv /\ [Next]_vars => [SlotLease!LeaseNext]_(SlotLease!leaseVars)
<1>. SUFFICES ASSUME IInv, [Next]_vars
              PROVE  SlotLease!LeaseNext \/ UNCHANGED SlotLease!leaseVars
  OBVIOUS
<1>1. ASSUME NEW c \in Clients, Lease(c) \/ Use(c)
      PROVE  SlotLease!LeaseNext \/ UNCHANGED SlotLease!leaseVars
  BY <1>1, LeaseRefines, UseRefines
<1>2. ASSUME NEW c \in Clients, NEW n \in RequestSizes, BeginLease(c, n)
      PROVE  UNCHANGED SlotLease!leaseVars
  BY <1>2, StutterRefines DEF BeginLease, pageVars, SecretSlots
<1>3. CASE TimerFires \/ UNCHANGED vars
  BY <1>3, StutterRefines
  DEF TimerFires, vars, poolVars, pageVars, clientVars, SecretSlots
<1>4. CASE Compact
  <2>1. CASE MayCompact
    BY <1>4, <2>1, FreeSlotsRefines DEF Compact, MayCompact, clientVars
  <2>2. CASE ~MayCompact
    BY <1>4, <2>2, StutterRefines DEF Compact, pageVars, clientVars, SecretSlots
  <2>. QED
    BY <2>1, <2>2
<1>5. CASE Shutdown
  BY <1>5, FreeSlotsRefines, PageFacts
  DEF Shutdown, clientVars, IInv, TypeOK, LeasesAreAccounted
<1>. QED
  BY <1>1, <1>2, <1>3, <1>4, <1>5 DEF Next

\* The pool of the PyTorch wrapper implements the abstract lease protocol.
THEOREM PoolImplementsSlotLease == Spec => ImplementsSlotLease
BY InitRefines, NextRefines, PoolInvariant, PTL
DEF Spec, ImplementsSlotLease, SlotLease!LeaseSpec
==============================================================================
