----------------------------- MODULE NativePool -----------------------------
(***************************************************************************)
(* The page pool of the platform layer: pal_configure_pool,                *)
(* pal_lease_secure_slot, pal_get_read_view, pal_release_secure_slot and   *)
(* pal_compact_pool of native/src/pal_linux.cpp (pal_macos.cpp and         *)
(* pal_windows.cpp have the same structure).                               *)
(*                                                                         *)
(* The pool is a std::vector of slots without a mutex.  Two of the         *)
(* functions have a point at which a call of another thread can change     *)
(* what they have just read: pal_lease_secure_slot between its scan of the *)
(* vector and "leased->in_use = true", and pal_compact_pool between its    *)
(* scan and "g_pool = active_slots".  Each is two steps here.              *)
(*                                                                         *)
(* The operators below are the bodies of the functions for a caller x;     *)
(* SecureKernel and SecureONNXSession make actions of them.                *)
(***************************************************************************)
EXTENDS Naturals, Sequences, FiniteSets

CONSTANTS
  Callers,      \* threads that call into the pool
  Regions,      \* bound: the address ranges mmap can return
  NumSlots,     \* slots pal_configure_pool creates
  SlotSize,     \* their sizes
  AtomicCalls,  \* no pool function is entered while another thread is in one
  Nothing       \* no region; no data

\* A slot is a region, which stands for its two addresses, with its flag.
SlotRecord == [region : Regions \cup {Nothing}, size : Nat, in_use : BOOLEAN]

ASSUME NativePoolAssumption ==
  /\ NumSlots \in Nat
  /\ SlotSize \in [1..NumSlots -> Nat]
  /\ AtomicCalls \in BOOLEAN
  /\ Nothing \notin Regions /\ Nothing \notin Seq(SlotRecord)

VARIABLES
  g_pool,               \* the storage of the vector: what each element holds
  g_pool_size,          \* g_pool.size()
  g_pool_initialized,
  mapped,               \* the regions that are mapped
  view,                 \* which view of each region can be accessed
  content,              \* what plaintext each region holds
  found,                \* caller inside a lease: the element it has chosen
  ptr,                  \* the write pointer a caller holds
  active_slots          \* caller inside a compaction: what it will keep

nativeVars == <<g_pool, g_pool_size, g_pool_initialized, mapped, view, content,
                found, ptr, active_slots>>

Elements == 1..g_pool_size

NativeTypeOK ==
  /\ g_pool \in [1..NumSlots -> SlotRecord]
  /\ g_pool_size \in 0..NumSlots
  /\ g_pool_initialized \in BOOLEAN
  /\ mapped \subseteq Regions
  /\ view \in [Regions -> {"none", "write", "read"}]
  /\ DOMAIN content = Regions
  /\ found \in [Callers -> 0..NumSlots]
  /\ ptr \in [Callers -> Regions \cup {Nothing}]
  /\ active_slots \in [Callers -> Seq(SlotRecord) \cup {Nothing}]

NativeInit ==
  /\ g_pool = [i \in 1..NumSlots |->
                 [region |-> Nothing, size |-> SlotSize[i], in_use |-> FALSE]]
  /\ g_pool_size = 0
  /\ g_pool_initialized = FALSE
  /\ mapped = {}
  /\ view = [r \in Regions |-> "none"]
  /\ content = [r \in Regions |-> Nothing]
  /\ found = [x \in Callers |-> 0]
  /\ ptr = [x \in Callers |-> Nothing]
  /\ active_slots = [x \in Callers |-> Nothing]

\* The caller is between the two steps of a lease or of a compaction.
InsidePool(x) == found[x] # 0 \/ active_slots[x] # Nothing

Admitted(x) == AtomicCalls => \A y \in Callers \ {x} : ~InsidePool(y)

SlotRegions(I) == {g_pool[i].region : i \in I}

\* mprotect leaves an address that is not mapped alone (ENOMEM).
Show(r, v) == [view EXCEPT ![r] = IF r \in mapped THEN v ELSE @]

-----------------------------------------------------------------------------
\* Mutant of ClearPool: the slots are unmapped but stay in the list.
ClearPoolButKeepTheList ==
  /\ mapped' = mapped \ SlotRegions(Elements)
  /\ view' = [r \in Regions |-> IF r \in SlotRegions(Elements) THEN "none" ELSE view[r]]
  /\ content' = [r \in Regions |-> IF r \in SlotRegions(Elements) THEN Nothing ELSE content[r]]
  /\ UNCHANGED <<g_pool, g_pool_size, g_pool_initialized, found, ptr, active_slots>>

\* pal_configure_pool for a session that uses no pool: every old slot is
\* unmapped, leased or not, and the list is cleared.
ClearPool ==
  LET old == SlotRegions(Elements) IN
  /\ g_pool_size' = 0
  /\ g_pool_initialized' = FALSE
  /\ mapped' = mapped \ old
  /\ view' = [r \in Regions |-> IF r \in old THEN "none" ELSE view[r]]
  /\ content' = [r \in Regions |-> IF r \in old THEN Nothing ELSE content[r]]
  /\ UNCHANGED <<g_pool, found, ptr, active_slots>>

\* pal_configure_pool: every old slot is unmapped, leased or not, and the new
\* ones are created; mmap may return any address that is free by then.
PoolConfigure(x, use_pool) ==
  LET old == SlotRegions(Elements)
      free == (Regions \ mapped) \cup old IN
  /\ Admitted(x)
  /\ IF use_pool
     THEN \E new \in [1..NumSlots -> free] :
            /\ \A i, j \in 1..NumSlots : new[i] = new[j] => i = j
            /\ g_pool' = [i \in 1..NumSlots |->
                            [region |-> new[i], size |-> SlotSize[i], in_use |-> FALSE]]
            /\ g_pool_size' = NumSlots
            /\ g_pool_initialized' = TRUE
            /\ LET created == {new[i] : i \in 1..NumSlots}
                   changed == old \cup created IN
               /\ mapped' = (mapped \ old) \cup created
               /\ view' = [r \in Regions |-> IF r \in changed THEN "none" ELSE view[r]]
               /\ content' = [r \in Regions |-> IF r \in changed THEN Nothing ELSE content[r]]
            /\ UNCHANGED <<found, ptr, active_slots>>
     ELSE ClearPool

-----------------------------------------------------------------------------
(* pal_lease_secure_slot.                                                  *)

\* Mutant of AvailableSlots: "!slot.in_use" is forgotten.
AvailableSlotsInUse(n) ==
  IF g_pool_initialized THEN {i \in Elements : g_pool[i].size >= n} ELSE {}

AvailableSlots(n) ==
  IF g_pool_initialized
  THEN {i \in Elements : ~g_pool[i].in_use /\ g_pool[i].size >= n}
  ELSE {}

\* The scan finds a slot.  A pool exists only with g_use_shuffling, and the
\* choice is random.
LeaseScan(x, n) ==
  /\ Admitted(x)
  /\ \E i \in AvailableSlots(n) : found' = [found EXCEPT ![x] = i]
  /\ UNCHANGED <<g_pool, g_pool_size, g_pool_initialized, mapped, view, content,
                 ptr, active_slots>>

\* The element chosen, by whatever it holds now, is marked and unlocked.
LeaseTake(x) ==
  LET r == g_pool[found[x]].region IN
  /\ g_pool' = [g_pool EXCEPT ![found[x]].in_use = TRUE]
  /\ view' = Show(r, "write")
  /\ ptr' = [ptr EXCEPT ![x] = r]
  /\ found' = [found EXCEPT ![x] = 0]
  /\ UNCHANGED <<g_pool_size, g_pool_initialized, mapped, content, active_slots>>

\* Nothing is available: a page is allocated for this call.
LeaseDynamic(x, n) ==
  /\ Admitted(x)
  /\ AvailableSlots(n) = {}
  /\ \E r \in Regions \ mapped :
       /\ mapped' = mapped \cup {r}
       /\ view' = [view EXCEPT ![r] = "write"]
       /\ content' = [content EXCEPT ![r] = Nothing]
       /\ ptr' = [ptr EXCEPT ![x] = r]
  /\ UNCHANGED <<g_pool, g_pool_size, g_pool_initialized, found, active_slots>>

\* Neither a slot nor a page: NULL.
LeaseFails(x, n) ==
  /\ Admitted(x)
  /\ AvailableSlots(n) = {} /\ mapped = Regions
  /\ UNCHANGED nativeVars

-----------------------------------------------------------------------------
\* The element of the vector with this pointer, if the functions look for it.
SlotOf(r) ==
  IF g_pool_initialized THEN {i \in Elements : g_pool[i].region = r} ELSE {}

\* pal_get_read_view: the write view is closed and the read view opened.  A
\* dynamic page has only the one view.
PoolGetReadView(x) ==
  /\ Admitted(x)
  /\ view' = IF SlotOf(ptr[x]) # {} THEN Show(ptr[x], "read") ELSE view
  /\ UNCHANGED <<g_pool, g_pool_size, g_pool_initialized, mapped, content, found,
                 ptr, active_slots>>

\* Mutant of WipeRegion: the zeroing is optimised away.
WipeNoRegion(r) == content' = content

WipeRegion(r) == content' = [content EXCEPT ![r] = Nothing]

\* pal_release_secure_slot: the slot is wiped and closed, a dynamic page
\* wiped and unmapped.  The zeroing touches the memory: it must be mapped.
PoolRelease(x) ==
  LET r == ptr[x] IN
  /\ Admitted(x)
  /\ r \in mapped
  /\ WipeRegion(r)
  /\ view' = [view EXCEPT ![r] = "none"]
  /\ IF SlotOf(r) # {}
     THEN /\ g_pool' = [i \in 1..NumSlots |->
                          IF i \in SlotOf(r) THEN [g_pool[i] EXCEPT !.in_use = FALSE]
                          ELSE g_pool[i]]
          /\ UNCHANGED mapped
     ELSE /\ mapped' = mapped \ {r}
          /\ UNCHANGED g_pool
  /\ ptr' = [ptr EXCEPT ![x] = Nothing]
  /\ UNCHANGED <<g_pool_size, g_pool_initialized, found, active_slots>>

-----------------------------------------------------------------------------
(* pal_compact_pool.                                                       *)

\* Mutant of IdleSlots: every slot is released to the operating system.
AllSlots == Elements

IdleSlots == {i \in Elements : ~g_pool[i].in_use}

\* The scan: slots in use are copied to active_slots in the order that they
\* have in the vector (position), the others unmapped.
CompactScan(x) ==
  LET gone == SlotRegions(IdleSlots)
      used == {i \in Elements : g_pool[i].in_use}
      ranks == 1..Cardinality(used)
  IN
  /\ Admitted(x)
  /\ \E position \in [ranks -> used] :
       /\ \A j, k \in ranks : j < k => position[j] < position[k]
       /\ active_slots' = [active_slots EXCEPT ![x] = [j \in ranks |-> g_pool[position[j]]]]
  /\ mapped' = mapped \ gone
  /\ view' = [r \in Regions |-> IF r \in gone THEN "none" ELSE view[r]]
  /\ content' = [r \in Regions |-> IF r \in gone THEN Nothing ELSE content[r]]
  /\ UNCHANGED <<g_pool, g_pool_size, g_pool_initialized, found, ptr>>

\* The assignment: the elements are copied over the storage the vector has;
\* what was behind them stays where it is.
CompactAssign(x) ==
  LET kept == active_slots[x] IN
  /\ g_pool' = [i \in 1..NumSlots |-> IF i <= Len(kept) THEN kept[i] ELSE g_pool[i]]
  /\ g_pool_size' = Len(kept)
  /\ g_pool_initialized' = (g_pool_initialized /\ kept # <<>>)
  /\ active_slots' = [active_slots EXCEPT ![x] = Nothing]
  /\ UNCHANGED <<mapped, view, content, found, ptr>>
==============================================================================
