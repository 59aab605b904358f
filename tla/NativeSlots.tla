---------------------------- MODULE NativeSlots ----------------------------
(***************************************************************************)
(* pal_configure_pool of Linux, macOS and Windows, call by call of the     *)
(* operating system: which slots the native pool is built of, and what is  *)
(* given back when a slot cannot be created.  Module NativePool has what   *)
(* becomes of the slots afterwards.  Sizes are in MB.                      *)
(***************************************************************************)
EXTENDS FiniteSetsExt, Sizes

CONSTANTS
  System,        \* platforms of the build
  Requests,      \* the arguments of pal_configure_pool
  MaxConfigures  \* calls of pal_configure_pool

\* The arguments of pal_configure_pool are unsigned.
ASSUME SlotsAssumption ==
  /\ Requests \subseteq [use_shuffling : BOOLEAN, use_tiered : BOOLEAN, use_hybrid : BOOLEAN,
                         max_layer_size : Nat, capped_size : Nat, avail_ram : Nat]
  /\ MaxConfigures \in Nat

VARIABLES
  system,        \* the platform
  request,       \* the arguments of the last call
  g_pool,        \* sizes of the slots
  to_create,     \* sizes of the slots that are still to be created
  slot,          \* the slot in creation: its size, and what it has so far
  g_pool_initialized,
  objects,       \* open descriptors (fd) or mapping handles
  views,         \* mapped views
  failed,        \* a call of the operating system has failed
  configures

slotVars == <<system, request, g_pool, to_create, slot, g_pool_initialized,
              objects, views, failed, configures>>

SmallSlot == 4
MediumSlot == 32
DwordLimit == 4096   \* 2^32 bytes
NoSlot == [size |-> 0, stage |-> "none", write |-> FALSE, read |-> FALSE]

SlotsInit ==
  /\ system \in System
  /\ request = [use_shuffling |-> FALSE]
  /\ g_pool = <<>> /\ to_create = <<>> /\ slot = NoSlot
  /\ g_pool_initialized = FALSE
  /\ objects = 0 /\ views = 0
  /\ failed = FALSE /\ configures = 0

PoolCost(r) ==
  IF r.use_tiered THEN 3 * SmallSlot + 2 * MediumSlot + 2 * r.max_layer_size
  ELSE 4 * r.max_layer_size

\* Hybrid mode: no pool for a layer above the cap, and none that costs more
\* than 20% of the memory.
UsePool(r) ==
  /\ r.use_shuffling
  /\ r.use_hybrid => /\ r.max_layer_size <= r.capped_size
                     /\ 5 * PoolCost(r) <= r.avail_ram

\* Mutant of SlotSizes: the large slots are of the size of the largest
\* layer less one.
SmallerSlotSizes(r) ==
  IF r.use_tiered
  THEN <<SmallSlot, SmallSlot, SmallSlot, MediumSlot, MediumSlot>>
         \o <<r.max_layer_size - 1, r.max_layer_size - 1>>
  ELSE [i \in 1..4 |-> r.max_layer_size]

\* The slots of the three tiers, or four equal ones.
SlotSizes(r) ==
  LET large == Max({r.max_layer_size, MediumSlot}) IN
  IF r.use_tiered
  THEN <<SmallSlot, SmallSlot, SmallSlot, MediumSlot, MediumSlot, large, large>>
  ELSE [i \in 1..4 |-> r.max_layer_size]

\* Nothing is being created.
Quiet == to_create = <<>> /\ slot = NoSlot

\* The old pool is unmapped, whatever its slots are used for.
Configure(r) ==
  /\ Quiet /\ configures < MaxConfigures
  /\ configures' = configures + 1
  /\ request' = r
  /\ objects' = objects - Len(g_pool)
  /\ views' = views - 2 * Len(g_pool)
  /\ g_pool' = <<>>
  /\ g_pool_initialized' = FALSE
  /\ to_create' = IF UsePool(r) /\ r.max_layer_size > 0 THEN SlotSizes(r) ELSE <<>>
  /\ failed' = FALSE
  /\ UNCHANGED <<system, slot>>

\* Mutant of NextSlot: the pool is initialized with its first slot.
NextSlotInitializes == to_create' = Tail(to_create) /\ g_pool_initialized' = TRUE

\* The loop goes on to the next slot, or is over.
NextSlot == to_create' = Tail(to_create) /\ g_pool_initialized' = (Len(to_create) = 1)

GivesUp ==
  /\ failed' = TRUE
  /\ NextSlot
  /\ UNCHANGED <<system, request, g_pool, slot, objects, views, configures>>

Creates ==
  /\ objects' = objects + 1
  /\ slot' = [size |-> Head(to_create), stage |-> "object", write |-> FALSE, read |-> FALSE]
  /\ UNCHANGED <<system, request, g_pool, to_create, g_pool_initialized, views, failed, configures>>

\* shm_open, shm_unlink and ftruncate.  A descriptor whose size cannot be
\* set is closed.
CreateObjectLinux ==
  /\ system = "linux" /\ to_create # <<>> /\ slot = NoSlot
  /\ Creates \/ GivesUp

CreateObjectMacos ==
  /\ system = "macos" /\ to_create # <<>> /\ slot = NoSlot
  /\ Creates \/ GivesUp

\* CreateFileMapping takes the lower 32 bits of the size, and fails for 0.
CreateObjectWindows ==
  /\ system = "windows" /\ to_create # <<>> /\ slot = NoSlot
  /\ \/ Head(to_create) % DwordLimit # 0 /\ Creates
     \/ GivesUp

\* Two views of the object; each may fail.  A view of Windows is not larger
\* than the object.
MapViews ==
  /\ slot.stage = "object"
  /\ \E w, r \in BOOLEAN :
       /\ system = "windows" /\ slot.size >= DwordLimit => ~w /\ ~r
       /\ slot' = [slot EXCEPT !.stage = "views", !.write = w, !.read = r]
       /\ views' = views + (IF w THEN 1 ELSE 0) + (IF r THEN 1 ELSE 0)
       /\ failed' = (failed \/ ~w \/ ~r)
  /\ UNCHANGED <<system, request, g_pool, to_create, g_pool_initialized, objects, configures>>

KeepSlot ==
  /\ slot.stage = "views" /\ slot.write /\ slot.read
  /\ g_pool' = Append(g_pool, slot.size)
  /\ slot' = NoSlot
  /\ NextSlot
  /\ UNCHANGED <<system, request, objects, views, failed, configures>>

\* Mutant of DiscardSlotWindows: the handle stays open.
DiscardSlotButKeepHandle ==
  /\ system = "windows"
  /\ slot.stage = "views" /\ ~(slot.write /\ slot.read)
  /\ views' = views - (IF slot.write \/ slot.read THEN 1 ELSE 0)
  /\ slot' = NoSlot
  /\ NextSlot
  /\ UNCHANGED <<system, request, g_pool, objects, failed, configures>>

\* The view that was mapped is unmapped, the object closed.  The loop goes
\* on, and the caller is not told.
DiscardSlot ==
  /\ slot.stage = "views" /\ ~(slot.write /\ slot.read)
  /\ objects' = objects - 1
  /\ views' = views - (IF slot.write \/ slot.read THEN 1 ELSE 0)
  /\ slot' = NoSlot
  /\ NextSlot
  /\ UNCHANGED <<system, request, g_pool, failed, configures>>

DiscardSlotLinux == system = "linux" /\ DiscardSlot
DiscardSlotMacos == system = "macos" /\ DiscardSlot
DiscardSlotWindows == system = "windows" /\ DiscardSlot

CreateSlotLinux == CreateObjectLinux \/ DiscardSlotLinux
CreateSlotMacos == CreateObjectMacos \/ DiscardSlotMacos
CreateSlotWindows == CreateObjectWindows \/ DiscardSlotWindows

SlotsNext ==
  \/ \E r \in Requests : Configure(r)
  \/ CreateSlotLinux \/ CreateSlotMacos \/ CreateSlotWindows
  \/ MapViews \/ KeepSlot

-----------------------------------------------------------------------------
SlotsTypeOK ==
  /\ system \in System
  /\ g_pool \in Seq(Nat) /\ Len(g_pool) + Len(to_create) <= 7
  /\ objects \in Nat /\ views \in Nat
  /\ slot # NoSlot => to_create # <<>> /\ slot.size = Head(to_create)
  /\ g_pool_initialized => Quiet
  /\ failed \in BOOLEAN /\ configures \in 0..MaxConfigures

\* In hybrid mode a pool takes no more than 20% of the memory, or there is
\* none: what docs/cpp-api.html says of pal_configure_pool.  pool_cost does
\* not count that the two large slots of a tiered pool have 32 MB at least.
PoolStaysWithinItsBudget ==
  g_pool # <<>> /\ request.use_hybrid => 5 * Total(g_pool) <= request.avail_ram

\* If nothing fails, a pool has room for two layers of the largest size at
\* a time, whatever tiers it has.
PoolHoldsTheLargestLayerTwice ==
  g_pool_initialized /\ ~failed =>
    Cardinality({i \in DOMAIN g_pool : g_pool[i] >= request.max_layer_size}) >= 2
=============================================================================
