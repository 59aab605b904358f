--------------------- MODULE SecureONNXSessionInvariant ---------------------
(***************************************************************************)
(* The inductive invariants of SecureONNXSession, checked by TLC and       *)
(* proved in SecureONNXSessionProofs: IInv of a program whose calls of the *)
(* pool do not overlap and that opens its sessions one at a time,          *)
(* PrivatePagesInv of any program that uses no pool, which is what         *)
(* VajraaConfig() asks for.                                                *)
(***************************************************************************)
EXTENDS SecureONNXSession

\* A thread is inside a lease between its two steps, a session inside a
\* compaction while it holds its lock; nobody else is inside the pool then.
InsidersAreInPhase ==
  /\ \A t \in Threads : found[t] # 0 <=> pc[t] = "take"
  /\ \A s \in Sessions : active_slots[s] # Nothing <=> lock[s]
  /\ \A t \in Threads : active_slots[t] = Nothing
  /\ \A s \in Sessions : found[s] = 0
  /\ \A x, y \in Callers : InsidePool(x) /\ InsidePool(y) => x = y

\* The element that a lease has chosen is still there and still free.
FoundIsFree ==
  \A t \in Threads : found[t] # 0 =>
    found[t] \in Elements /\ ~g_pool[found[t]].in_use

\* A thread has a pointer exactly while it computes, and its own.
PointersAreExclusive ==
  /\ \A t \in Threads : ptr[t] # Nothing <=> Computing(t)
  /\ \A s \in Sessions : ptr[s] = Nothing
  /\ \A t, u \in Threads : ptr[t] = ptr[u] /\ ptr[t] # Nothing => t = u

\* The elements of the vector are distinct regions, and exist only while
\* g_pool_initialized says so.
ElementsAreRegions ==
  /\ \A i \in Elements : g_pool[i].region \in Regions
  /\ \A i, j \in Elements : g_pool[i].region = g_pool[j].region => i = j
  /\ Elements # {} => g_pool_initialized

Compacting == \E s \in Sessions : lock[s]

\* What is mapped is the pool, without the idle slots while a compaction is
\* under way, and the dynamic pages.
MappedIsAccounted ==
  mapped = SlotRegions(IF Compacting THEN Elements \ IdleSlots ELSE Elements)
             \cup {ptr[t] : t \in {u \in Threads : Computing(u)}}

\* A compaction carries every slot in use, once.
CarriedSlots(kept) ==
  /\ kept \in Seq(SlotRecord) /\ Len(kept) <= g_pool_size
  /\ \A j \in DOMAIN kept : kept[j].in_use /\ \E i \in Elements : g_pool[i] = kept[j]
  /\ \A i \in Elements : g_pool[i].in_use => \E j \in DOMAIN kept : g_pool[i] = kept[j]
  /\ \A j, k \in DOMAIN kept : kept[j].region = kept[k].region => j = k

CompactionCarriesTheSlotsInUse ==
  \A s \in Sessions : lock[s] => CarriedSlots(active_slots[s])

\* A region is open, or holds a plaintext, only under a thread that computes;
\* and from its decryption on the thread's region is open.
OpenUnderAPointer ==
  /\ \A r \in Regions : view[r] # "none" \/ content[r] # Nothing =>
       \E t \in Threads : ptr[t] = r
  /\ \A t \in Threads : pc[t] \in {"view", "output", "compute"} => view[ptr[t]] # "none"

\* A session is opened while no thread runs another one.
OpensAlone ==
  \A t \in Threads : pc[t] \in {"mask", "configure"} =>
    \A u \in Threads \ {t} : pc[u] = "idle"

\* A thread computes a node that it has still to count.
NodeIsCounted ==
  \A t \in Threads : pc[t] \in {"lease", "take"} \/ Computing(t) => todo[t] > 0

\* What pool, kernels and sessions keep as long as nobody overlaps.
PoolInv ==
  /\ TypeOK
  /\ InsidersAreInPhase
  /\ FoundIsFree
  /\ PointersAreExclusive
  /\ ElementsAreRegions
  /\ SlotsAreAccounted
  /\ MappedIsAccounted
  /\ CompactionCarriesTheSlotsInUse
  /\ OpenUnderAPointer
  /\ OpensAlone
  /\ NodeIsCounted
  /\ ComputeReadsOwnWeights

\* Without an idle_timeout no timer is ever started.
TimersNeedATimeout ==
  ~IdleTimeout =>
    \A s \in Sessions : ~compaction_timer[s] /\ ~elapsed[s] /\ ~lock[s]

IInv == PoolInv /\ TimersNeedATimeout

-----------------------------------------------------------------------------
(* A process without a pool: no session asks for one (use_shuffling is     *)
(* FALSE, as VajraaConfig() has it), or none is allowed one.               *)

NoPool == \A s \in Sessions : ~UsePool[s]

\* Nothing is ever in the list, and so nothing that two callers could share.
NothingIsPooled ==
  /\ g_pool_size = 0
  /\ \A x \in Callers : found[x] = 0
  /\ \A x \in Callers : active_slots[x] \in {Nothing, <<>>}
  /\ \A s \in Sessions : lock[s] => active_slots[s] = <<>>

\* A kernel has a page of its own while it computes, its own weights in it,
\* and there is no other page.
PagesArePrivate ==
  /\ PointersAreExclusive
  /\ mapped = {ptr[t] : t \in {u \in Threads : Computing(u)}}
  /\ OpenUnderAPointer
  /\ ComputeReadsOwnWeights

PrivatePagesInv ==
  /\ TypeOK
  /\ NothingIsPooled
  /\ \A t \in Threads : pc[t] # "take"
  /\ PagesArePrivate
  /\ NodeIsCounted
==============================================================================
