-------------------------- MODULE VajraaMemoryPool --------------------------
(***************************************************************************)
(* The slot pool of the PyTorch wrapper: VajraaMemorySlot and              *)
(* VajraaMemoryPool of python/vajraa/pytorch_wrapper.py.                   *)
(*                                                                         *)
(* A client is one buffer that one forward pass wants: it leases a slot,   *)
(* decrypts into its write view, moves the plaintext to its read view,     *)
(* computes, and releases the slot.  The pool's lock makes each "with      *)
(* self.lock" block one step.  What lies between two blocks of lease_slot, *)
(* and every use of a leased slot, runs outside the lock: each is a step   *)
(* of its own, open to the other clients, to the compaction timer and to   *)
(* shutdown.                                                               *)
(***************************************************************************)
EXTENDS Naturals, FiniteSets

CONSTANTS
  Clients,           \* the lease requests that can be under way at once
  NumSlots,          \* how many slots initialize() appends
  SlotSize,          \* the size of each, in the order of the list
  RequestSizes,      \* the sizes of the encrypted parameters
  UseShuffling,      \* VajraaConfig.use_shuffling
  UseDoubleMapping,  \* VajraaConfig.use_double_mapping
  LazyInit,          \* VajraaConfig.lazy_init
  IdleTimeout,       \* VajraaConfig.idle_timeout > 0
  MaxElapsed         \* bound: timers that fired and wait for the lock

Slots == 1..NumSlots
NoSlot == 0

\* metadata["max_layer_size_bytes"] is the largest parameter and sizes the
\* slots, so that every parameter fits into some slot.
ASSUME PoolAssumption ==
  /\ NumSlots \in Nat
  /\ SlotSize \in [Slots -> Nat]
  /\ RequestSizes \subseteq Nat
  /\ NumSlots > 0 => \A n \in RequestSizes : \E s \in Slots : SlotSize[s] >= n
  /\ UseShuffling \in BOOLEAN /\ UseDoubleMapping \in BOOLEAN
  /\ LazyInit \in BOOLEAN /\ IdleTimeout \in BOOLEAN
  /\ MaxElapsed \in Nat

\* The pages behind a slot: two separate allocations under double mapping,
\* one otherwise.
ViewNames == IF UseDoubleMapping THEN {"write", "read"} ELSE {"ptr"}
Pages == Slots \X ViewNames
PagesOf(s) == {s} \X ViewNames
WriteView(s) == <<s, IF UseDoubleMapping THEN "write" ELSE "ptr">>
ReadView(s) == <<s, IF UseDoubleMapping THEN "read" ELSE "ptr">>

VARIABLES
  slots,             \* self.slots: the slots of the list
  in_use,            \* slot.in_use of each slot
  is_initialized,    \* self.is_initialized
  compaction_timer,  \* a compaction timer is counting
  elapsed,           \* timers that fired and whose compact() has not run yet
  prot,              \* the protection of each page
  plain,             \* the pages that hold a plaintext
  pc,                \* where each client is
  want,              \* required_size of the client's lease_slot call
  held               \* the slot lease_slot returned to the client

poolVars == <<slots, in_use, is_initialized, compaction_timer, elapsed>>
pageVars == <<prot, plain>>
clientVars == <<pc, want, held>>
vars == <<poolVars, pageVars, clientVars>>

Phases == {"idle", "check", "initialize", "pick", "leased", "writable",
           "decrypted", "copy", "lock", "executing", "release"}

TypeOK ==
  /\ slots \subseteq Slots
  /\ in_use \in [Slots -> BOOLEAN]
  /\ is_initialized \in BOOLEAN
  /\ compaction_timer \in BOOLEAN
  /\ elapsed \in 0..MaxElapsed
  /\ prot \in [Pages -> {"unmapped", "noaccess", "readwrite"}]
  /\ plain \subseteq Pages
  /\ pc \in [Clients -> Phases]
  /\ want \in [Clients -> RequestSizes]
  /\ held \in [Clients -> Slots \cup {NoSlot}]

\* pal_unlock, pal_lock, pal_alloc_secure, pal_free_secure on a set of pages.
Protect(S, p) == [x \in Pages |-> IF x \in S THEN p ELSE prot[x]]

AllPagesOf(S) == UNION {PagesOf(s) : s \in S}

MoveTo(c, phase) == pc' = [pc EXCEPT ![c] = phase]

\* secure_wrap_model builds the pool and, unless lazy_init is set,
\* initializes it at once.
Init ==
  /\ is_initialized = ~LazyInit
  /\ slots = IF LazyInit THEN {} ELSE Slots
  /\ in_use = [s \in Slots |-> FALSE]
  /\ compaction_timer = FALSE
  /\ elapsed = 0
  /\ prot = [p \in Pages |-> IF LazyInit THEN "unmapped" ELSE "noaccess"]
  /\ plain = {}
  /\ pc = [c \in Clients |-> "idle"]
  /\ want \in [Clients -> RequestSizes]
  /\ held = [c \in Clients |-> NoSlot]

-----------------------------------------------------------------------------
(* lease_slot: three sections, each atomic by itself.                      *)

\* The first block cancels the pending timer.  A timer that has fired already
\* is past cancelling: its compact() still comes.
BeginLease(c, n) ==
  /\ pc[c] = "idle"
  /\ want' = [want EXCEPT ![c] = n]
  /\ compaction_timer' = FALSE
  /\ MoveTo(c, "check")
  /\ UNCHANGED <<slots, in_use, is_initialized, elapsed, pageVars, held>>

\* "if not self.is_initialized" is read without the lock.
CheckInitialized(c) ==
  /\ pc[c] = "check"
  /\ MoveTo(c, IF is_initialized THEN "pick" ELSE "initialize")
  /\ UNCHANGED <<poolVars, pageVars, want, held>>

\* Mutant of NeedsInitialize: initialize() without its second check.
NeedsInitializeUnchecked == TRUE

NeedsInitialize == ~is_initialized

\* initialize(): whoever comes second finds the flag set and returns.
Initialize(c) ==
  /\ pc[c] = "initialize"
  /\ MoveTo(c, "pick")
  /\ IF NeedsInitialize
     THEN /\ slots' = Slots
          /\ in_use' = [s \in Slots |-> FALSE]
          /\ is_initialized' = TRUE
          /\ prot' = Protect(Pages, "noaccess")
     ELSE UNCHANGED <<slots, in_use, is_initialized, prot>>
  /\ UNCHANGED <<compaction_timer, elapsed, plain, want, held>>

\* Mutant of Available: "not s.in_use" is forgotten.
AvailableInUse(n) == {s \in slots : SlotSize[s] >= n}

Available(n) == {s \in slots : ~in_use[s] /\ SlotSize[s] >= n}

\* random.choice(available), or available[0] in a program that uses the pool
\* on its own: secure_wrap_model makes a pool only with use_shuffling.
Candidates(n) ==
  IF UseShuffling
  THEN Available(n)
  ELSE {s \in Available(n) : \A r \in Available(n) : s <= r}

\* The last block: a slot is found and marked.
PickSlot(c, s) ==
  /\ pc[c] = "pick"
  /\ s \in Candidates(want[c])
  /\ in_use' = [in_use EXCEPT ![s] = TRUE]
  /\ held' = [held EXCEPT ![c] = s]
  /\ MoveTo(c, "leased")
  /\ UNCHANGED <<slots, is_initialized, compaction_timer, elapsed, pageVars, want>>

\* The last block: nothing fits, lease_slot returns None and the caller goes
\* on with pages of its own.
RefuseSlot(c) ==
  /\ pc[c] = "pick"
  /\ Available(want[c]) = {}
  /\ MoveTo(c, "idle")
  /\ UNCHANGED <<poolVars, pageVars, want, held>>

-----------------------------------------------------------------------------
(* The holder's use of the slot, outside the pool's lock.                  *)

\* slot.get_write_ptr()
GetWritePtr(c) ==
  /\ pc[c] = "leased"
  /\ prot' = Protect({WriteView(held[c])}, "readwrite")
  /\ MoveTo(c, "writable")
  /\ UNCHANGED <<poolVars, plain, want, held>>

\* pal_decrypt_gcm writes the plaintext to the write view ...
Decrypt(c) ==
  /\ pc[c] = "writable"
  /\ plain' = plain \cup {WriteView(held[c])}
  /\ MoveTo(c, "decrypted")
  /\ UNCHANGED <<poolVars, prot, want, held>>

\* ... or fails, before or after it wrote: the hook releases the slot.
DecryptFails(c) ==
  /\ pc[c] = "writable"
  /\ plain' \in {plain, plain \cup {WriteView(held[c])}}
  /\ MoveTo(c, "release")
  /\ UNCHANGED <<poolVars, prot, want, held>>

\* Mutant of UnlockReadView: the copy that follows meets a locked read view.
UnlockReadViewForgotten(c) ==
  /\ pc[c] = "decrypted"
  /\ UseDoubleMapping
  /\ MoveTo(c, "copy")
  /\ UNCHANGED <<poolVars, pageVars, want, held>>

\* slot.get_read_view(), step by step: unlock the read view,
UnlockReadView(c) ==
  /\ pc[c] = "decrypted"
  /\ UseDoubleMapping
  /\ prot' = Protect({ReadView(held[c])}, "readwrite")
  /\ MoveTo(c, "copy")
  /\ UNCHANGED <<poolVars, plain, want, held>>

\* copy the plaintext to it,
CopyToReadView(c) ==
  /\ pc[c] = "copy"
  /\ plain' = plain \cup {ReadView(held[c])}
  /\ MoveTo(c, "lock")
  /\ UNCHANGED <<poolVars, prot, want, held>>

\* Mutant of LockWriteView: the write view stays open.
LockWriteViewForgotten(c) ==
  /\ pc[c] = "lock"
  /\ MoveTo(c, "executing")
  /\ UNCHANGED <<poolVars, pageVars, want, held>>

\* and lock the write view.
LockWriteView(c) ==
  /\ pc[c] = "lock"
  /\ prot' = Protect({WriteView(held[c])}, "noaccess")
  /\ MoveTo(c, "executing")
  /\ UNCHANGED <<poolVars, plain, want, held>>

\* Without double mapping get_read_view() just returns the pointer.
KeepSingleView(c) ==
  /\ pc[c] = "decrypted"
  /\ ~UseDoubleMapping
  /\ MoveTo(c, "executing")
  /\ UNCHANGED <<poolVars, pageVars, want, held>>

\* Mutant of WipedPages: the read view is forgotten.
WipedWritePageOnly(s) == {WriteView(s)}

\* slot.zero_wipe(): both views are unlocked, zeroed and locked again; a
\* pointer that free() cleared is skipped.
WipedPages(s) == {p \in PagesOf(s) : prot[p] # "unmapped"}

\* Mutant of ScheduleCompaction: release_slot does not schedule.
ScheduleNothing == compaction_timer' = compaction_timer

\* schedule_compaction(): the old timer is cancelled, a new one starts.
ScheduleCompaction == compaction_timer' = IF IdleTimeout THEN TRUE ELSE compaction_timer

\* release_slot(slot), one locked block.
ReleaseSlot(c) ==
  /\ pc[c] \in {"executing", "release"}
  /\ prot' = Protect(WipedPages(held[c]), "noaccess")
  /\ plain' = plain \ WipedPages(held[c])
  /\ in_use' = [in_use EXCEPT ![held[c]] = FALSE]
  /\ ScheduleCompaction
  /\ held' = [held EXCEPT ![c] = NoSlot]
  /\ MoveTo(c, "idle")
  /\ UNCHANGED <<slots, is_initialized, elapsed, want>>

-----------------------------------------------------------------------------
(* The compaction timer's thread, and shutdown.                            *)

\* idle_timeout seconds have passed: the timer thread goes for the lock.
TimerFires ==
  /\ compaction_timer
  /\ elapsed < MaxElapsed
  /\ compaction_timer' = FALSE
  /\ elapsed' = elapsed + 1
  /\ UNCHANGED <<slots, in_use, is_initialized, pageVars, clientVars>>

\* Mutant of MayCompact: "all slots are idle" is not checked.
MayCompactAnytime == is_initialized

MayCompact == is_initialized /\ \A s \in slots : ~in_use[s]

\* slot.free() of every slot of the list.
FreeSlots ==
  /\ prot' = Protect(AllPagesOf(slots), "unmapped")
  /\ plain' = plain \ AllPagesOf(slots)
  /\ slots' = {}

\* compact(), one locked block of a timer thread.
Compact ==
  /\ elapsed > 0
  /\ elapsed' = elapsed - 1
  /\ IF MayCompact
     THEN FreeSlots /\ is_initialized' = FALSE
     ELSE UNCHANGED <<slots, is_initialized, pageVars>>
  /\ UNCHANGED <<in_use, compaction_timer, clientVars>>

\* shutdown() frees every slot and leaves is_initialized alone.  It is for
\* "tearing down the model": its caller sees to it that no forward pass holds
\* a slot; a pass may still be inside lease_slot.
Shutdown ==
  /\ \A c \in Clients : held[c] = NoSlot
  /\ compaction_timer' = FALSE
  /\ FreeSlots
  /\ UNCHANGED <<in_use, is_initialized, elapsed, clientVars>>

-----------------------------------------------------------------------------
Lease(c) ==
  \/ CheckInitialized(c)
  \/ Initialize(c)
  \/ \E s \in Slots : PickSlot(c, s)
  \/ RefuseSlot(c)

Use(c) ==
  \/ GetWritePtr(c)
  \/ Decrypt(c)
  \/ DecryptFails(c)
  \/ UnlockReadView(c)
  \/ CopyToReadView(c)
  \/ LockWriteView(c)
  \/ KeepSingleView(c)
  \/ ReleaseSlot(c)

Next ==
  \/ \E c \in Clients :
       \/ \E n \in RequestSizes : BeginLease(c, n)
       \/ Lease(c)
       \/ Use(c)
  \/ TimerFires
  \/ Compact
  \/ Shutdown

Spec == Init /\ [][Next]_vars

(***************************************************************************)
(* Fairness: a client inside lease_slot or between lease and release keeps *)
(* running (the wrapped forward pass terminates), and a started timer      *)
(* thread fires and gets the lock.  No forward pass has to begin, and      *)
(* nobody has to call shutdown.                                            *)
(***************************************************************************)
Fairness ==
  /\ \A c \in Clients : WF_vars(Lease(c)) /\ WF_vars(Use(c))
  /\ WF_vars(TimerFires)
  /\ WF_vars(Compact)

FairSpec == Spec /\ Fairness

-----------------------------------------------------------------------------
(* Safety.                                                                 *)

\* A slot is leased to one client at a time, and slot.in_use says exactly
\* whether it is: no lease is lost and none survives its release.
LeasesAreAccounted ==
  /\ \A c, d \in Clients : held[c] = held[d] /\ held[c] # NoSlot => c = d
  /\ \A s \in Slots : in_use[s] <=> \E c \in Clients : held[c] = s

\* Neither compact() nor shutdown() nor a second initialize() ever takes the
\* pages of a leased slot away, and no page outlives its place in the list.
PagesFollowTheList ==
  /\ \A c \in Clients : held[c] # NoSlot => held[c] \in slots
  /\ \A s \in Slots : \A p \in PagesOf(s) : s \in slots <=> prot[p] # "unmapped"

\* Between two leases a slot is wiped and neither of its views can be
\* accessed.
IdleSlotIsSealed ==
  \A s \in slots : ~in_use[s] =>
    \A p \in PagesOf(s) : prot[p] = "noaccess" /\ p \notin plain

\* While the layer computes, its plaintext is behind the read view, which can
\* be read, and the view it was decrypted through is locked, whatever the
\* other clients do.  (That the read view can be written as well is the
\* subject of ReadViewIsReadOnly.)
WriteViewLockedInExecution ==
  \A c \in Clients : pc[c] = "executing" =>
    /\ ReadView(held[c]) \in plain
    /\ prot[ReadView(held[c])] \notin {"unmapped", "noaccess"}
    /\ UseDoubleMapping => prot[WriteView(held[c])] = "noaccess"

\* No page goes back to the operating system with a plaintext in it.
FreedPagesWereWiped ==
  [][\A p \in Pages :
       prot[p] # "unmapped" /\ prot'[p] = "unmapped" => p \notin plain]_vars

\* The pool implements the lease protocol that its callers rely on.
SlotLease == INSTANCE SlotLease WITH
  mapped <- slots,
  lease <- [c \in Clients |-> {held[c]} \ {NoSlot}],
  secret <- {s \in Slots : PagesOf(s) \cap plain # {}}

ImplementsSlotLease == SlotLease!LeaseSpec

-----------------------------------------------------------------------------
(* What a document says of the pool and the code does not do.              *)

\* docs/python-api.html, get_read_view(): "unlocks read to READONLY".  The
\* code unlocks the read view for the copy, reading and writing, and leaves
\* it so while the layer computes.  PoolReadView.cfg refutes it.
ReadViewIsReadOnly ==
  \A c \in Clients : pc[c] = "executing" /\ UseDoubleMapping =>
    prot[ReadView(held[c])] # "readwrite"

-----------------------------------------------------------------------------
(* Liveness.                                                               *)

Quiet == \A c \in Clients : pc[c] = "idle"

\* docs/memory-security.html: "If no inference occurs for idle_timeout
\* seconds, compact() fires".  Once the forward passes have stopped, the
\* pool gives its pages back for good.  This is checked of a pool that its first
\* lease initializes.  A pool that was initialized when the model was wrapped,
\* and never used, is not compacted: only release_slot starts a timer.
IdlePoolIsCompacted == <>[]Quiet => <>[](slots = {})
==============================================================================
