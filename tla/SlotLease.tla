------------------------------ MODULE SlotLease ------------------------------
(***************************************************************************)
(* What every secure memory pool of Vajraa promises to its callers,        *)
(* whatever the language it is written in: a slot of locked memory is      *)
(* leased to at most one caller at a time, it exists for as long as the    *)
(* lease lasts, and a plaintext weight is in it only during a lease.       *)
(*                                                                         *)
(* The pool of the PyTorch wrapper (VajraaMemoryPool) and the pool of the  *)
(* platform layer (NativePool) are shown to implement this specification,  *)
(* and the forward hooks (ForwardHooks) are built on top of it.            *)
(***************************************************************************)
EXTENDS Naturals, FiniteSets

CONSTANTS
  Clients,   \* what a slot is leased for: one buffer of one forward pass
  Slots      \* the slots the pool can hold

VARIABLES
  mapped,    \* the slots whose pages exist
  lease,     \* the slots each client holds
  secret     \* the slots that hold a plaintext

leaseVars == <<mapped, lease, secret>>

LeaseTypeOK ==
  /\ mapped \subseteq Slots
  /\ lease \in [Clients -> SUBSET Slots]
  /\ secret \subseteq Slots

Held == UNION {lease[c] : c \in Clients}

LeaseInit ==
  /\ mapped \in {{}, Slots}
  /\ lease = [c \in Clients |-> {}]
  /\ secret = {}

\* The pool allocates slots.
Map(S) ==
  /\ S \subseteq Slots \ mapped
  /\ mapped' = mapped \cup S
  /\ UNCHANGED <<lease, secret>>

\* The pool returns idle slots to the operating system.
Unmap(S) ==
  /\ S \subseteq mapped \ Held
  /\ mapped' = mapped \ S
  /\ UNCHANGED <<lease, secret>>

\* A pool that nobody holds a slot of is replaced by another one.
Rebuild(S) ==
  /\ Held = {}
  /\ mapped' = S
  /\ UNCHANGED <<lease, secret>>

\* The pool leases the slot s to the client c.
Grant(c, s) ==
  /\ s \in mapped \ Held
  /\ lease' = [lease EXCEPT ![c] = @ \cup {s}]
  /\ UNCHANGED <<mapped, secret>>

\* The client decrypts into a slot that it holds.
Fill(c, s) ==
  /\ s \in lease[c]
  /\ secret' = secret \cup {s}
  /\ UNCHANGED <<mapped, lease>>

\* The client zeroes the plaintext before it returns the slot.
Erase(c, s) ==
  /\ s \in lease[c]
  /\ secret' = secret \ {s}
  /\ UNCHANGED <<mapped, lease>>

\* The client returns the slot: the pool wipes it.
Return(c, s) ==
  /\ s \in lease[c]
  /\ lease' = [lease EXCEPT ![c] = @ \ {s}]
  /\ secret' = secret \ {s}
  /\ UNCHANGED mapped

LeaseNext ==
  \/ \E S \in SUBSET Slots : Map(S) \/ Unmap(S) \/ Rebuild(S)
  \/ \E c \in Clients, s \in Slots :
       Grant(c, s) \/ Fill(c, s) \/ Erase(c, s) \/ Return(c, s)

LeaseSpec == LeaseInit /\ [][LeaseNext]_leaseVars

-----------------------------------------------------------------------------
\* No slot is leased to two clients.
LeaseExclusive ==
  \A c, d \in Clients : lease[c] \cap lease[d] # {} => c = d

\* A leased slot is never unmapped under its holder.
LeasedIsMapped == Held \subseteq mapped

\* A plaintext is in a slot only while the slot is leased.
SecretOnlyUnderLease == secret \subseteq Held

LeaseInv == LeaseTypeOK /\ LeaseExclusive /\ LeasedIsMapped /\ SecretOnlyUnderLease
==============================================================================
