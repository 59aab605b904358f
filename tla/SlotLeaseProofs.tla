--------------------------- MODULE SlotLeaseProofs ---------------------------
(***************************************************************************)
(* What the lease protocol of SlotLease guarantees to whoever implements   *)
(* it: the pool of the PyTorch wrapper does by PoolImplementsSlotLease.    *)
(***************************************************************************)
EXTENDS SlotLease, TLAPS

\* A pool starts without leases and without plaintexts.
LEMMA LeaseInitInv == LeaseInit => LeaseInv
BY DEF LeaseInit, LeaseInv, LeaseTypeOK, LeaseExclusive, LeasedIsMapped,
       SecretOnlyUnderLease, Held

\* Each operation of the protocol keeps leases exclusive, leased slots mapped
\* and plaintexts under a lease.
LEMMA LeaseNextInv == LeaseInv /\ [LeaseNext]_leaseVars => LeaseInv'
<1> SUFFICES ASSUME LeaseInv, [LeaseNext]_leaseVars
             PROVE  LeaseInv'
  OBVIOUS
<1> USE DEF LeaseInv, LeaseTypeOK, LeaseExclusive, LeasedIsMapped,
            SecretOnlyUnderLease, Held
<1>1. ASSUME NEW S \in SUBSET Slots, Map(S)
      PROVE  LeaseInv'
  BY <1>1 DEF Map
<1>2. ASSUME NEW S \in SUBSET Slots, Unmap(S)
      PROVE  LeaseInv'
  BY <1>2 DEF Unmap
<1>8. ASSUME NEW S \in SUBSET Slots, Rebuild(S)
      PROVE  LeaseInv'
  BY <1>8 DEF Rebuild
<1>3. ASSUME NEW c \in Clients, NEW s \in Slots, Grant(c, s)
      PROVE  LeaseInv'
  <2> USE <1>3 DEF Grant
  <2>1. lease'[c] = lease[c] \cup {s} /\ \A d \in Clients \ {c} : lease'[d] = lease[d]
    OBVIOUS
  <2>2. \A d \in Clients : s \notin lease[d]
    OBVIOUS
  <2>3. LeaseExclusive'
    BY <2>1, <2>2
  <2>4. Held' = Held \cup {s}
    BY <2>1
  <2> QED
    BY <2>1, <2>3, <2>4
<1>4. ASSUME NEW c \in Clients, NEW s \in Slots, Fill(c, s)
      PROVE  LeaseInv'
  BY <1>4 DEF Fill
<1>5. ASSUME NEW c \in Clients, NEW s \in Slots, Erase(c, s)
      PROVE  LeaseInv'
  BY <1>5 DEF Erase
<1>6. ASSUME NEW c \in Clients, NEW s \in Slots, Return(c, s)
      PROVE  LeaseInv'
  <2> USE <1>6 DEF Return
  <2>1. lease'[c] = lease[c] \ {s} /\ \A d \in Clients \ {c} : lease'[d] = lease[d]
    OBVIOUS
  <2>2. \A d \in Clients \ {c} : s \notin lease[d]
    OBVIOUS
  <2>3. Held' = Held \ {s}
    BY <2>1, <2>2
  <2> QED
    BY <2>1, <2>3
<1>7. CASE UNCHANGED leaseVars
  BY <1>7 DEF leaseVars
<1> QED
  BY <1>1, <1>2, <1>3, <1>4, <1>5, <1>6, <1>7, <1>8 DEF LeaseNext

\* Whatever implements the protocol never leases a slot twice, never unmaps a
\* leased slot and never leaves a plaintext in a slot that nobody holds.
THEOREM LeaseInvariant == LeaseSpec => []LeaseInv
BY LeaseInitInv, LeaseNextInv, PTL DEF LeaseSpec
==============================================================================
