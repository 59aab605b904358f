---------------------- MODULE VajraaMemoryPoolInvariant ----------------------
(***************************************************************************)
(* The inductive invariant of VajraaMemoryPool: checked by TLC, proved in  *)
(* VajraaMemoryPoolProofs.                                                 *)
(***************************************************************************)
EXTENDS VajraaMemoryPool

HoldingPhases ==
  {"leased", "writable", "decrypted", "copy", "lock", "executing", "release"}

PlainPhases == {"decrypted", "copy", "lock", "executing", "release"}

\* A client holds a slot exactly between PickSlot and ReleaseSlot.
HoldersAreInPhase ==
  \A c \in Clients : held[c] # NoSlot <=> pc[c] \in HoldingPhases

\* initialize() never finds the flag clear while slots exist: it cannot
\* rebuild the list under a holder.
ListedMeansInitialized == slots # {} => is_initialized

\* A plaintext lies in the slot of a client that has decrypted, and nowhere
\* else.
PlaintextUnderLease ==
  \A p \in plain : \E c \in Clients : held[c] = p[1] /\ pc[c] \in PlainPhases

\* What the phases in which the read view is filled and the write view locked
\* hand on to each other.
ViewsFollowPhases ==
  \A c \in Clients :
    /\ pc[c] \in {"decrypted", "copy"} => WriteView(held[c]) \in plain
    /\ pc[c] = "lock" => ReadView(held[c]) \in plain
    /\ pc[c] \in {"copy", "lock"} => prot[ReadView(held[c])] = "readwrite"
    /\ pc[c] \in {"copy", "lock"} => UseDoubleMapping
    /\ pc[c] \in {"writable", "decrypted"} =>
         prot[WriteView(held[c])] = "readwrite"

IInv ==
  /\ TypeOK
  /\ HoldersAreInPhase
  /\ ListedMeansInitialized
  /\ LeasesAreAccounted
  /\ PagesFollowTheList
  /\ IdleSlotIsSealed
  /\ PlaintextUnderLease
  /\ ViewsFollowPhases
  /\ WriteViewLockedInExecution
==============================================================================
