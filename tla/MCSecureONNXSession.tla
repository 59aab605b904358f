------------------------ MODULE MCSecureONNXSession ------------------------
(***************************************************************************)
(* Instances of SecureONNXSession for TLC.                                 *)
(***************************************************************************)
EXTENDS SecureONNXSessionInvariant

CONSTANTS alice, bob   \* the sessions

\* A small slot and a large one.
TieredSizes == <<1, 2>>
OneSlot == <<2>>

LargeLayers == [s \in Sessions |-> 2]
EveryPool == [s \in Sessions |-> TRUE]

NoPools == [s \in Sessions |-> FALSE]

\* The model of bob is too large for a pool.
AlicesPool == [s \in Sessions |-> s = alice]
=============================================================================
