------------------------------ MODULE KeyStore ------------------------------
(***************************************************************************)
(* What native/include/pal.h promises of pal_store_key and                 *)
(* pal_retrieve_key, as far as the platforms keep it.  A store succeeds or *)
(* fails; a retrieve gives the key of the last store that succeeded if the *)
(* buffer can hold it.  A store that is not reliable may lose the key when *)
(* a store fails, after which a retrieve may give anything, and a retrieve *)
(* of it may fail.                                                         *)
(***************************************************************************)
EXTENDS Integers, Sequences

CONSTANTS
  Keys,      \* keys that callers store
  Buffers    \* sizes of the buffers that callers retrieve into

VARIABLES
  reliable,  \* neither a store that fails nor a retrieve loses a key
  key,       \* the key in the store
  lost,      \* a store that failed has lost the key
  call       \* the last call: its argument, and what it returned

NoKey == <<>>
Stored(k, ok) == [stored |-> k, room |-> 0, ok |-> ok, key |-> NoKey]
Retrieved(n, ok, k) == [stored |-> NoKey, room |-> n, ok |-> ok, key |-> k]

Init ==
  /\ reliable \in BOOLEAN
  /\ key = NoKey /\ lost = FALSE /\ call = Stored(NoKey, FALSE)

Store(k) ==
  /\ \/ key' = k /\ lost' = FALSE /\ call' = Stored(k, TRUE)
     \/ call' = Stored(k, FALSE) /\ UNCHANGED <<key, lost>>
     \/ ~reliable /\ key' = NoKey /\ lost' = TRUE /\ call' = Stored(k, FALSE)
  /\ UNCHANGED reliable

Fits(n) == key # NoKey /\ Len(key) <= n

Retrieve(n) ==
  /\ \/ Fits(n) /\ call' = Retrieved(n, TRUE, key)
     \/ (Fits(n) => ~reliable) /\ call' = Retrieved(n, FALSE, NoKey)
     \/ lost /\ \E m \in 1..n : \E bytes \in [1..m -> {0, 1}] :
                   call' = Retrieved(n, TRUE, bytes)
  /\ UNCHANGED <<reliable, key, lost>>

Next == (\E k \in Keys : Store(k)) \/ (\E n \in Buffers : Retrieve(n))

Spec == Init /\ [][Next]_<<reliable, key, lost, call>>
=============================================================================
