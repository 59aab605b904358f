-------------------------- MODULE MCNativeRuntime --------------------------
(***************************************************************************)
(* Instances of NativeRuntime for TLC.                                     *)
(***************************************************************************)
EXTENDS NativeRuntimeInvariant

KeysUpTo(n) == UNION {[1..m -> Bits] : m \in 1..n}

\* Keys that are too long for g_share1 and temp_buf, and for the page.
EveryKey ==
  [p \in Platforms |-> KeysUpTo(3) \cup (IF p = "windows" THEN {<<1, 1, 1, 1>>} ELSE {})]

\* Callers store one key, and one that is longer than the page.
TwoKeys == [p \in Platforms |-> {<<1, 1>>, <<1, 1, 1, 1>>}]
NoKeys == [p \in Platforms |-> {}]

Request(tiered, hybrid, size, ram) ==
  [use_shuffling |-> TRUE, use_tiered |-> tiered, capped_size |-> 512,
   use_hybrid |-> hybrid, max_layer_size |-> size, avail_ram |-> ram]

\* Small and large layers, with memory enough and with too little; the last
\* two do not fit the 32 bits that Windows takes the size from.
Configurations ==
  {Request(tiered, TRUE, size, ram) : tiered \in BOOLEAN, size \in {1, 40}, ram \in {400, 800}}
    \cup {Request(TRUE, FALSE, 600, 100), Request(FALSE, FALSE, 0, 100),
          Request(TRUE, TRUE, 600, 10000),
          Request(TRUE, FALSE, 4096, 100), Request(TRUE, FALSE, 5000, 100)}
=============================================================================
