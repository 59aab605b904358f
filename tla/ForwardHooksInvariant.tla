------------------------ MODULE ForwardHooksInvariant ------------------------
(***************************************************************************)
(* Inductive invariants of ForwardHooks, checked by TLC and proved in      *)
(* ForwardHooksProofs.                                                     *)
(***************************************************************************)
EXTENDS ForwardHooks

\* The variables that know the buffer b: temp and local of a thread, and the
\* entry of a layer in _active_leases.
InTemp(t, b) == temp[t] = b
InLocal(t, b) == b \in {local[t].w, local[t].b}
Registered(m, b) == b \in {active[m].w, active[m].b}

Known(b) ==
  \/ \E t \in Threads : InTemp(t, b) \/ InLocal(t, b)
  \/ \E m \in Modules : Registered(m, b)

\* No buffer is known twice.
KnownOnce(b) ==
  /\ \A t, u \in Threads :
       /\ InTemp(t, b) /\ InTemp(u, b) => t = u
       /\ InLocal(t, b) /\ InLocal(u, b) => t = u
       /\ ~(InTemp(t, b) /\ InLocal(u, b))
  /\ \A m, n \in Modules : Registered(m, b) /\ Registered(n, b) => m = n
  /\ \A t \in Threads, m \in Modules :
       ~((InTemp(t, b) \/ InLocal(t, b)) /\ Registered(m, b))
  /\ \A t \in Threads : ~(local[t].w = b /\ local[t].b = b)
  /\ \A m \in Modules : ~(active[m].w = b /\ active[m].b = b)

BuffersAreKnownOnce == \A b \in Buffers : KnownOnce(b)

\* What is known has not been returned.
KnownIsHeld == \A b \in Buffers : Known(b) => b \in Held \cup jit

LeasesAreExclusive ==
  \A t, u \in Threads : lease[t] \cap lease[u] # {} => t = u

\* Whatever fails, and whoever meets in one layer.
OwnershipInv ==
  /\ TypeOK
  /\ BuffersAreKnownOnce
  /\ KnownIsHeld
  /\ LeasesAreExclusive

-----------------------------------------------------------------------------
(* When no layer runs in two threads.                                      *)

\* The buffers of a forward pass, wherever they are kept.
WeightBuffer(t) ==
  CASE pc[t] = "decryptW"                        -> temp[t]
    [] pc[t] \in {"forward", "compute", "pop"}   -> active[mod[t]].w
    [] OTHER                                     -> local[t].w

OtherBuffer(t) ==
  CASE pc[t] \in {"decryptB", "decryptM", "mix"} -> temp[t]
    [] pc[t] \in {"forward", "compute", "pop"}   -> active[mod[t]].b
    [] OTHER                                     -> local[t].b

\* The phases between the decryption of the weight, or of the bias, and the
\* first step of the post-hook that undoes it.
HasWeight(t) == pc[t] \in {"acquireB", "decryptB", "register", "forward", "compute", "pop"}
HasItsBias(t) == pc[t] \in {"register", "forward", "compute", "pop"} /\ mod[t] \in HasBias

\* The layer's hooks put the bias into mod.bias.
SetsBias(m) == m \in HasBias /\ Kind[m] # "obfuscated"

LayersAreExclusive ==
  \A t, u \in Threads :
    pc[t] # "idle" /\ pc[u] # "idle" /\ mod[t] = mod[u] => t = u

\* Where a pass keeps its buffers in each phase.
PassInPlace(t) ==
  /\ temp[t] # Nothing <=> pc[t] \in {"decryptW", "decryptB", "decryptM", "mix"}
  /\ local[t].w # Nothing <=>
       \/ pc[t] \in {"acquireB", "decryptB", "register", "zeroW", "releaseW"}
       \/ pc[t] = "zeroB" /\ Kind[mod[t]] # "obfuscated"
  /\ local[t].b # Nothing <=>
       /\ pc[t] \in {"register", "zeroW", "releaseW", "zeroB", "releaseB"}
       /\ mod[t] \in HasBias
  /\ pc[t] \in {"acquireB", "decryptB"} => mod[t] \in HasBias
  /\ pc[t] \in {"forward", "compute", "pop"} =>
       /\ active[mod[t]].w # Nothing
       /\ active[mod[t]].b # Nothing <=> mod[t] \in HasBias

\* The decrypted weight is the layer's parameter, and so is the bias.
ParametersDecrypted(t) ==
  /\ HasWeight(t) => /\ weight[mod[t]] = WeightBuffer(t)
                     /\ content[WeightBuffer(t)] = <<mod[t], "weight">>
  /\ HasItsBias(t) => /\ content[OtherBuffer(t)] = <<mod[t], "bias">>
                      /\ SetsBias(mod[t]) => bias[mod[t]] = OtherBuffer(t)
  /\ pc[t] = "compute" => reads[t] = [w |-> weight[mod[t]], b |-> bias[mod[t]]]

\* Decryptions may fail, layers may raise, and leave buffers, entries of
\* _active_leases and attributes behind that nobody will clear: the passes
\* that go on have what they need all the same.  A bias that the hooks
\* neither set nor delete stays the None it is.
ExclusiveInv ==
  /\ OwnershipInv
  /\ LayersAreExclusive
  /\ \A t \in Threads : pc[t] # "idle" => PassInPlace(t) /\ ParametersDecrypted(t)
  /\ \A t \in Threads : pc[t] = "idle" => temp[t] = Nothing /\ local[t] = NoLease
  /\ \A m \in Modules : ~SetsBias(m) /\ ~DropsBias(m) => bias[m] = Nothing

-----------------------------------------------------------------------------
(* When, besides, nothing fails.                                           *)

\* The base shield's hooks work for layers with an encrypted bias only.
BaseLayersHaveBias == \A m \in Modules : Kind[m] = "base" => m \in HasBias

\* What the serial invariant needs: nothing fails, and there are pages for two
\* buffers of every thread.
PagesSuffice ==
  /\ IsFiniteSet(Threads)
  /\ IsFiniteSet(JitPages) => Cardinality(JitPages) >= 2 * Cardinality(Threads)

Orderly ==
  /\ SerialModules /\ ~DecryptMayFail /\ ~ForwardMayRaise
  /\ BaseLayersHaveBias
  /\ PagesSuffice

\* If nothing fails, _active_leases has an entry from the pre-hook to the
\* post-hook only.
BuffersInPlace(t) ==
  /\ PassInPlace(t)
  /\ pc[t] \notin {"idle", "forward", "compute", "pop"} => active[mod[t]] = NoLease

\* The layer's attributes point into a buffer only while the pass has it.
AttributesCleared(t) ==
  /\ weight[mod[t]] \in Buffers =>
       /\ pc[t] \notin {"idle", "acquireM", "decryptM", "mix"}
       /\ Kind[mod[t]] = "obfuscated" => HasWeight(t)
  /\ bias[mod[t]] \in Buffers => pc[t] \notin {"idle", "acquireM", "decryptM", "mix"}

PassInv(t) == BuffersInPlace(t) /\ ParametersDecrypted(t) /\ AttributesCleared(t)

PassesAreInOrder ==
  /\ \A t \in Threads : pc[t] # "idle" => PassInv(t)
  /\ \A t \in Threads : pc[t] = "idle" => temp[t] = Nothing /\ local[t] = NoLease

\* A layer that runs in no thread has no lease and no parameter in a buffer.
LayersAtRest ==
  /\ \A m \in Modules :
       \/ \E t \in Threads : pc[t] # "idle" /\ mod[t] = m
       \/ active[m] = NoLease /\ weight[m] \notin Buffers /\ bias[m] \notin Buffers
  /\ \A m \in Modules : ~SetsBias(m) => bias[m] = Nothing

\* Every buffer that has not been returned belongs to a forward pass, and
\* there is no plaintext in any other.
HeldIsKnown ==
  /\ \A b \in Held \cup jit : \E t \in Threads :
       pc[t] # "idle" /\ b \in {WeightBuffer(t), OtherBuffer(t)}
  /\ \A b \in Buffers : content[b] # Nothing => b \in Held \cup jit

SerialInv ==
  /\ OwnershipInv
  /\ LayersAreExclusive
  /\ PassesAreInOrder
  /\ LayersAtRest
  /\ HeldIsKnown
=============================================================================
