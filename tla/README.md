# Vajraa in TLA+

Vajraa keeps the weights of a neural network encrypted and decrypts each
layer's weights into locked memory for as long as that layer computes. This
directory holds TLA+ specifications of its compilers, memory pools, hooks, kernels,
sessions and platform layers, configurations that check them with TLC, and proofs that TLAPS checks.

Run from this directory: `tlc -config PoolTiered.cfg MCVajraaMemoryPool.tla`,
`tlapm VajraaMemoryPoolProofs.tla`.

## 1. The system

| component | source | state | operations | modelled in |
|---|---|---|---|---|
| slot, memory pool (PyTorch) | `python/vajraa/pytorch_wrapper.py` 22-200 | list of slots, `in_use`, `is_initialized`, timer; protection and content of the pages | `initialize`, `lease_slot`, `release_slot`, `schedule_compaction`, `compact`, `shutdown`; `get_write_ptr`, `get_read_view`, `zero_wipe`, `free` | `VajraaMemoryPool` |
| forward hooks | `pytorch_wrapper.py` 202-732, `base_shield.py` 57-212, `lora_shield.py` 41-145 | `_active_leases`, the layers' `weight` and `bias` attributes | a pre-hook and a post-hook for each of four kinds of layers | `ForwardHooks` |
| native page pool | `native/src/pal_linux.cpp` 155-350, `pal_macos.cpp`, `pal_windows.cpp` | `g_pool`, `g_pool_initialized`; descriptors or handles, views | configure, lease, get_read_view, release, compact | `NativePool`; construction in `NativeSlots` |
| native key vault | `pal_linux.cpp` 112-153 and the four other platform files | two XOR shares, an encrypted page, or a plain buffer | store, retrieve | `KeyVault` against `KeyStore`; torn by threads in `SecureKernel` (`vault`) |
| custom operators | `native/src/secure_gemm_op.cpp` | what the constructors read; else none besides the stack | registration, constructors, three `Compute` methods | `SecureKernel` (key and slot), `SecureOperators` (attributes, shapes, loops) |
| AES-GCM engine | `native/src/crypto_engine.cpp` | objects of OpenSSL or BCrypt | `vajraa_decrypt_gcm` | `CryptoEngine` |
| ONNX session | `python/vajraa/onnx_wrapper.py` | lock, timer | constructor, `run`, `schedule_compaction`, `compact` | `SecureONNXSession` |
| ONNX rewriting | `python/vajraa/onnx_compiler.py` | the graph | replace nodes and initializers, save | `OnnxRewrite`, composed with the kernels in `OnnxModel` |
| weight compiler, wrapping, obfuscation | `python/vajraa/compiler.py`, `pytorch_wrapper.py` 254-277, 445-726 | the compiled dictionaries; `_enc_weight`, `_enc_bias`, `_enc_mixer` | compile a parameter, wrap a module, permute and scale in the hooks | `WeightCompiler` |
| pool sizing | `pal_configure_pool`, `pytorch_wrapper.py` 222-245 | - | hybrid decision, tiers | `NativeSlots` (native) |
| embedded platform | `native/src/pal_embedded.c` | one static buffer, a key | alloc, free, keys | keys in `KeyVault` |
| tensors and licenses | `python/vajraa/crypto.py` | - | `encrypt_tensor`, key wrap, expiry | `encrypt_tensor` as an operator |
| shield compilers, debugger checks, tools, docs, tests, ONNX Runtime headers | | - | | not modelled |

How they interact: a wrapped layer's pre-hook calls `lease_slot` for each of its
parameters, decrypts into the slot, and hands the read view to PyTorch; the
post-hook wipes and releases. The pool's lock is held inside the pool's methods
only. Timer threads call `compact`. In the ONNX path `run()` calls into ONNX
Runtime, which calls `Compute` for each secured node; `Compute` fetches the key
from the vault and a slot from the native pool, both global to the process and
without any lock, while Python timer threads call `pal_compact_pool`. Two contracts
cross a file: `rewrite_onnx_graph` writes nodes whose attributes, input types and
additional data the kernels' constructors and `Compute` rebuild, and
`compile_model_weights` writes tensors whose names, shapes, dtypes, permutations and
scales the wrapper and the hooks rebuild. Neither side is checked against the other
before a model runs.

What is hard: the unlocked check between the locked blocks of `lease_slot`;
timers that have fired and cannot be cancelled any more; decryptions and layers
that fail half-way; two threads in one layer; pool functions of the platform
layer that overlap; sessions that share the vault and the pool; calls of the system
or a library that fail between two acquisitions; index arithmetic in parallel loops.
`PROJECT.json`
lists these hazards with their lines and the properties that cover them.

## 2. The modules

`SlotLease` is the abstract specification: a slot is granted to at most one
client, stays mapped while leased, and holds a plaintext only while leased. Its
actions are `Map`, `Unmap`, `Grant`, `Fill`, `Erase`, `Return`.

`VajraaMemoryPool` has one action per locked block of the pool's methods and one
per step of a client between them. The correspondence:

| code | action |
|---|---|
| `lease_slot`: first block; check; `initialize()`; last block | `BeginLease`; `CheckInitialized`; `Initialize`; `PickSlot`, `RefuseSlot` |
| `get_write_ptr`; decryption | `GetWritePtr`; `Decrypt`, `DecryptFails` |
| `get_read_view`: unlock, copy, lock; single view | `UnlockReadView`, `CopyToReadView`, `LockWriteView`; `KeepSingleView` |
| `release_slot` with `zero_wipe` and `schedule_compaction` | `ReleaseSlot` |
| a timer fires; its `compact()` gets the lock | `TimerFires`; `Compact` |
| `shutdown` | `Shutdown` |

`elapsed` counts the timers that have fired and wait for the lock: these survive
`cancel()`. A slot object that has been freed is never used again, so a slot is
identified with its place in the list. `shutdown()` is modelled while no client
holds a slot, the use its documentation has for it ("tearing down the model"); a
client may be inside `lease_slot`. The memory is one plaintext bit and a
protection per page; double mapping has two separate pages per slot, as
`VajraaMemorySlot` allocates them.

`ForwardHooks` models the hooks as one program with four kinds of layers. The
pool is seen through the abstract protocol (`lease`, `mapped`); it may refuse at
any time, and the hook then allocates a page. `temp` and `local` are the hook's
variables `ptr` and `lease`, `active` is `_active_leases`. `content` says which
parameter is in which buffer, so that reading another layer's weight or a wiped
buffer can be told from reading one's own. Tensors are on the CPU, where
`.to(device)` makes no copy. `hasattr` followed by `delattr` is one step.

`NativePool` holds the bodies of the pool functions as operators for a caller.
`pal_lease_secure_slot` (scan, then mark) and `pal_compact_pool` (scan and unmap,
then assign) are two steps each; with `AtomicCalls` no function starts while
another caller is between the two. A region stands for the two addresses of a
slot. The vector keeps its storage, as `std::vector` does on assignment, so that
an element chosen before an assignment is read for what it holds afterwards.
What else overlapping calls may do (the standard gives a data race no meaning)
is not enumerated. Without a pool nothing more is needed: the calls that overlap
read a vector that stays empty and a flag that stays false.

`SecureKernel` EXTENDS it with the control of `Compute`, which is the same in the
three operators, and with the vault, torn between the two writes of
`pal_store_key`. Decryption succeeds exactly with the model's own key.
`SecureONNXSession` EXTENDS that with construction, `run()` and the timers; `Spec`
and the properties are there.

`OnnxRewrite` has one action per branch of the loop over the nodes (`RewriteGemm`,
`RewriteConv`, `KeepNode`) and `Save`. A name is a pair of a base and a suffix; an
initializer says whether it holds plain values, a ciphertext, an IV or a tag, and
under which additional data. `SecureOperators` has the constructors, the shape of the
output, and the parallel loops: an action per iteration, in any order. A cell of the
output is the bag of the products that were added up in it, each named by its two flat
indices, so that a term that is missing, doubled, or taken from elsewhere shows, as
does memory that was never written. Atomic additions commute, rounding is not
modelled. `OnnxOperators` says in another form, position by position, what the ONNX
operators compute: it is the reference and external to the repository. `OnnxModel`
composes them: rewrite, save, create the kernel of a secured node, decrypt, get the
output, loop.

`WeightCompiler` goes from the `state_dict` to the output of a forward pass:
`CompileParameter` is an iteration of `compile_model_weights`, `WrapModule` one of
`secure_wrap_model` for any order of the modules, `PreHook`, `Forward` and `PostHook`
are a pass. The generator that a seed starts is modelled by what it gives: any
permutation, and the same one again for the same seed. `MentionsWeight` has the names
that contain "weight", and `StartsWith` the pairs of names of which one is a prefix of the
other: names are not put together from characters. Scales are symbols with a
power, so that "they cancel" is a statement. Leases are the subject of `ForwardHooks` and
left out here.

`KeyStore` is what `pal.h` promises of the vault, as far as the platforms keep it; it is
`reliable` or may lose the key in a store that fails. `KeyVault` has the stores and
retrieves of the five platforms, with bits for bytes, and `Abstract` maps it to the
`KeyStore`: the key is what the shares recombine to, and Windows alone is not reliable.
`g_encrypted_key` is what its page holds, after `VirtualAlloc`, the wipe, the copy and
`CryptProtectMemory`, each of which may be the last that was done; what `CryptUnprotectMemory`
makes of a page that was not encrypted may be anything, or a failure. `NativeSlots` is
`pal_configure_pool` call by call: `Configure` decides and unmaps the old pool,
`CreateObject...`, `MapViews`, `KeepSlot` and `DiscardSlot...` are the steps of
`create_slot`, and every call may fail. `CryptoEngine` is `vajraa_decrypt_gcm` for both
libraries in the same manner; `held` is what must be given back. `NativeRuntime`
EXTENDS the three and exercises one at a time, since they share no state.

Next to a component X there may be two more modules. `XInvariant` EXTENDS X by the
parts of an inductive invariant, so that a run can check it; the MC module EXTENDS that.
`XProofs` has the theorems. They are `VajraaMemoryPoolProofs` and `SlotLeaseProofs`
(whose invariants are in the components), `ForwardHooksInvariant` and
`ForwardHooksProofs`, `SecureONNXSessionInvariant` and `SecureONNXSessionProofs`, `NativeRuntimeInvariant` and `NativeRuntimeProofs`,
`WeightCompilerInvariant` and `WeightCompilerProofs`, `OnnxModelInvariant` and
`OnnxModelProofs`. `Sizes` has the two folds that compilers, kernels and the native pool
share, the number of elements of a tensor and the bytes of a list of slots; `SizesProofs`
has what they compute, and the arithmetic of arrays in row-major order.

The mutated forms of definitions ("Mutant of ...") stand before the definitions
they belong to; nothing in the specifications uses them. Each shows that one
property would notice a plausible mistake.

## 3. What is checked

Runs that pass:

| run | instance | shows |
|---|---|---|
| `pool_tiered` | 3 clients, two small slots and a large one, 2 late timers, eager | exclusivity, leased pages stay, write view locked in execution, free slots wiped and locked, no plaintext unmapped, implements `SlotLease` |
| `pool_lazy` | 3 clients, 2 slots with one view, lazy, 2 late timers, fair | an idle pool is compacted for good, however compaction and re-initialization alternate |
| `hooks_serial` | 2 threads, 4 layers of 4 kinds, 2 slots, 4 pages, nothing fails | a pass leaves neither a lease nor a page, an attribute or a plaintext behind |
| `hooks_exclusive` | 2 threads, 3 layers of 3 kinds, a crypto layer without a bias among them, each in one thread at a time; decryptions fail and layers raise; 1 slot, 3 pages | a pass that gets to `forward()` finds its parameters and computes with its own, whatever earlier failures have left behind |
| `hooks_faults` | 2 threads, 2 layers shared, failures, 2 slots, 2 pages | no double release, no write after release |
| `onnx_serial_calls` | 2 threads, 2 sessions (one without a pool), 3 regions; calls of the pool do not overlap | kernels touch mapped memory and their own weights; clean when quiet; implements `SlotLease` |
| `onnx_compaction` | 2 threads, 1 slot, 1 region, 2 nodes, fair | an idle native pool is given back, even after exhaustion |
| `onnx_model` | Gemm, Conv and ConvTranspose with and without bias, strides, asymmetric paddings, dilations, output padding; a Relu and a MatMul of two inputs; all layers or one; batches of 1 to 3 | no plaintext is saved, the saved model loads, tags match, weights fit their leases, all accesses in bounds, the secured node computes its layer |
| `weight_compiler` | a perceptron with a layer whose name starts like the first one's; a network with convolutions, an embedding and an attention whose matrix is an `in_proj_weight`; every permutation; with and without mixers | every layer secured, tags match, `max_layer_size_bytes` covers every lease, permutations and scales cancel |
| `native_runtime` | 5 vaults, keys of 1 to 3 bits, and of 4 on Windows; 3 systems, 13 sizings, 2 configurations; 2 libraries | the vaults implement `KeyStore`; nothing leaks whichever call fails; the pool holds the largest layer twice |

The first invariant of each run that checks invariants is the inductive invariant of the
proofs (`IInv`, `LoopInv`, `OwnershipInv`, `ExclusiveInv` or `SerialInv`). It implies the
component's `TypeOK`, as a theorem says, so that no run checks `TypeOK` besides. In
`onnx_model` it is `LoopInv`, which adds to `IInv` what is in each cell of an output in the
middle of a parallel loop (`CellsInv`).

Two runs refute what a document says; each is a finding in `PROJECT.json`:

| run | refutes | what happens |
|---|---|---|
| `onnx_compact_race` | `AccessIsMapped` | one client thread: a timer that had fired unmaps the slot that the kernel has just chosen |
| `onnx_two_models` | `RunReturnsOutputs` | a second session replaces the key of the first, and `run()` does not raise |

### Where the code and its documents disagree

The passing runs of a property exclude by a constant what the code does not survive. This is
the list of all that is excluded, with the line of the code, the document that promises
otherwise if there is one, and how to see it. Where a configuration is named, TLC
violates its only invariant (run it like the others; these configurations are for
reading, `PROJECT.json` lists no run of them). Otherwise a constant of a listed run is to be
changed.

| code | what it does | document | to see it |
|---|---|---|---|
| `pytorch_wrapper.py:69` | a layer's read view stays readable and writable while it computes | "unlocks read to READONLY" (`docs/python-api.html:239`; `memory-security.html:122`, `flows.html:224`) | `PoolReadView.cfg` (`ReadViewIsReadOnly`) |
| `pytorch_wrapper.py:69` | the read view is opened before the write view is closed | "At no point are both views simultaneously accessible" (`flows.html:227`) | actions `UnlockReadView`, `LockWriteView` |
| `pytorch_wrapper.py:155` | a late compaction comes after the unlocked check, and `lease_slot` returns `None` from a pool that nobody uses | "proceeds normally" (`memory-security.html:194`) | `RefuseSlot` after `CheckInitialized` and `Compact` |
| `pytorch_wrapper.py:247` | no timer is started before a first release | "If no inference occurs for `idle_timeout` seconds" (`memory-security.html:186`) | `LazyInit = FALSE` in `pool_lazy` |
| `pytorch_wrapper.py:193` | `shutdown()` does not look for clients; with one in a layer it would free the pages under it, against `PagesFollowTheList` | it is for "tearing down the model" (`python-api.html:263`), a contract that `Shutdown` has as a guard | - |
| `pytorch_wrapper.py:362` | a bias that fails to decrypt leaves the weight before it decrypted and leased | "zero-wiped immediately after each forward pass" (`docs/index.html:89`) | `HooksBiasFails.cfg` (`WipedAfterEachPass`) |
| `pytorch_wrapper.py:396` | no post-hook runs after a `forward()` that raises | the same | there with `ForwardMayRaise` instead of `DecryptMayFail` |
| `pytorch_wrapper.py:389` | of two threads in one layer the first to finish wipes what the other computes with | "Concurrent requests to the same model will safely queue" (`memory-security.html:237`) | `HooksSharedLayer.cfg` (`ComputeReadsOwnLayer`) |
| `base_shield.py:204` | the post-hook deletes the `bias` of a layer that has none encrypted, and the second pass misses it | "Standard execution is fully operational" (`README.md:168`) | `HasBias` without `base` in `hooks_exclusive` |
| `pal_linux.cpp:268` | two kernels choose one slot | "Each call is independent" (`flows.html:138`) | `OnnxOverlappingCalls.cfg` (`ComputeReadsOwnWeights`) |
| `pal_linux.cpp:189` | opening a session unmaps the slots that kernels of another hold | the same | `OnnxReconfigured.cfg` (`AccessIsMapped`) |
| `pal_linux.cpp:279` | a pool that was compacted empty is never built again: kernels get pages of their own | "will trigger re-initialization" (`cpp-api.html:217`) | `LeaseDynamic` after a compaction |
| `onnx_wrapper.py:135` | a run that raises has cancelled the timer and starts no other | "After idle_timeout seconds of no session.run() calls" (`memory-security.html:204`) | `RunMayRaise = TRUE` in `onnx_compaction` |
| `onnx_compiler.py:89` | a MatMul becomes a SecureGemm, which multiplies by the transposed weight; `alpha`, `beta` and a missing `transB` are dropped as well | "Identifies Gemm, MatMul, and Conv layers" (`onnx_compiler.py:11`) | `OnnxMatMul.cfg` (`SecuredNodeComputesItsLayer`) |
| `secure_gemm_op.cpp:391` | the kernel of a convolution with groups reads the channels of the first group for all | "executes a 2D convolution" (`cpp-api.html:271`) | `Models <- GroupedModels` in `OnnxMatMul.cfg` |
| `onnx_compiler.py:79` | the second of two layers with one weight refers to a name that is gone | "Every Gemm, Conv, and ConvTranspose node is rewritten" (`python-api.html:300`) | `Models <- TiedModels` in `onnx_model`, against `SavedModelLoads` |
| `secure_gemm_op.cpp:100` | the plaintext of a float64 weight is twice as large as its lease | - | a float64 weight in `Models`, against `LeaseHoldsTheWeight` |
| `secure_gemm_op.cpp:175` | with batch 0 the branch for one row writes a row that the output does not have | - | a batch of 0 in `Inputs`, against `AccessInBounds` |
| `compiler.py:63` | scaling makes a float16 matrix float32 after the additional data was built: the hook raises | "based on name, shape, and dtype" (`compiler.py:62`) | `Networks <- HalfNetworks` in `weight_compiler`, against `HooksAuthenticate` |
| `pal_linux.cpp:181`, `pytorch_wrapper.py:229` | a tiered pool for layers below 32 MB takes up to 64 MB more than was compared with the limit, and so more than 20% of the memory | the 20% rule (`memory-security.html:172`, `cpp-api.html:185`) | `NativeBudget.cfg` (`PoolStaysWithinItsBudget`) |
| `pal_windows.cpp:126`, `133` | a store that fails has replaced the key by a page that was not encrypted, on which a retrieve may succeed | "Retrieves a key previously stored" (`pal.h:92`) | `VaultWindows.cfg` (`RetrievesAStoredKey`) |

`OnnxNoPool.cfg` is one more configuration for reading, which passes: two threads, two sessions
without a pool, calls that overlap as they like. Its invariant `PrivatePagesInv` is the
one of the theorem `SessionPagesArePrivate`.

Bounds. `MaxElapsed` (1 or 2) is the number of fired timers that wait at once: a
second one matters only by running when the first has already emptied the pool.
Three clients are one more than a race between two needs; two slots, or three in
two tiers, let a request find a free slot, none that fits, and none at all.
`JitPages` is large enough in `hooks_serial` that no allocation fails there and small
enough in `hooks_faults` and `hooks_exclusive` that some do; the latter has a slot and three
pages, so that two passes with two buffers each take all of them. `Regions` is smaller than what all threads
could want in the ONNX runs, so that dynamic allocation and its failure both occur.
A session's `elapsed` is one bit: a second fired timer compacts a pool that was just compacted.
In `onnx_model` kernels and images have up to 3 by 4 positions, enough that windows
overlap, lie partly in the padding on each side, and skip elements by strides and
dilations, differently in the two dimensions; two channels on one side at a time tell
the order of the channels. In `weight_compiler` a matrix has up to 3 features, the
fewest with permutations that are not their own inverses, and is not square. Vaults hold
2 bits and keys have up to 3; on Windows the page holds 3, what can be read back 2, and keys
have up to 4: shorter, longer, equal, unreadable and refused keys follow one another.
`MaxConfigures` is 2, a pool and the one after it; sizes are in MB with the constants
of the code, below and above the 32 MB of the medium tier, and above the 4096 MB that
Windows takes modulo 2^32.

Fairness. A client inside `lease_slot` or between lease and release keeps running
(`WF` of its steps): the forward pass terminates and Python schedules its
threads. A timer thread fires and gets the lock: critical sections are short and
`threading.Lock` has no preference. Nobody is obliged to start a pass, to open a
session or to shut down. No strong fairness is used.

## 4. What is proved

Every proof has the same shape: an inductive invariant that a run checks first, a
lemma that `Init` implies it, a lemma per action that keeps it, and theorems for the
properties that follow. A refinement adds a lemma per action that says which step
of the abstract specification it is. The named assumptions on the constants
(`PoolAssumption`, `HookAssumption`, ...) give types and say what inputs the program can
have. What a theorem assumes beyond them is a hypothesis in its statement
(`ASSUME ... PROVE`). Each hypothesis is true of the passing run of section 3 that checks the
same property, and where the code meets programs of which it is false, the last table of that
section says how the property is broken there.

| module | hypothesis | theorems |
|---|---|---|
| `SlotLeaseProofs` | none | what the protocol guarantees to every implementation: `LeaseInv` |
| `VajraaMemoryPoolProofs` | none | `IInv`, `TypeOK`, `LeasesAreAccounted`, `PagesFollowTheList`, `IdleSlotIsSealed`, `WriteViewLockedInExecution`; the action property `FreedPagesWereWiped`; the pool implements `SlotLease` |
| `ForwardHooksProofs` | none: shared layers, failing decryptions and raising layers included | `OwnershipInv`, `TypeOK`, `EveryLeaseHasOneOwner`; the hooks follow `SlotLease` |
| | `SerialModules` | `ExclusiveInv`, `ComputeReadsOwnLayer`: failing decryptions and raising layers included |
| | `SerialModules`, `BaseLayersHaveBias` | `ForwardFindsItsParameters`: likewise |
| | `Orderly` | `SerialInv`, `QuietMeansReturned`, `WipedAfterEachPass` |
| `SecureONNXSessionProofs` | `Serial` | `IInv`, `TypeOK`; the native pool implements `SlotLease` |
| | `NoPool` | `PrivatePagesInv`, whatever overlaps |
| | `Serial` or `NoPool` | `AccessIsMapped`, `ComputeReadsOwnWeights`, `QuietProcessIsClean` |
| `OnnxModelProofs` | none | `IInv`, `TypeOK`, `NoPlaintextIsSaved`, `SecuredNodesAuthenticate` |
| | `OwnWeights`, `SinglePrecision` | `SavedModelLoads` |
| | `SinglePrecision` | `LeaseHoldsTheWeight` |
| | `OwnWeights`, `ExportedLayers`, `FullBatches` | `AccessInBounds` |
| | `ExportedLayers`, `SupportedLayers`, `FullBatches` | `LoopInv` (`IInv` with `CellsInv`), `SecuredNodeComputesItsLayer` |
| `WeightCompilerProofs` | none | `IInv`, `TypeOK`, `EveryLayerIsSecured`, `MetadataCoversEveryLease`, `WrappedLayerComputesTheSame` |
| | `NoHalfPrecision` | `HooksAuthenticate` |
| `NativeRuntimeProofs` | none | `IInv`, `TypeOK`, `NothingLeaks`, `PoolHoldsTheLargestLayerTwice`; the vaults implement `KeyStore` |
| | `LargeLayers` | `PoolStaysWithinItsBudget` |
| `SizesProofs` | none | lemmas only: `Elements` is a natural number, and a product for up to four dimensions; `Total` of a list that grows, and of its prefixes |

The hypotheses. `SerialModules`: no layer runs in two threads at a time.
`BaseLayersHaveBias`: the layers of the base shield have an encrypted bias. `Orderly`: both of
these, nothing fails, and there are pages for two buffers of each thread. `Serial`:
calls into the native pool do not overlap, the timers' included, and a session is opened
while no other one runs; or the program has one thread and no `idle_timeout`. The library does
not see to it: it has no lock, and a program with a pool, an `idle_timeout` and runs is not
serial (`onnx_compact_race`, `OnnxOverlappingCalls.cfg`, `OnnxReconfigured.cfg`). `NoPool`: no session
uses a pool, which is what `VajraaConfig()` says, with `use_shuffling` false by default
(`pytorch_wrapper.py`). `LargeLayers`: the largest layer of a tiered pool has 32 MB at least. `OwnWeights`: no node shares its weight with another. `SinglePrecision`: all
initializers are float32. `ExportedLayers`: what `torch.onnx.export` writes; a linear layer
has its weight as a matrix with a row for every output, a convolution has a
kernel of four dimensions and moves over images with positive strides and dilations and
non-negative paddings, and a bias has one element for every output. `SupportedLayers`: the
secure operators have attributes for all that the layer says, that is, matrices are
transposed (so that no MatMul is secured), `alpha` and `beta` are 1, there are no groups, and
a kernel is not empty. `FullBatches`: no batch is empty. `NoHalfPrecision`: no parameter is float16.

How the arguments go:

- PyTorch pool. The safety properties are not inductive alone. `IInv` adds: a client
  holds a slot exactly in the phases between `PickSlot` and `ReleaseSlot`
  (`HoldersAreInPhase`); slots in the list imply `is_initialized`, so that a late
  `initialize()` cannot rebuild the list under a holder (`ListedMeansInitialized`); a
  plaintext page belongs to the slot of a client that has decrypted
  (`PlaintextUnderLease`); and what the steps of `get_read_view` hand on to each other
  (`ViewsFollowPhases`). The steps of a holder rest on `HolderFacts` (no other client's
  pages are touched), those that free slots on `NobodyHolds`.
- Hooks, whatever happens. A hook cannot tell whether its `ptr` is still its own; what saves
  it is that a buffer that is not returned is known to one variable at most, of all
  threads' `ptr` and `lease` and all layers' `_active_leases` (`BuffersAreKnownOnce`,
  `KnownIsHeld`). Two threads in one layer overwrite each other's entry: a lease is then
  lost, but never owned twice.
- Hooks, a layer in one thread at a time. Failures leave leases, entries and attributes of
  which nobody takes care any more, but no pass relies on their absence: a pre-hook
  overwrites what it finds. `ExclusiveInv` therefore speaks of the passes under way only
  (`PassInPlace`, `ParametersDecrypted`), and `OwnershipInv` keeps their buffers apart from
  what was left behind.
- Hooks, orderly. `SerialInv` says for each phase of a pass where its buffers are kept and
  what they hold (`PassInv`), that a layer at rest has neither lease nor parameter
  (`LayersAtRest`), and that nothing else is held (`HeldIsKnown`). That an allocation
  never fails is a count: each of the other threads has at most two buffers.
- Native pool and sessions. A thread between the scan of `pal_lease_secure_slot` and its
  mark still finds its element free (`FoundIsFree`); a compaction between its two
  assignments carries exactly the slots in use (`CompactionCarriesTheSlotsInUse`); what is
  mapped is the pool and the dynamic pages (`MappedIsAccounted`); a page is open only
  under a kernel that computes (`OpenUnderAPointer`); and whoever opens a session is alone
  (`OpensAlone`), so that the key and the pool under a running kernel are those of its session.
- Sessions without a pool. The list is always empty (`NothingIsPooled`), so that no two calls
  have anything in common but the map of the memory, which the system keeps: the mapped
  pages are exactly those of the kernels that compute, one each (`PagesArePrivate`).
- ONNX. The loop is a relation between the nodes it has passed and the graph: each was
  replaced by a node with all that the kernel rebuilds, or kept because its weight is
  gone or not to be encrypted (`NodesInv`); an initializer is the original one or a part
  of an encrypted weight that is gone (`InitializersInv`). `NoPlaintextIsSaved` needs no
  hypothesis on shared weights: the node that comes second keeps its reference and
  finds nothing. That a tag always matches is then a fact about the constructors
  (`KernelFacts`). The names of initializers in the graph do not end in `_encrypted`,
  `_iv` or `_tag` before the rewriting, which `ModelAssumption` states.
- Weight compiler. The dictionaries are functions of the parameters compiled so far
  (`EncryptedInv`, `ObfuscatedInv`, `SizesInv`), the wrapped modules of the dictionaries
  (`WrapInv`), and the values in a pass of the permutations of the seeds (`ForwardInv`). The
  permutation cancels because the hook draws the same one again and it is a bijection;
  scales cancel because their powers add up to zero. That no parameter stays in the clear is
  the agreement of two decisions: `compile_model_weights` puts a parameter into one of two
  dictionaries by its name and shape, and the wrapper looks for weight and bias in both.
- Native library. `objects` and `views` count the pool and the slot in creation
  (`ObjectsAreAccounted`); unless a call has failed, the slots made and those still to be made
  are those of the request (`PoolIsAsRequested`); `held` is a function of the step of
  the decryption (`Acquired`). The vaults refine `KeyStore` by `Xor(Xor(a, b), b) = a`, for keys
  and buffers of every length; on Windows the key is the page, or lost.

- Folds. `Elements` and `Total` are folds over a sequence. The library's induction takes an operator as
  its parameter, which is out of the provers' reach, so `SizesProofs` does the induction once by
  hand, over the set of lengths for which a fold is defined (`Induction`, `FoldExists`). It follows
  that the elements of every shape are a natural number. Nothing is assumed of them.
- The budget. While slots are made, those in the list are the first ones of the request
  (`PoolIsPartOfTheRequest`), whose total is `pool_cost` if layers are large, and so within
  the 20%; a prefix has no larger total.
- Accesses. An iteration of a loop stands for pairs, and all iterations for all pairs
  (`IterationsArePairs`). A product of a pair is described by its coordinates, which are in the
  ranges of their dimensions, so that its row-major indices are in their arrays (`ElementOfFour`).
  The kernels check the coordinates of the padded side themselves, which is why the sizes of an
  output may be anything here.
- The layer that is computed. Three things meet. The formulas of the kernels for the shape of
  the output count the places of the window, which is how ONNX says it (`WindowsCounted`,
  `ShapesAgree`). The products of all pairs for one cell are, coordinate by coordinate, the terms
  of the layer there (`ConvTermsAgree` and its like). And a cell gets every product exactly once,
  in whatever order iterations run: `CellsInv` says that a cell of SecureGemm or SecureConv is
  complete once its own pair is done, since the products for a cell belong to the pair
  that is its place (`ProductsOfPlace`), and that a cell of SecureConvTranspose is the sum of
  the products of the pairs that are done; two pairs read different elements of the input,
  so that nothing is added twice (`ProductsOfInput`, `TermsOfUnion`).

Only model-checked: the liveness properties `IdlePoolIsCompacted` and
`IdleSessionIsCompacted`, which need fairness and ENABLED. Every other property of a passing run is
also a theorem, under the hypotheses above. Two theorems state what no listed run checks,
`PrivatePagesInv` and `PoolStaysWithinItsBudget`; the configurations that go with them are in
section 3.

## 5. Not modelled

The 14 files that count as the implementation here are those of `native/`; 20,456 of
their 22,727 lines are the vendored headers of ONNX Runtime, of which nothing is
modelled, so that the share of lines in `PROJECT.json`'s map says little. Of the
2,271 lines of Vajraa's own native sources, what is left out is: reading tensors
through the ONNX Runtime API at the head of each `Compute`; debugger checks and
timing checks, which end the process or return; thin wrappers of `mmap` and
`VirtualAlloc`; the single buffer of `pal_embedded.c`; the pool functions of macOS
and Windows, which are those of Linux with other calls. `pal_android.cpp` has no pool
functions at all. In Python: the shield compilers, which encrypt in a loop; the
license and key-wrapping functions of `crypto.py`; the sizing in `secure_wrap_model`,
the same formula as the native one; DPAPI and available memory of `pal.py`; the
command line tools.

Rounding of floating-point sums and the random values of scales and mixers are
abstracted: a mixer's output is only told from the layer's own.

## 6. Plan

What can still be proved:

1. `SecureKernel`: that `RunReturnsOutputs` holds of the sessions whose key is the one in the vault,
   as a corollary of `SessionComputeReadsOwnWeights`; at present only its failure is shown,
   by `onnx_two_models`.
2. Action properties of the native pool: a plaintext is wiped before its page is
   unmapped, as `FreedPagesWereWiped` has it for the PyTorch pool.
3. `SecuredNodeComputesItsLayer` for a MatMul or a group, once the rewriting keeps such nodes as they
   are: now the theorem leaves them out and `OnnxMatMul.cfg` refutes them.

And what can still be modelled: the shield compilers, once they do more than encrypt in
a loop, and the sizing in `secure_wrap_model`.
