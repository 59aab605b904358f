---------------------------- MODULE SecureKernel ----------------------------
(***************************************************************************)
(* The Compute methods of SecureGemmKernel, SecureConvKernel and           *)
(* SecureConvTransposeKernel (native/src/secure_gemm_op.cpp), which differ *)
(* in their arithmetic only, on top of the pool and of the key vault       *)
(* (pal_store_key, pal_retrieve_key of native/src/pal_linux.cpp).          *)
(*                                                                         *)
(* A thread is one call of session.run(): the secured nodes of the model,  *)
(* one after the other.  Compute returns nothing, so a node that gives up  *)
(* looks to ONNX Runtime like one that has finished.                       *)
(***************************************************************************)
EXTENDS NativePool

CONSTANTS
  Threads,        \* threads of the program
  Sessions,       \* SecureONNXSession objects, each with a model of its own
  LayerSize,      \* weight_size_bytes of the nodes of each model
  NodesPerRun,    \* secured nodes of a model
  OutputMayFail   \* KernelContext_GetOutput may return an error

ASSUME KernelAssumption ==
  /\ Threads \subseteq Callers
  /\ LayerSize \in [Sessions -> Nat]
  /\ NodesPerRun \in Nat
  /\ OutputMayFail \in BOOLEAN
  /\ Nothing \notin Sessions

VARIABLES
  vault,    \* the key behind g_share1 and g_share2; a session is its own key
  key,      \* master_key on the stack of Compute
  pc,       \* where each thread is
  session,  \* the session the thread runs
  todo,     \* nodes the run has still to compute
  missed    \* a node of the run returned without an output

kernelVars == <<vault, key, pc, session, todo, missed>>

Torn == "torn"   \* the shares of two different keys
Keys == Sessions \cup {Nothing, Torn}

Phases ==
  {"idle", "node", "lease", "take", "decrypt", "fail", "view", "output",
   "compute", "release", "share", "mask", "configure"}

KernelTypeOK ==
  /\ vault \in Keys
  /\ key \in [Threads -> Keys]
  /\ pc \in [Threads -> Phases]
  /\ session \in [Threads -> Sessions]
  /\ todo \in [Threads -> 0..NodesPerRun]
  /\ missed \in [Threads -> BOOLEAN]

KernelInit ==
  /\ vault = Nothing
  /\ key = [t \in Threads |-> Nothing]
  /\ pc = [t \in Threads |-> "idle"]
  /\ session \in [Threads -> Sessions]
  /\ todo = [t \in Threads |-> 0]
  /\ missed = [t \in Threads |-> FALSE]

MoveTo(t, phase) == pc' = [pc EXCEPT ![t] = phase]

NextNode(t, miss) ==
  /\ MoveTo(t, "node")
  /\ todo' = [todo EXCEPT ![t] = @ - 1]
  /\ missed' = [missed EXCEPT ![t] = @ \/ miss]

-----------------------------------------------------------------------------
\* pal_retrieve_key: whatever the shares combine to.  (It fails, and the
\* kernel ends the process, only before the first pal_store_key.)
RetrieveKey(t) ==
  /\ pc[t] = "node" /\ todo[t] > 0
  /\ vault # Nothing
  /\ key' = [key EXCEPT ![t] = vault]
  /\ MoveTo(t, "lease")
  /\ UNCHANGED <<nativeVars, vault, session, todo, missed>>

\* pal_lease_secure_slot.  No memory at all: the node gives up.
Lease(t) ==
  LET n == LayerSize[session[t]] IN
  /\ pc[t] = "lease"
  /\ \/ LeaseScan(t, n) /\ MoveTo(t, "take") /\ UNCHANGED <<key, todo, missed>>
     \/ LeaseDynamic(t, n) /\ MoveTo(t, "decrypt") /\ UNCHANGED <<key, todo, missed>>
     \/ LeaseFails(t, n) /\ NextNode(t, TRUE) /\ key' = [key EXCEPT ![t] = Nothing]
  /\ UNCHANGED <<vault, session>>

TakeSlot(t) ==
  /\ pc[t] = "take"
  /\ LeaseTake(t)
  /\ MoveTo(t, "decrypt")
  /\ UNCHANGED <<vault, key, session, todo, missed>>

\* pal_unlock and vajraa_decrypt_gcm: the plaintext is written, and is the
\* weight if the key is the model's.  The key is wiped.  The memory must be
\* there: otherwise the process is at its end.
Decrypt(t) ==
  LET r == ptr[t] IN
  /\ pc[t] = "decrypt"
  /\ r \in mapped
  /\ view' = [view EXCEPT ![r] = "write"]
  /\ content' = [content EXCEPT ![r] = session[t]]
  /\ key' = [key EXCEPT ![t] = Nothing]
  /\ MoveTo(t, IF key[t] = session[t] THEN "view" ELSE "fail")
  /\ UNCHANGED <<g_pool, g_pool_size, g_pool_initialized, mapped, found, ptr,
                 active_slots, vault, session, todo, missed>>

\* Mutants of GiveUp: Compute returns without pal_release_secure_slot, and
\* Compute releases the slot and does not return.
GiveUpWithoutRelease(t) ==
  /\ pc[t] = "fail"
  /\ ptr' = [ptr EXCEPT ![t] = Nothing]
  /\ NextNode(t, TRUE)
  /\ UNCHANGED <<g_pool, g_pool_size, g_pool_initialized, mapped, view, content,
                 found, active_slots, vault, key, session>>

GiveUpWithoutReturn(t) ==
  /\ pc[t] = "fail"
  /\ PoolRelease(t)
  /\ MoveTo(t, "view")
  /\ UNCHANGED <<vault, key, session, todo, missed>>

\* The tag does not match, or the output cannot be allocated: Compute
\* releases the slot and returns.
GiveUp(t) ==
  /\ pc[t] = "fail"
  /\ PoolRelease(t)
  /\ NextNode(t, TRUE)
  /\ UNCHANGED <<vault, key, session>>

GetReadView(t) ==
  /\ pc[t] = "view"
  /\ PoolGetReadView(t)
  /\ MoveTo(t, "output")
  /\ UNCHANGED <<vault, key, session, todo, missed>>

\* KernelContext_GetOutput
GetOutput(t) ==
  /\ pc[t] = "output"
  /\ \/ MoveTo(t, "compute")
     \/ OutputMayFail /\ MoveTo(t, "fail")
  /\ UNCHANGED <<nativeVars, vault, key, session, todo, missed>>

\* The loops read the weights through the view that get_read_view opened.
Multiply(t) ==
  /\ pc[t] = "compute"
  /\ ptr[t] \in mapped /\ view[ptr[t]] # "none"
  /\ MoveTo(t, "release")
  /\ UNCHANGED <<nativeVars, vault, key, session, todo, missed>>

ReleaseWeights(t) ==
  /\ pc[t] = "release"
  /\ PoolRelease(t)
  /\ NextNode(t, FALSE)
  /\ UNCHANGED <<vault, key, session>>

Compute(t) ==
  \/ RetrieveKey(t)
  \/ Lease(t) \/ TakeSlot(t)
  \/ Decrypt(t) \/ GiveUp(t)
  \/ GetReadView(t) \/ GetOutput(t) \/ Multiply(t) \/ ReleaseWeights(t)
=============================================================================
