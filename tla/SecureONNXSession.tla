-------------------------- MODULE SecureONNXSession --------------------------
(***************************************************************************)
(* python/vajraa/onnx_wrapper.py: sessions that store their key in the     *)
(* vault, configure the pool, run models whose nodes are secured kernels,  *)
(* and compact the pool from a timer thread when they are idle.            *)
(*                                                                         *)
(* Vault and pool belong to the process: its sessions share them.  The     *)
(* lock of a session guards its timer; session.run() goes on outside it.   *)
(***************************************************************************)
EXTENDS SecureKernel

CONSTANTS
  UsePool,      \* what pal_configure_pool decides for each session
  IdleTimeout,  \* VajraaConfig.idle_timeout > 0
  RunMayRaise,  \* session.run() of ONNX Runtime may raise
  OneAtATime    \* a session is opened only while no thread runs another

ASSUME SessionAssumption ==
  /\ Callers = Threads \cup Sessions       \* the timer thread of each session
  /\ Threads \cap Sessions = {}
  /\ UsePool \in [Sessions -> BOOLEAN]
  /\ IdleTimeout \in BOOLEAN
  /\ RunMayRaise \in BOOLEAN /\ OneAtATime \in BOOLEAN

VARIABLES
  opened,            \* __init__ of the session has returned
  compaction_timer,  \* the session's timer is counting
  elapsed,           \* a timer has fired and its compact() has not begun
  lock               \* the session's lock is held by compact()

sessionVars == <<opened, compaction_timer, elapsed, lock>>
vars == <<nativeVars, kernelVars, sessionVars>>

TypeOK ==
  /\ NativeTypeOK
  /\ KernelTypeOK
  /\ opened \in [Sessions -> BOOLEAN]
  /\ compaction_timer \in [Sessions -> BOOLEAN]
  /\ elapsed \in [Sessions -> BOOLEAN]
  /\ lock \in [Sessions -> BOOLEAN]

Init ==
  /\ NativeInit
  /\ KernelInit
  /\ opened = [s \in Sessions |-> FALSE]
  /\ compaction_timer = [s \in Sessions |-> FALSE]
  /\ elapsed = [s \in Sessions |-> FALSE]
  /\ lock = [s \in Sessions |-> FALSE]

-----------------------------------------------------------------------------
(* SecureONNXSession(...).                                                 *)

\* pal_store_key draws a new g_share1 ...
Open(t, s) ==
  /\ pc[t] = "idle" /\ ~opened[s]
  /\ \A u \in Threads : session[u] = s => pc[u] = "idle"
  /\ OneAtATime => \A u \in Threads : pc[u] = "idle"
  /\ session' = [session EXCEPT ![t] = s]
  /\ vault' = Torn
  /\ MoveTo(t, "mask")
  /\ UNCHANGED <<nativeVars, key, todo, missed, sessionVars>>

\* ... and masks the key with it.
MaskKey(t) ==
  /\ pc[t] = "mask"
  /\ vault' = session[t]
  /\ MoveTo(t, "configure")
  /\ UNCHANGED <<nativeVars, key, session, todo, missed, sessionVars>>

ConfigurePool(t) ==
  /\ pc[t] = "configure"
  /\ PoolConfigure(t, UsePool[session[t]])
  /\ opened' = [opened EXCEPT ![session[t]] = TRUE]
  /\ MoveTo(t, "idle")
  /\ UNCHANGED <<vault, key, session, todo, missed, compaction_timer, elapsed, lock>>

-----------------------------------------------------------------------------
(* run().                                                                  *)

\* The pending timer is cancelled; one that has fired is past cancelling.
BeginRun(t, s) ==
  /\ pc[t] = "idle" /\ opened[s] /\ ~lock[s]
  /\ OneAtATime => \A u \in Threads : pc[u] \notin {"mask", "configure"}
  /\ session' = [session EXCEPT ![t] = s]
  /\ compaction_timer' = [compaction_timer EXCEPT ![s] = FALSE]
  /\ todo' = [todo EXCEPT ![t] = NodesPerRun]
  /\ missed' = [missed EXCEPT ![t] = FALSE]
  /\ MoveTo(t, "node")
  /\ UNCHANGED <<nativeVars, vault, key, opened, elapsed, lock>>

\* ONNX Runtime refuses the inputs, or a node that is not secured fails.
RunRaises(t) ==
  /\ RunMayRaise
  /\ pc[t] = "node"
  /\ MoveTo(t, "idle")
  /\ UNCHANGED <<nativeVars, vault, key, session, todo, missed, sessionVars>>

\* Mutant of Schedules: run() does not schedule a compaction.
NeverSchedules(s) == compaction_timer' = compaction_timer

\* schedule_compaction()
Schedules(s) ==
  compaction_timer' = [compaction_timer EXCEPT ![s] = IdleTimeout \/ @]

EndRun(t) ==
  LET s == session[t] IN
  /\ pc[t] = "node" /\ todo[t] = 0 /\ ~lock[s]
  /\ Schedules(s)
  /\ MoveTo(t, "idle")
  /\ UNCHANGED <<nativeVars, vault, key, session, todo, missed, opened, elapsed, lock>>

-----------------------------------------------------------------------------
(* The timer thread of the session.                                        *)

\* A timer that fires while another one still waits for the lock adds nothing
\* to it.
TimerFires(s) ==
  /\ compaction_timer[s]
  /\ compaction_timer' = [compaction_timer EXCEPT ![s] = FALSE]
  /\ elapsed' = [elapsed EXCEPT ![s] = TRUE]
  /\ UNCHANGED <<nativeVars, kernelVars, opened, lock>>

BeginCompact(s) ==
  /\ elapsed[s] /\ ~lock[s]
  /\ CompactScan(s)
  /\ elapsed' = [elapsed EXCEPT ![s] = FALSE]
  /\ lock' = [lock EXCEPT ![s] = TRUE]
  /\ UNCHANGED <<kernelVars, opened, compaction_timer>>

EndCompact(s) ==
  /\ lock[s]
  /\ CompactAssign(s)
  /\ lock' = [lock EXCEPT ![s] = FALSE]
  /\ UNCHANGED <<kernelVars, opened, compaction_timer, elapsed>>

-----------------------------------------------------------------------------
Working(t) ==
  \/ MaskKey(t) \/ ConfigurePool(t)
  \/ Compute(t) /\ UNCHANGED sessionVars
  \/ EndRun(t)

Next ==
  \/ \E t \in Threads :
       \/ \E s \in Sessions : Open(t, s) \/ BeginRun(t, s)
       \/ Working(t)
       \/ RunRaises(t)
  \/ \E s \in Sessions : TimerFires(s) \/ BeginCompact(s) \/ EndCompact(s)

Spec == Init /\ [][Next]_vars

(***************************************************************************)
(* Fairness: a thread inside run() or __init__ goes on, a timer fires, and *)
(* its thread gets the lock (threads contend for it only briefly) and      *)
(* finishes compact().  Nobody has to open or to run a session.            *)
(***************************************************************************)
Fairness ==
  /\ \A t \in Threads : WF_vars(Working(t))
  /\ \A s \in Sessions :
       WF_vars(TimerFires(s)) /\ WF_vars(BeginCompact(s)) /\ WF_vars(EndCompact(s))

FairSpec == Spec /\ Fairness

-----------------------------------------------------------------------------
(* Safety.                                                                 *)

Computing(t) == pc[t] \in {"decrypt", "view", "output", "compute", "fail", "release"}

\* A kernel touches mapped memory only, and computes through a view that is
\* open.  Everything else is a segmentation fault.
AccessIsMapped ==
  \A t \in Threads :
    /\ Computing(t) => ptr[t] \in mapped
    /\ pc[t] = "compute" => view[ptr[t]] # "none"

\* While a kernel computes, the weights of its own model are in its memory.
\* docs/flows.html: "Each call is independent".
ComputeReadsOwnWeights ==
  \A t \in Threads : pc[t] \in {"view", "output", "compute"} =>
    content[ptr[t]] = session[t]

\* A slot is in use exactly as long as a thread holds it: no slot is given to
\* two threads, and none is lost to the pool.
SlotsAreAccounted ==
  \A i \in Elements :
    g_pool[i].in_use <=> \E t \in Threads : ptr[t] = g_pool[i].region

\* When nothing runs, the process keeps no dynamic page, and no plaintext in
\* any slot; and the regions mapped are those of the pool.
QuietProcessIsClean ==
  (\A x \in Threads : pc[x] = "idle") /\ (\A s \in Sessions : ~lock[s]) =>
    /\ mapped = SlotRegions(Elements)
    /\ \A r \in Regions : content[r] = Nothing /\ view[r] = "none"

\* The part of the memory that is the pool's.
PoolRegions == SlotRegions(Elements) \cap mapped

\* The pool implements the lease protocol its callers rely on.
SlotLease == INSTANCE SlotLease WITH
  Clients <- Threads,
  Slots <- Regions,
  mapped <- PoolRegions,
  lease <- [t \in Threads |-> {ptr[t]} \cap PoolRegions],
  secret <- {r \in PoolRegions : content[r] # Nothing}

ImplementsSlotLease == SlotLease!LeaseSpec

\* docs/python-api.html says of run() that it returns the inference outputs
\* and of SecurityError that it is raised for "all security-related failures
\* including decryption errors".  A node whose weights do not decrypt returns
\* like one that has computed.
RunReturnsOutputs ==
  \A t \in Threads : pc[t] = "node" /\ todo[t] = 0 => ~missed[t]

-----------------------------------------------------------------------------
(* Liveness.                                                               *)

Quiet == \A t \in Threads : pc[t] = "idle"

\* docs/memory-security.html: "After idle_timeout seconds of no session.run()
\* calls" all pages of the pool are released to the system.  Once the runs
\* have stopped, this comes true if they all return.  It needs RunMayRaise to be
\* FALSE: a run that raises has cancelled the timer and starts no other.
IdleSessionIsCompacted ==
  \A s \in Sessions :
    [](/\ \E t \in Threads : pc[t] = "node" /\ session[t] = s
       /\ <>[]Quiet
       => <>(mapped = {}))
==============================================================================
