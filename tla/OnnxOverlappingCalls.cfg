\* Kernels of two threads choose a slot at the same time.
CONSTANTS
  t1 = t1
  t2 = t2
  r1 = r1
  r2 = r2
  alice = alice
  bob = bob
  Threads = {t1, t2}
  Sessions = {alice}
  Callers = {t1, t2, alice}
  Regions = {r1, r2}
  NumSlots = 1
  SlotSize <- OneSlot
  LayerSize <- LargeLayers
  NodesPerRun = 1
  UsePool <- EveryPool
  OutputMayFail = FALSE
  AtomicCalls = FALSE
  IdleTimeout = FALSE
  RunMayRaise = FALSE
  OneAtATime = TRUE
  Nothing = Nothing
SPECIFICATION Spec
INVARIANT ComputeReadsOwnWeights
