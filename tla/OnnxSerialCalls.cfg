\* Runs of two threads and the compaction timers, interleaved between the calls of the pool.
CONSTANTS
  t1 = t1
  t2 = t2
  r1 = r1
  r2 = r2
  r3 = r3
  alice = alice
  bob = bob
  Threads = {t1, t2}
  Sessions = {alice, bob}
  Callers = {t1, t2, alice, bob}
  Regions = {r1, r2, r3}
  NumSlots = 2
  SlotSize <- TieredSizes
  LayerSize <- LargeLayers
  NodesPerRun = 1
  UsePool <- AlicesPool
  OutputMayFail = TRUE
  AtomicCalls = TRUE
  IdleTimeout = TRUE
  RunMayRaise = TRUE
  OneAtATime = TRUE
  Nothing = Nothing
SPECIFICATION Spec
INVARIANTS
  IInv
  AccessIsMapped
  ComputeReadsOwnWeights
  QuietProcessIsClean
PROPERTY ImplementsSlotLease
