\* A session is opened while a run of another is under way.
CONSTANTS
  t1 = t1
  t2 = t2
  r1 = r1
  r2 = r2
  alice = alice
  bob = bob
  Threads = {t1, t2}
  Sessions = {alice, bob}
  Callers = {t1, t2, alice, bob}
  Regions = {r1, r2}
  NumSlots = 1
  SlotSize <- OneSlot
  LayerSize <- LargeLayers
  NodesPerRun = 1
  UsePool <- EveryPool
  OutputMayFail = FALSE
  AtomicCalls = TRUE
  IdleTimeout = FALSE
  RunMayRaise = FALSE
  OneAtATime = FALSE
  Nothing = Nothing
SPECIFICATION Spec
INVARIANT AccessIsMapped
