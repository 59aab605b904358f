\* One thread, and a timer that had fired before its run began.
CONSTANTS
  t1 = t1
  r1 = r1
  r2 = r2
  alice = alice
  bob = bob
  Threads = {t1}
  Sessions = {alice}
  Callers = {t1, alice}
  Regions = {r1, r2}
  NumSlots = 1
  SlotSize <- OneSlot
  LayerSize <- LargeLayers
  NodesPerRun = 1
  UsePool <- EveryPool
  OutputMayFail = FALSE
  AtomicCalls = FALSE
  IdleTimeout = TRUE
  RunMayRaise = FALSE
  OneAtATime = TRUE
  Nothing = Nothing
SPECIFICATION Spec
INVARIANT AccessIsMapped
