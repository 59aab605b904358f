\* A second session is opened after the first.
CONSTANTS
  t1 = t1
  r1 = r1
  r2 = r2
  alice = alice
  bob = bob
  Threads = {t1}
  Sessions = {alice, bob}
  Callers = {t1, alice, bob}
  Regions = {r1, r2}
  NumSlots = 1
  SlotSize <- OneSlot
  LayerSize <- LargeLayers
  NodesPerRun = 1
  UsePool <- EveryPool
  OutputMayFail = FALSE
  AtomicCalls = TRUE
  IdleTimeout = TRUE
  RunMayRaise = FALSE
  OneAtATime = TRUE
  Nothing = Nothing
SPECIFICATION Spec
INVARIANT RunReturnsOutputs
