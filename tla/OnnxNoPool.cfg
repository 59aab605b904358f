\* VajraaConfig(): no pool.  Two threads and the timers call into the library in
\* any order, sessions are opened beside runs, and there is too little memory.
CONSTANTS
  t1 = t1
  t2 = t2
  r1 = r1
  r2 = r2
  alice = alice
  bob = bob
  Threads = {t1, t2}
  Sessions = {alice, bob}
  Callers = {t1, t2, alice, bob}
  Regions = {r1, r2}
  NumSlots = 2
  SlotSize <- TieredSizes
  LayerSize <- LargeLayers
  NodesPerRun = 1
  UsePool <- NoPools
  OutputMayFail = TRUE
  AtomicCalls = FALSE
  IdleTimeout = TRUE
  RunMayRaise = TRUE
  OneAtATime = FALSE
  Nothing = Nothing
SPECIFICATION Spec
INVARIANT PrivatePagesInv
