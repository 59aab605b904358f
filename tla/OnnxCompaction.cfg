\* The last run is followed by a compaction.
CONSTANTS
  t1 = t1
  t2 = t2
  r1 = r1
  alice = alice
  bob = bob
  Threads = {t1, t2}
  Sessions = {alice}
  Callers = {t1, t2, alice}
  Regions = {r1}
  NumSlots = 1
  SlotSize <- OneSlot
  LayerSize <- LargeLayers
  NodesPerRun = 2
  UsePool <- EveryPool
  OutputMayFail = FALSE
  AtomicCalls = TRUE
  IdleTimeout = TRUE
  RunMayRaise = FALSE
  OneAtATime = TRUE
  Nothing = Nothing
SPECIFICATION FairSpec
PROPERTY IdleSessionIsCompacted
