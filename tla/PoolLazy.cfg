\* A pool used on its own: lazy initialization, one view per slot, the first
\* free slot is taken; the pool that is no longer used is compacted.
CONSTANTS
  c1 = c1
  c2 = c2
  c3 = c3
  Clients = {c1, c2, c3}
  NumSlots = 2
  SlotSize <- UniformSizes
  RequestSizes = {2}
  UseShuffling = FALSE
  UseDoubleMapping = FALSE
  LazyInit = TRUE
  IdleTimeout = TRUE
  MaxElapsed = 2
SPECIFICATION FairSpec
PROPERTY IdlePoolIsCompacted
