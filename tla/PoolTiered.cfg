\* Three clients on a tiered pool: two small slots and a large one.
CONSTANTS
  c1 = c1
  c2 = c2
  c3 = c3
  Clients = {c1, c2, c3}
  NumSlots = 3
  SlotSize <- TieredSizes
  RequestSizes = {1, 2}
  UseShuffling = TRUE
  UseDoubleMapping = TRUE
  LazyInit = FALSE
  IdleTimeout = TRUE
  MaxElapsed = 2
SPECIFICATION Spec
INVARIANTS
  IInv
  LeasesAreAccounted
  PagesFollowTheList
  IdleSlotIsSealed
  WriteViewLockedInExecution
PROPERTIES
  FreedPagesWereWiped
  ImplementsSlotLease
