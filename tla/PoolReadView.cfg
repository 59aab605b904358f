\* The read view of a layer that computes, against docs/python-api.html.
CONSTANTS
  c1 = c1
  c2 = c2
  Clients = {c1, c2}
  NumSlots = 3
  SlotSize <- TieredSizes
  RequestSizes = {1, 2}
  UseShuffling = TRUE
  UseDoubleMapping = TRUE
  LazyInit = FALSE
  IdleTimeout = TRUE
  MaxElapsed = 2
SPECIFICATION Spec
INVARIANT ReadViewIsReadOnly
