\* The exported layers, rewritten and run on one image and on two.
CONSTANTS
  Models <- ExportedModels
  Targets <- AllOrOne
  Inputs <- Sizes
SPECIFICATION Spec
CHECK_DEADLOCK FALSE
INVARIANTS
  LoopInv
  NoPlaintextIsSaved
  SavedModelLoads
  SecuredNodesAuthenticate
  LeaseHoldsTheWeight
  AccessInBounds
  SecuredNodeComputesItsLayer
