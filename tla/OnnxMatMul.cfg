\* A model with a MatMul.
CONSTANTS
  Models <- MatMulModels
  Targets <- All
  Inputs <- Sizes
SPECIFICATION Spec
CHECK_DEADLOCK FALSE
INVARIANT SecuredNodeComputesItsLayer
