\* Two networks, every permutation, with the mixers and without.
CONSTANTS
  Networks <- TwoNetworks
  StartsWith <- NamePrefixes
  MentionsWeight <- WeightNames
  Channels <- ThreeChannels
SPECIFICATION Spec
INVARIANTS
  IInv
  EveryLayerIsSecured
  HooksAuthenticate
  MetadataCoversEveryLease
  WrappedLayerComputesTheSame
