SPECIFICATION Spec
CONSTANTS
  SlotCount = 2
  TapSizes = {1, 2}
  Profiles = {"normal", "slow"}
  Lossy = TRUE
  MaxPads = 1
  Kinds = {TRUE}
INVARIANTS TypeOK MotorsAsAsked
PROPERTIES FoundIffPlugged ConfiguredWhenFound TopologyFollowsTap
