SPECIFICATION Spec
CONSTANTS
  SlotCount = 2
  TapSizes = {2}
  Profiles = {"normal"}
  Kinds = {TRUE, FALSE}
  Lossy = FALSE
  MaxPads = 2
INVARIANTS PollsAskedSlot
