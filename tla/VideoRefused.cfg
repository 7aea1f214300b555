SPECIFICATION Spec
CONSTANTS
  PageBlocks = 2
  VramPages = 5
  NtscRows = 1
  PalRows = 2
  Heights = {0, 2}
  ChunkBlocks = 1
  TexturePages = {1}
  Images = {2}
  Clut8 = 2
  Clut4 = 1
  Names = {n1, n2}
  Colors = {c1}
INVARIANTS SizeIsActive
