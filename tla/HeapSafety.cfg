SPECIFICATION Spec
CONSTANTS
  Arena = 9
  Words = 16
  Sizes = {1, 2, 3, 5}
  Contents = {x, y}
  Junk = junk
INVARIANTS TypeOK BlocksTile LiveBlocks
PROPERTIES ImplementsAllocator
