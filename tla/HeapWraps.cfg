SPECIFICATION Spec
CONSTANTS
  Arena = 9
  Words = 10
  Sizes = {1, 2, 3, 5, 10}
  Contents = {x}
  Junk = junk
INVARIANTS UsableAsAsked
