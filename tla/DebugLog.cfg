SPECIFICATION Spec
CONSTANTS
  RingBytes = 2
  MaxTotal = 3
  Others = {97}
  MaxMessage = 2
  Capacities = {1, 2, 3, 4}
INVARIANTS TypeOK CopiesNewest MirrorInStep
PROPERTIES ImplementsWindow
