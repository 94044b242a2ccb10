SPECIFICATION Spec
CONSTANTS
  p1 = p1
  p2 = p2
  Players = {p1, p2}
  BUFFER_CAP = 6
  INTERPOLATION_DELAY = 2
  FRAME_CAP = 2
  MaxClock = 7
  MaxWorldStates = 8
SYMMETRY Interchangeable
INVARIANTS TypeOK BufferReachesBack ShownIsCurrent
PROPERTY NeverBackwards
CHECK_DEADLOCK FALSE
