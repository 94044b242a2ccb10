SPECIFICATION Spec
CONSTANTS
  WORLD_WIDTH = 8
  WORLD_HEIGHT = 2
  PLAYER_RADIUS = 1
  COIN_RADIUS = 0
  AXIS_STEP = 1
  DIAG_STEP = 1
  Inputs <- Keys
  Start <- Centre
  SpawnPositions <- AllSpots
  HISTORY_CAP = 4
  THRESHOLD = 1
  TICK_MOD = 4
  MaxInputs = 3
  MaxPending = 2
PROPERTY MismatchIsCorrected
