SPECIFICATION Spec
CONSTANTS
  c1 = c1
  c2 = c2
  Clients = {c1, c2}
  Coins = {}
  WORLD_WIDTH = 4
  WORLD_HEIGHT = 2
  PLAYER_RADIUS = 1
  COIN_RADIUS = 0
  AXIS_STEP = 1
  DIAG_STEP = 1
  Inputs <- OnlyRight
  SpawnPositions <- Middle
  CoinPositions <- Middle
  FRAME_CAP = 2
  TICK_MOD = 4
  MaxTick = 8
  RECV_BATCH = 1
  DescriptorLimit = 2
  MaxQueued = 1
  MaxFlight = 2
  MaxInputs = 1
SYMMETRY Interchangeable
INVARIANTS WelcomeFirst NoSnapshotMissing NoDanglingPlayer
CHECK_DEADLOCK FALSE
