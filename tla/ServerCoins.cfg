SPECIFICATION Spec
CONSTANTS
  c1 = c1
  c2 = c2
  Clients = {c1, c2}
  Coins = {0, 1}
  WORLD_WIDTH = 4
  WORLD_HEIGHT = 2
  PLAYER_RADIUS = 1
  COIN_RADIUS = 0
  AXIS_STEP = 1
  DIAG_STEP = 1
  Inputs <- OnlyRight
  SpawnPositions <- TwoSpots
  CoinPositions <- TwoSpots
  FRAME_CAP = 1
  TICK_MOD = 8
  MaxTick = 3
  RECV_BATCH = 2
  DescriptorLimit = 2
  MaxQueued = 0
  MaxFlight = 3
  MaxInputs = 1
SYMMETRY Interchangeable
INVARIANT CoinCreditedOnce
CHECK_DEADLOCK FALSE
