SPECIFICATION FairSpec
CONSTANTS
  c1 = c1
  c2 = c2
  Clients = {c1, c2}
  Coins = {}
  WORLD_WIDTH = 4
  WORLD_HEIGHT = 2
  PLAYER_RADIUS = 1
  COIN_RADIUS = 0
  AXIS_STEP = 1
  DIAG_STEP = 1
  Inputs <- OnlyRight
  SpawnPositions <- Middle
  CoinPositions <- Middle
  FRAME_CAP = 1
  TICK_MOD = 2
  MaxTick = 4
  RECV_BATCH = 1
  DescriptorLimit = 1
  MaxQueued = 0
  MaxFlight = 2
  MaxInputs = 0
PROPERTY RoomIsUsed
CHECK_DEADLOCK FALSE
