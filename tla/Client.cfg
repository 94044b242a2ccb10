SPECIFICATION FairSpec
CONSTANTS
  c1 = c1
  Clients = {c1}
  Coins = {}
  WORLD_WIDTH = 4
  WORLD_HEIGHT = 2
  PLAYER_RADIUS = 1
  COIN_RADIUS = 0
  AXIS_STEP = 1
  DIAG_STEP = 1
  Inputs <- OnlyRight
  SpawnPositions <- Middle
  CoinPositions <- Middle
  FRAME_CAP = 1
  TICK_MOD = 4
  MaxTick = 6
  RECV_BATCH = 1
  DescriptorLimit = 1
  MaxQueued = 0
  MaxFlight = 2
  MaxInputs = 2
  MAX_ATTEMPTS = 2
  MaxHeld = 2
INVARIANTS TypeOK OwnPlayerIsLocal
PROPERTIES ShownInOrder LostIsFinal NoticesShutdown IsSession
CHECK_DEADLOCK FALSE
