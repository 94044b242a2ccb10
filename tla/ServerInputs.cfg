SPECIFICATION FairSpec
CONSTANTS
  c1 = c1
  c2 = c2
  Clients = {c1}
  Coins = {}
  WORLD_WIDTH = 4
  WORLD_HEIGHT = 2
  PLAYER_RADIUS = 1
  COIN_RADIUS = 0
  AXIS_STEP = 1
  DIAG_STEP = 1
  Inputs <- LeftOrRight
  SpawnPositions <- Middle
  CoinPositions <- Middle
  FRAME_CAP = 2
  TICK_MOD = 2
  MaxTick = 8
  RECV_BATCH = 2
  DescriptorLimit = 1
  MaxQueued = 0
  MaxFlight = 2
  MaxInputs = 3
INVARIANTS TypeOK InputsInOrder AuthoritativePosition
PROPERTIES InputsApplied WelcomeArrives DepartedLeaves SignalStops
CHECK_DEADLOCK FALSE
