CONSTANTS
  Callers = {c1, c2}
  Cmds = {"volume", "mute"}
  MaxAsks = 2
  MaxNoise = 1
  NBlocks = 3
  ResendLimit = 3
  PanelValues = {1, 100}
  WbGains = {0, 1024, 2047}
  WbOffsets <- MCOffsets
  MaxPanelOps = 2
SPECIFICATION MCSpec
INVARIANTS
  AnswersReach AnsweredGetTells NoRebootLoop
PROPERTIES CallReturns UpgradeIsTransfer UpgradeEnds
CHECK_DEADLOCK FALSE
