SPECIFICATION Spec
CONSTANTS
  Size = 4
  OffsetMod = 8
  TimeMod = 64
  Start = 10
  LastRound = 13
  MaxTime = 13
  Configs <- MCConfigs
  Delays <- MCDelays
  MinInterval = 2
  TxTime = 1
  MaxPreempt = 1
  MaxClears = 1
INVARIANTS
  OldEnough
  NewestOldEnough
  WindowRespected
CHECK_DEADLOCK FALSE
