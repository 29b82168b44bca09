SPECIFICATION Board
CONSTANTS
  HalWait = 5
  ProtocolWait = 6
  ServiceWait = 2
  Limit = 5
  MaxWork = 2
  Uarts = {2, 4}
  MaxSaves = 2
  MaxSends = 3
  Stage = {0, 1}
  Field = {"afe", "sensitivity"}
  Top = 1
  MaxPresses = 2
  MaxSweeps = 1
  MaxRefusals = 1
  Widgets = 1
  CapMax = 2200
  CapDefault = 100
  ThDefault = 110
  BuiltIn <- MCBuiltIn
  PermilleDefault = 70
  Baseline = 1000
  Masters = {"controller", "tool"}
  Sensitivity = {0, 120}
  ThAsked = {0}
  PermilleAsked = {150}
  Delta = {100, 200}
  Steady = 100
  MaxChanges = 2
  Blocks = 2
  CountMod = 8
  MaxLogs = 3
INVARIANTS
  ServicesInOrder
  StreamUnbroken
  NoLostCompletion
  SettingsApplied
  LinesInOrder
PROPERTIES
  CoresStart
  WatchdogBites
  FrozenOnlyBySave
  RequestTakenWhole
  PageSettles
  ReleaseHasCause
CHECK_DEADLOCK FALSE
