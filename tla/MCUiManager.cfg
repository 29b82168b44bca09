SPECIFICATION Spec
CONSTANTS
  None = None
  Serial = TRUE
  Calibratable = TRUE
  Devices = 2
  Ad7147 = 1
  Connected = {2}
  Channels = 1
  Zones = 2
  ZoneAreas = 1
  Registers = 1
  Adjustable = TRUE
  Saved <- MCSaved
  MaxLines = 48
  Brightness = 0
  MaxDown = 2
  MaxChanges = 1
INVARIANTS
  LockOnSelector
PROPERTIES
  ImplementsMenu
  CursorFollowed
