SPECIFICATION KeyboardsSpec
CONSTANTS
  Key <- MCKey
  Modifiers = {}
  Supported <- MCSupported
  Batch = 2
  Boards = 2
  TouchSlots = 2
  Pin <- MCPin
  PinKey <- MCPinKey
  BootDown = {{}, {1}}
  IdleHigh = {1, 2}
  Areas = {"A1", "B1"}
  Mappings <- MCMappings
  Device = {0, 4}
  IdBits <- MCIdBits
  Channels = {0, 1}
  Placed <- MCPlaced
  Modes = {"serial", "hid"}
  ClockTop = 2
  Wraps = FALSE
  Word = 100
  MaxSwitches = 1
INVARIANTS
  KeysOwned
  PressedKeysShown
PROPERTIES
  OncePerTouch
CHECK_DEADLOCK FALSE
