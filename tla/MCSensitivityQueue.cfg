SPECIFICATION FairSpec
CONSTANTS
  BufferSize = 3
  Channel = {rel, abs, gone}
  Registered = {rel, abs}
  Relative = {rel}
  Sensitivity <- MCSensitivity
  Default <- MCDefault
  MaxRequests = 4
INVARIANTS
  SettledToLastRequest
PROPERTIES
  ImplementsFifo
  EveryRequestApplied
CHECK_DEADLOCK FALSE
