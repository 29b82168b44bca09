SPECIFICATION FairBinding
CONSTANTS
  c1 = c1
  c2 = c2
  c3 = c3
  Channel = {c1, c2, c3}
  None = None
  Areas = 2
  Hold = 2
  Timeout = 2
  MaxStarts = 2
  MaxStops = 1
  Impatient = FALSE
INVARIANTS
  OneAreaPerChannel
PROPERTIES
  BoundAsShown
  SessionEnds
CHECK_DEADLOCK FALSE
