SPECIFICATION Spec
CONSTANTS
  Uarts = {2, 4}
  MaxSaves = 2
  MaxSends = 3
PROPERTIES
  RetrySucceeds
CHECK_DEADLOCK FALSE
