SPECIFICATION CalibrationSpec
CONSTANTS
  Sensors = {s1, s2}
  Channels = 2
  ScanA <- MCScanA
  ScanB <- MCScanB
  ScanSamples = 1
  MeasureSamples = 1
  Targets = {2, 10}
  MaxRequests = 2
INVARIANTS
  OutcomeKept
PROPERTIES
  CalibrationEnds

CHECK_DEADLOCK FALSE
