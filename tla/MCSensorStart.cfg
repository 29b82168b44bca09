SPECIFICATION StartSpec
CONSTANTS
  a1 = a1
  a2 = a2
  a3 = a3
  a4 = a4
  g1 = g1
  p1 = p1
  None = None
  Device = {a1, a2, a3, a4, g1, p1}
  Kind <- MCKind
  Stages = 2
  Layouts <- MCLayouts
  WiredTo <- MCWiredTo
  Address <- MCAddress
  Installations <- MCInstallations
  MaxSensors = 3
INVARIANTS
  StagedOnce
  OwnSample
PROPERTIES
  FrameFresh
  FramesContinue
