SPECIFICATION Spec
CONSTANTS
  Size = 2
  ReadSize = 2
  Lamps <- MCLamps
  Colours <- MCColours
  TopColour = 1
  FadeTimes <- MCFadeTimes
  DefaultFade = 2
  Nodes <- MCNodes
  Addresses <- MCAddresses
  Broadcast = 255
  NotKnown = NotKnown
INVARIANTS
  CountBounded
  SettledColours
PROPERTIES
  FadeEnds
