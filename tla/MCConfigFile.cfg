SPECIFICATION FileSpec
CONSTANTS
  Value = {15, 32, 34, 123, 125, 150}
  Quoted = {34, 123, 125}
  Default = 15
  None = None
  Wired = 1
  MaxRestarts = 2
  Bytes <- MCBytes
  Chunks = {1, 11, 64}
INVARIANTS
  RequestsServed
PROPERTIES
  ImplementsConfigStore
  ImplementsStore
