SPECIFICATION FairSpec
CONSTANTS
  Size = 5
  Length = 3
  ReadSize = 4
  StreamSize = 4
  Commands = {"L", "A", "k", "help"}
  MaxCommands = 3
INVARIANTS
  CommandsInOrder
PROPERTIES
  LinesExecuted
CHECK_DEADLOCK FALSE
