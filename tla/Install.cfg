CONSTANTS
  None = None
  NoOne = None
  Wrong = Wrong
  Damaged = Damaged
  Order <- MCOrder
  Sources <- MCSources
  Requests <- MCRequests
  MaxEdits = 1
  MaxBuilds = 2
  MaxCommands = 2
SPECIFICATION MCSpec
INVARIANTS BuildsAreAccepted KeptIsWhole SuggestionsSuffice
PROPERTIES  PinsMoveByUpdate
CHECK_DEADLOCK FALSE
