SPECIFICATION GSpec
CONSTANTS
  Closures <- MCClosures
  MaxStack = 8
  MaxArgs = 2
  MaxTraps = 1
VIEW GView
INVARIANTS
  NothingReadIsDead
  SavedKinds
CHECK_DEADLOCK FALSE
