SPECIFICATION Spec
CONSTANTS
  Closures <- MCClosures
  MaxStack = 12
  MaxArgs = 2
  MaxTraps = 3
INVARIANT RaiseTargetValid
CHECK_DEADLOCK FALSE
