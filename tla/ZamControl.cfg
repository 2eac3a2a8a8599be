SPECIFICATION Spec
CONSTANTS
  Closures <- MCClosures
  MaxStack = 12
  MaxArgs = 3
  MaxTraps = 3
VIEW LiveView
INVARIANTS
  TypeOK
  StackLayout
  TrapChain
  ContextChain
  SavedContexts
  NativeLockstep
PROPERTIES
  FramesUntouched
  RefinesActivations
CHECK_DEADLOCK FALSE
