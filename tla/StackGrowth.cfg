SPECIFICATION Spec
CONSTANTS
  Stack_threshold = 11
  Frame = 8
  Margin = 3
  InitSize = 11
  Sizes <- MCSizes
  Large = {14}
  MaxCalls = 3
  MaxTraps = 2
INVARIANTS
  TypeOK
  OverrunsUnchecked
  PointersCurrent
  TrapLinks
CHECK_DEADLOCK FALSE
