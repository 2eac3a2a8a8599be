SPECIFICATION Spec
CONSTANT Tables <- MCTables
INVARIANTS
  Brackets
  FindsMethod
  Narrows
CHECK_DEADLOCK FALSE
