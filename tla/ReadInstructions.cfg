SPECIFICATION Spec
CONSTANT
  Files <- MCFiles
INVARIANTS
  TypeOK
  CursorsAgree
  RoundTrip
  SwitchReaches
CHECK_DEADLOCK FALSE
