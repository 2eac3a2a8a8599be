SPECIFICATION CSpec
CONSTANT Programs <- MCCompiled
INVARIANTS
  TypeOK
  TargetsKeptIfHighest
  FunctionsWhole
  StraightLine
  EdgesRight
  InitOnce
  ClosuresHaveCode
  GeneratedOnce
  CTypeOK
  InPlace
  EntersAtFront
  HandlersEntered
  OneTerminator
PROPERTY Compiles
CHECK_DEADLOCK FALSE
