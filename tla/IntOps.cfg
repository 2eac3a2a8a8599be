SPECIFICATION Spec
CONSTANTS
  W = 5
  Immediates <- MCImmediates
INVARIANT StaysTagged
PROPERTY RefinesOCamlInts
CHECK_DEADLOCK FALSE
