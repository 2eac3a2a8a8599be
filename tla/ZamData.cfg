SPECIFICATION Spec
CONSTANTS
  Definitions <- MCDefinitions
  Programs <- MCPrograms
  Literals <- MCLiterals
  Tags = {0, 1}
  Consts = {0, 1}
  Chars = {0, 200}
  Double_wosize = 2
  Locals = 3
  MaxStack = 6
  MaxBlocks = 9
INVARIANTS
  HeapParses
  EnvMatchesCode
PROPERTY RefinesOCamlObjects
CHECK_DEADLOCK FALSE
