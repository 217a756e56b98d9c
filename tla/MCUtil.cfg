CONSTANTS
  Args <- MCArgs
  Sizes <- MCSizes
SPECIFICATION Spec
INVARIANTS
  StrToBytesInRange
  MemSzUnit
