CONSTANTS
  Args <- MCArgs
  Sizes <- MCSizes
SPECIFICATION Spec
INVARIANT StrToBytesExact
