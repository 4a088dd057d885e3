CONSTANTS
  NFlags = 2
  MaxObjects = 2
  MaxSize = 2
SPECIFICATION Spec
INVARIANTS
  ComesBack
  ReadInStep
