CONSTANTS
  NFlags = 2
  MaxObjects = 1
  MaxSize = 2
SPECIFICATION Spec
INVARIANT EqualAgain
