SPECIFICATION Spec
CONSTANTS
  Algs = {A}
  KeyIds = {k1, k2}
  Clear = Clear
  NoKey = NoKey
  A = A
  k1 = k1
  k2 = k2
  KeySets <- MCKeySets
  Behaviors <- MCBehaviors
  MaxCalls = 2
  MaxSuper = 1
  MaxFaults = 3
CHECK_DEADLOCK FALSE
INVARIANTS TypeOK
PROPERTIES HeardRight Recovers SkipsSilently
