SPECIFICATION Spec
CONSTANTS
  Calls = {c1, c2, c3}
  NoCall = NoCall
  Keys = {k1, k2}
  NoKey = NoKey
CHECK_DEADLOCK FALSE
PROPERTY InTurn
