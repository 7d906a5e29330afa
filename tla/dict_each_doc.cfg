SPECIFICATION Spec
CONSTANTS
  k1 = k1
  k2 = k2
  k3 = k3
  Keys <- MCKeys
  Hash <- MCHash
  PowersOfTwo <- MCPowers8
  CallerSizes <- MCSizes
  Vals = {v1, v2}
  Entries = {e1, e2, e3}
  None = None
  Word = 16
  FirstSize = 4
INVARIANT
  EachCompleteDoc
