SPECIFICATION FairSpec
CONSTANTS
  k1 = k1
  k2 = k2
  k3 = k3
  Keys <- MCKeys
  Hash <- MCHash
  PowersOfTwo <- MCPowers
  CallerSizes <- MCSizes
  Vals = {v1, v2}
  Entries = {e1, e2, e3}
  None = None
  Word = 32
  FirstSize = 4
INVARIANTS
  TypeOK
  Placed
  UniqueKeys
  CountOK
  ValuesLive
  LoadOK
  EachSafe
  EachComplete
PROPERTIES
  LoopsEnd
  IsMap
