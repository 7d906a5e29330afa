SPECIFICATION FairSpec
CONSTANTS
  Threads = {t1, t2}
  None = None
  Global = Global
  Word = 4
  Mix <- MCMix
  Seeds = {3}
  States <- MCStates
  Maxes = {0, 2}
  Calls = 3
INVARIANTS
  TypeOK
  MutualExclusion
  DrawsInOrder
PROPERTIES
  CallsReturn
  IsAtomic
CHECK_DEADLOCK FALSE
