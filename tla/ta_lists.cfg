SPECIFICATION FairSpec
CONSTANTS
  c1 = c1
  c2 = c2
  a1 = a1
  a2 = a2
  a3 = a3
  None = None
  SizeMod = 4
  Contexts <- MCContexts
  Addr <- MCAddr
  Requests <- MCRequests
INVARIANTS
  TypeOK
  RingOK
  ChainOK
  CursorSafe
  LoopProgress
  TotalMem
PROPERTIES
  LoopFrees
  LoopsEnd
  Contract
