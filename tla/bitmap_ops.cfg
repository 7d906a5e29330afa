SPECIFICATION FairSpec
CONSTANTS
  Bits = 3
  Total = 7
  Word = 64
  IntWord = 32
  Addresses <- MCAddresses
  Counts <- MCCounts
  Gaps <- MCGaps
INVARIANTS
  TypeOK
  InBounds
  ExtentExact
  ReadsExact
  FindFirst
  GrowRight
PROPERTIES
  CallsEnd
