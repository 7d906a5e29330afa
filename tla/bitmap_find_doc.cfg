SPECIFICATION FairSpec
CONSTANTS
  Bits = 3
  Total = 18
  Word = 64
  IntWord = 16
  Addresses <- DocAddresses
  Counts <- DocCounts
  Gaps <- DocGaps
INVARIANTS
  FoundIsFree
