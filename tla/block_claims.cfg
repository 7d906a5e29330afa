SPECIFICATION SpecClaims
CONSTANTS
  Bits = 3
  Total = 7
  Word = 64
  IntWord = 32
  Addresses = {}
  Counts = {}
  Gaps = {}
  Claimers = {a, b, c}
  NoOne = NoOne
  Sizes <- MCSizes
SYMMETRY AnyClaimer
INVARIANTS
  HeldExact
PROPERTIES
  IsPool
