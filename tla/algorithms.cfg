SPECIFICATION Spec
CONSTANTS
  Letters <- MCLetters
  Digits <- MCDigits
  MaxTok = 6
  MaxNum = 6
  IntMax = 50
  MaxToks = 3
  Bytes <- MCBytes
  FreeBytes = 2
  Filler = 49
  MaxBytes = 13
  Codes <- MCCodes
  Begins = {0, 8, 9, 10}
  Begin = 255
  MaxLetters = 2
INVARIANTS
  TokensReadBack
  CrcExact
  HashOrders
CHECK_DEADLOCK FALSE
