SPECIFICATION Spec
CONSTANTS
  Letters <- MCLetters
  Digits <- MCDigits
  MaxTok = 6
  MaxNum = 6
  IntMax = 50
  MaxToks = 0
  Bytes <- AllBytes
  FreeBytes = 1
  Filler = 49
  MaxBytes = 1
  Codes <- MCCodes
  Begins = {}
  Begin = 255
  MaxLetters = 2
INVARIANT
  EntriesDoc
CHECK_DEADLOCK FALSE
