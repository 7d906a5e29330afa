SPECIFICATION FairSpec
CONSTANTS
  Letters <- MCLetters
  Digits <- MCDigits
  MaxTok = 6
  MaxNum = 3
  IntMax = 50
  InitCap = 1
  Shown <- MCShown
  Lines <- MCLines
  Paths <- MCPaths
  Files <- MCFiles
  MaxLine = 14
  MaxDepth = 1
  ConcatCap = 2
  MaxLines = 3
  Failures = 1
  Says <- MCSays
  Names <- MCNames
  PrintMax = 1
INVARIANTS
  TypeOK
  OpenFilesBounded
PROPERTIES
  Means
  LoadEnds
