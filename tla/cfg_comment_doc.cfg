SPECIFICATION Spec
CONSTANTS
  Letters <- MCLetters
  Digits <- MCDigits
  MaxTok = 6
  MaxNum = 3
  IntMax = 50
  InitCap = 1
  Shown <- MCShown
  Lines <- MCDocLines
  Paths <- MCPaths
  Files <- MCFiles
  MaxLine = 14
  MaxDepth = 1
  ConcatCap = 2
  MaxLines = 1
  Failures = 0
  Says <- MCSays
  Names <- MCNames
  PrintMax = 1
INVARIANT
  TrailingCommentsIgnored
