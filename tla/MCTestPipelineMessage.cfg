SPECIFICATION Spec
CONSTANTS
  tag_line = tag_line
  EmptyLine = EmptyLine
  Absent = Absent
  NoCode = NoCode
  ExitCodes = {1, 2, 3}
  Texts <- MCTexts
  StaleTexts <- MCStaleTexts
  Paths <- MCPaths
INVARIANTS
  IdenticalIfPassed
