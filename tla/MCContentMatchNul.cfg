\* A log that is only appended to, with a NUL byte among its bytes.
CONSTANTS
  Chars = {"a", "b", "nl", "nul"}
  MatchLineLength = 4
  MaxLen = 5
  Inodes = {1}
  ProcPath = FALSE
  MatchList <- MCMatchList
  IgnoreList <- MCIgnoreList
  OpenCanFail = FALSE
SPECIFICATION Spec
PROPERTY AllLinesRead
