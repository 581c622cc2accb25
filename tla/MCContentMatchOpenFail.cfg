\* The rotated log, with fopen() failing on some cycles.
CONSTANTS
  Chars = {"a", "nl"}
  MatchLineLength = 4
  MaxLen = 3
  Inodes = {1, 2}
  ProcPath = FALSE
  MatchList <- MCMatchList
  IgnoreList <- MCIgnoreList
  OpenCanFail = TRUE
SPECIFICATION Spec

PROPERTY AllLinesRead
