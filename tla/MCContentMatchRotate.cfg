\* A log that logrotate renames away once, fopen() always succeeding.
CONSTANTS
  Chars = {"a", "nl"}
  MatchLineLength = 4
  MaxLen = 3
  Inodes = {1, 2}
  ProcPath = FALSE
  MatchList <- MCMatchList
  IgnoreList <- MCIgnoreList
  OpenCanFail = FALSE
SPECIFICATION Spec

PROPERTY AllLinesRead
