\* A log that is only appended to: text bytes, one inode.
CONSTANTS
  Chars = {"a", "b", "nl"}
  MatchLineLength = 4
  MaxLen = 6
  Inodes = {1}
  ProcPath = FALSE
  MatchList <- MCMatchList
  IgnoreList <- MCIgnoreList
  OpenCanFail = TRUE
SPECIFICATION Spec
INVARIANT TypeOK
INVARIANT LinesFromLineStart
INVARIANT ChangedIffMatched
