\* The rotated log: a rotation between the stat() of check_file() and the fopen() of check_match().
CONSTANTS
  Chars = {"a", "nl"}
  MatchLineLength = 4
  MaxLen = 4
  Inodes = {1, 2}
  ProcPath = FALSE
  MatchList <- MCMatchList
  IgnoreList <- MCIgnoreList
  OpenCanFail = FALSE
SPECIFICATION Spec
INVARIANT LinesFromLineStart
