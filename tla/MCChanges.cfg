\* "if changed checksum" on a file that takes two contents, sizes and
\* timestamps, with a size and a timestamp rule on either side of a change rule,
\* and permission (0644) and uid rules; the path may name a directory, or
\* nothing, for a while.
CONSTANTS
  Values = {1, 2}
  Ages = {0, 1}
  ChecksumChanges = TRUE
  NoHash = NoHash
  ChecksumHash = NoHash
  SizeList <- MCSizeList
  TimestampList <- MCTimestampList
  Kind = "file"
  Types = {"reg", "dir"}
  Modes = {420, 438}
  Owners = {0, 1}
  Groups = {0}
  Perm = 420
  Uid = 0
  Gid = Null
  Null = Null
SPECIFICATION Spec
INVARIANT TypeOK
INVARIANT ChangesReported
