CONSTANTS
  Flags = {1, 2}
  IsLink = TRUE
  UsageCanFail = TRUE
  Usage <- MCUsage
  FilesystemList <- MCFilesystemList
SPECIFICATION Spec
INVARIANT FlagChangeJustified
INVARIANT NonexistTracksTarget
PROPERTY RemountReported
