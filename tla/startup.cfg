CONSTANTS
  MaxArgs = 2
  Word <- MCWord
  PortMax = 3
  Digit <- MCDigit
  Files <- MCFiles
  Values <- MCValues
  MaxText = 8
  RepoLists <- MCLists
  RepoDirs <- MCDirs
  DirMax = 3
  NameMin = 2
SPECIFICATION Spec
INVARIANT StartupTypeOK
INVARIANT CommandIsMeant
INVARIANT ReadsWhatIsSaid
INVARIANT OnlyWholeLines
INVARIANT NothingLost
INVARIANT ZeroIsWritten
INVARIANT AllThereIsNone
PROPERTY ReadEnds
