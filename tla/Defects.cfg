SPECIFICATION Spec
CONSTANTS
  DirPaths <- MCDirPaths
  FilePaths <- MCFilePaths
  Trees <- MCTrees
  MaxChanges = 2
  MaxUnpolled = 2
  MaxEdits = 2
  MaxMishaps = 2
  MaxEvents = 4
  Fold <- MCFold
  CaseInsensitive = FALSE
INVARIANTS
  UnfetchedMirrors
  StrandedSettles
  ForgottenSettles
  ReplayedMirrors
  ReplannedMirrors
  OutrankedMirrors
  CarriedMirrors
  ReorderedMirrors
