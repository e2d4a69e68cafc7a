SPECIFICATION Spec
CONSTANTS
  DirPaths <- MCDirPaths
  FilePaths <- MCFilePaths
  Trees <- MCTrees
  MaxChanges = 2
  MaxUnpolled = 2
  MaxEdits = 3
  MaxMishaps = 0
  MaxEvents = 5
  Fold <- MCFold
  CaseInsensitive = FALSE
INVARIANT ReplannedKeeps
