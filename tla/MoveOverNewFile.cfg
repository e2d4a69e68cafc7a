SPECIFICATION Spec
CONSTANTS
  DirPaths <- MCDirPaths
  FilePaths <- MCFilePaths
  Trees <- MCTrees
  MaxChanges = 2
  MaxUnpolled = 1
  MaxEdits = 2
  MaxMishaps = 0
  MaxEvents = 5
  Fold <- MCFold
  CaseInsensitive = FALSE
INVARIANT KeepsEdits
