SPECIFICATION Spec
CONSTANTS
  DirPaths = {}
  FilePaths <- MCNames
  Trees <- MCNameTrees
  MaxChanges = 1
  MaxUnpolled = 1
  MaxEdits = 1
  MaxMishaps = 0
  MaxEvents = 5
  Fold <- MCNameFold
  CaseInsensitive = TRUE
INVARIANT MirrorsServer
