SPECIFICATION Spec
CONSTANTS
  DirPaths = {}
  FilePaths <- MCNames
  Trees <- MCNameTrees
  MaxChanges = 2
  MaxUnpolled = 2
  MaxEdits = 0
  MaxMishaps = 0
  MaxEvents = 5
  Fold <- MCNameFold
  CaseInsensitive = FALSE
INVARIANT MirrorsServer
