SPECIFICATION Spec
CONSTANTS
  DirPaths = {}
  FilePaths <- MCNames
  Trees <- MCNameTrees
  MaxChanges = 2
  MaxUnpolled = 2
  MaxEdits = 2
  MaxMishaps = 2
  MaxEvents = 5
  Fold <- MCNameFold
  CaseInsensitive = TRUE
INVARIANTS
  KeepsEditsUnlessFlawed
  MirrorsServerUnlessFlawed
  SettlesUnlessFlawed
PROPERTY
  OthersKeptUnlessFlawed
CHECK_DEADLOCK TRUE
