SPECIFICATION Spec
CONSTANTS
  DirPaths = {}
  FilePaths <- MCNames
  Trees <- MCNameTrees
  MaxChanges = 1
  MaxUnpolled = 1
  MaxEdits = 0
  MaxMishaps = 0
  MaxEvents = 5
  Fold <- MCNameFold
  CaseInsensitive = FALSE
PROPERTY DeletesOnlyWhatIsGone
