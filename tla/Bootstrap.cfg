SPECIFICATION Spec
CONSTANTS
  DirPaths <- MCDirPaths
  FilePaths <- MCFilePaths
  Trees <- MCTrees
  MaxRounds = 3
  MaxChanges = 3
  MaxFaults = 1
  MovesWhileFetching = FALSE
INVARIANT TypeOK
PROPERTIES
  TakesAtomicSnapshot
  Ends
CHECK_DEADLOCK TRUE
