SPECIFICATION Spec
CONSTANTS
  d1 = d1
  p2 = p2
  Paths = {p1, p2}
  Dirs = {d1}
  Under <- MCUnder
  SkipKeys = {k1}
  Identities = {me, other}
  NoIdentity = NoIdentity
  NoRow = NoRow
  Versions = {v1}
  Cursors = {c1}
  NoCursor = NoCursor
  MaxSeq = 2
  MaxSkips = 2
INVARIANTS
  TypeOK
  SaveWritesMemory
  ScopeIsolation
PROPERTY
  ImplementsArchiveStore
