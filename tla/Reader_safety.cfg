SPECIFICATION Spec
CONSTANTS
  a1 = a1
  a2 = a2
  r1 = r1
  r2 = r2
  Archive <- MCArchive
  Reader <- MCReader
  ChunkID = {1, 2, 3, 4}
  DictID = {1}
  DictOf <- MCDictOf
  Dict <- MCDict
  Oversize = {4}
  MaxSize = 2
  MaxReads = 5
SYMMETRY Symmetry
INVARIANTS
  TypeOK
  CacheAgrees
  ReadsRight
  KeepsRecent
