SPECIFICATION Spec
CONSTANTS
  w1 = w1
  w2 = w2
  k1 = k1
  k2 = k2
  Worker <- MCWorker
  Key <- MCKey
  ChunkTargetSize = 2
  MaxChunks = 5
SYMMETRY Symmetry
INVARIANTS
  TypeOK
  NoChunkLost
  NilMeansComplete
PROPERTIES
  DescsFrozen
  ImplementsLog
