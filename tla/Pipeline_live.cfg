\* Deadlock is left to Pipeline_safety: after Close the goroutines are gone.
SPECIFICATION FairSpec
CONSTANTS
  w1 = w1
  w2 = w2
  k1 = k1
  k2 = k2
  Worker <- MCWorker
  Key <- MCOneKey
  ChunkTargetSize = 1
  MaxChunks = 5
PROPERTIES
  CallsReturn
  NoStall
CHECK_DEADLOCK FALSE
