SPECIFICATION Spec
CONSTANTS
  MimeGroup <- MCMimeGroup
  GroupRank <- MCGroupRank
  Byte = {1, 2}
  Content <- MCContent
  SmallEntryThreshold = 2
  ChunkTargetSize = 2
  TrainDict = FALSE
  DictSamples = 1
  CompressWorkers = 1
  MaxEntries = 5
  MaxFaults = 2
INVARIANTS
  TypeOK
  Readback
  StoredOnce
