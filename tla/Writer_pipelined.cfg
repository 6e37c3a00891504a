SPECIFICATION Spec
CONSTANTS
  MimeGroup <- MCMimeGroup
  GroupRank <- MCGroupRank
  Byte = {1, 2}
  Content <- MCContent
  SmallEntryThreshold = 2
  ChunkTargetSize = 2
  TrainDict = TRUE
  DictSamples = 2
  CompressWorkers = 2
  MaxEntries = 4
  MaxFaults = 0
INVARIANTS
  Readback
PROPERTIES
  UsesLog
