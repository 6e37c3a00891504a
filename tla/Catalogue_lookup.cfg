SPECIFICATION Spec
CONSTANTS
  RestartInterval = 2
  MinFreq = 2
  CountLimit = 3
  PrefixLimit = 5
  LengthLimit = 6
  Slash = 0
  Space = 9
  StandardTypes <- MCStandardTypes
  MIMELimit = 5
  StringLimit = 6
  Chars <- MCChars
  Invalid = 255
  Shuffles <- MCShuffles
  RedirectIDBit = 16
  MaxMetadataValueSize = 3
  Dates <- MCDates
  Languages <- MCLanguages
  ContentRecords <- MCContentRecords
  RedirectRecords <- MCRedirectRecords
  MetadataCalls <- MCMetadataCalls
  MaxNames = 4
CONSTRAINT TablesOrMetadata
CHECK_DEADLOCK FALSE
INVARIANTS
  OpensWhatFits
  LookupRight
  ResolveRight
  ListingsAgree
  VerifiedReads
  SearchRanks
