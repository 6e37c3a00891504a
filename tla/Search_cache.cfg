SPECIFICATION Spec
CONSTANTS
  s1 = s1
  s2 = s2
  Searcher <- MCSearcher
  Char <- MCChar
  Bytes <- MCBytes
  CJK <- MCCJK
  LowerIndexed <- MCLowerIndexed
  LowerQueried <- MCLowerQueried
  Corpus <- MCCorpus
  Query <- MCQuery
  PruneFreq = 80
  PruneMinDocs = 3
  BitmapMax = 2
  MaxSearches = 3
SYMMETRY Symmetry
INVARIANTS
  CacheMapped
  Sound
  Found
