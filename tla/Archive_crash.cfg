SPECIFICATION Spec
CONSTANTS
  NumSections = 3
  ContentIdx = 2
  Signed = TRUE
  MaxChunks = 2
  MachineFails = TRUE
INVARIANTS
  HeaderMeansSections
  VerifiedWhole
  

  
