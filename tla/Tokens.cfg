SPECIFICATION FairSpec
CONSTANTS
  Characters <- SourceCharacters
  Letters <- LetterCharacters
  Lookahead <- NearSeeds
  keywords <- Words
  MaxEdits <- SeedLines
  MaxShort = 3
INVARIANTS
  TypeOK
  TokensAsWritten
  DiagnosticsPointAtTokens
PROPERTY ScanEnds
CHECK_DEADLOCK FALSE
