SPECIFICATION FairSpec
CONSTANTS
  Tokens <- StatementTokens
  Lookahead <- NearSeeds
  MaxEdits <- SeedPrograms
  MaxShort = 3
INVARIANTS
  TypeOK
  ProgramAsWritten
  TestsAsWritten
  RejectsOnlyMalformed
PROPERTY ParseEnds
CHECK_DEADLOCK FALSE
