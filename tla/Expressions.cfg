SPECIFICATION Spec
CONSTANTS
  Tokens <- ExpressionTokens
  Lookahead <- NearSeeds
  MaxEdits <- SeedExpressions
  MaxShort = 5
INVARIANTS
  TypeOK
  ParsesAsWritten
  RejectsOnlyMalformed
CHECK_DEADLOCK FALSE
