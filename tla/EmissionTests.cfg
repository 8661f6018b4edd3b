SPECIFICATION Spec
CONSTANTS
  Vocabularies <- TestKinds
  TestNames <- TwoTestNames
  MaxStatements = 3
INVARIANT TestsAreRun
CHECK_DEADLOCK FALSE
