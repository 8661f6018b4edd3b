SPECIFICATION Spec
CONSTANTS
  Vocabularies <- ReturnKinds
  TestNames <- TwoTestNames
  MaxStatements = 3
INVARIANT ReturnedIsNotFreed
CHECK_DEADLOCK FALSE
