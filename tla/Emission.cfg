SPECIFICATION FairSpec
CONSTANTS
  Vocabularies <- AllKinds
  TestNames <- TwoTestNames
  MaxStatements = 5
INVARIANTS
  TypeOK
  HeapFreedOnce
  OutcomeAsWritten
  StaysInFunction
  EntryCallsTests
PROPERTY CallsReturn
CHECK_DEADLOCK FALSE
