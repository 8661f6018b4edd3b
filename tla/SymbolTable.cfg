SPECIFICATION FairSpec
CONSTANTS
  NameX = NameX
  NameF = NameF
  Names <- MCNames
  MaxTables = 4
  MaxSymbols = 2
INVARIANTS TypeOK ScopeChain FunctionsAtRoot WalkSkipsNothing
PROPERTIES ImplementsLexicalScope CallsReturn
CHECK_DEADLOCK FALSE
