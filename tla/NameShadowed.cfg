CONSTANTS
  NameX = NameX
  NameY = NameY
  NameF = NameF
  NoName = NoName
  Names <- TwoNames
  Statements <- TwoNameStatements
  MaxStatements = 4
SPECIFICATION Spec
INVARIANTS VariablesAreNotCalled
SYMMETRY TwoNameSymmetry
CHECK_DEADLOCK FALSE
