CONSTANTS
  NameX = NameX
  NameY = NameY
  NameF = NameF
  NoName = NoName
  Names <- VariableNames
  Statements <- InitialiserStatements
  MaxStatements = 4
SPECIFICATION Spec
INVARIANTS InitialisersAgree
SYMMETRY VariableSymmetry
CHECK_DEADLOCK FALSE
