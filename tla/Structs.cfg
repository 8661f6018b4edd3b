SPECIFICATION Spec
CONSTANTS
  StructNames = {A, B}
  Fields <- FieldLists
  Prototypes <- FunctionPrototypes
  Types <- VariableTypes
  MaxStatements = 3
SYMMETRY Names2
INVARIANTS
  OutcomeAsDeclared
  LayoutsAsWritten
CHECK_DEADLOCK FALSE
