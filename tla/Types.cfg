SPECIFICATION Spec
CONSTANTS
  Index = Index
  Unset = Unset
  Global = Global
  Pair = Pair
  Message = Message
  Arguments = Arguments
  Successor = Successor
  Swapped = Swapped
  Decade = Decade
  Ten = Ten
  Large = Large
  Archived = Archived
  Hidden = Hidden
  Nobody = Nobody
  NoName = NoName
  Variables <- MCVariables
  Functions <- MCFunctions
  Vocabularies <- ArraysAndCalls
  MaxNodes = 5
  MaxArity = 2
INVARIANTS
  TypeOK
  AcceptedIsTyped
  RejectedIsWrong
  AddressesOfNamesAreStored
  SupportedIsCompiled
  NullOnlyIfUntyped
  ValuesHaveTheirTypes
  CallsOfArraysRefused
CHECK_DEADLOCK FALSE
