-------------------------- MODULE MCExpressionTypes --------------------------
(* A variable of each sort, a function, and a variable that hides one.     *)
EXTENDS ExpressionTypes, TLC

CONSTANTS
  Index,        \* an integer, initialised with 2
  Unset,        \* an integer without an initialiser
  Global,       \* an integer outside of functions
  Pair,         \* an array of two integers
  Message,      \* a string
  Arguments,    \* a slice
  Successor,    \* a function of an integer
  Swapped,      \* a function of a pair, which returns one
  Decade,       \* a function of an array of ten integers
  Ten,          \* such an array
  Large,        \* an array of 80000 bytes
  Archived,     \* a function of such an array
  Hidden,       \* a function, and a variable that hides it
  Nobody        \* not declared

PairType == ArrayOf(2, Int32)
LargeType == [dims |-> <<10, 10, 10, 10>>, base |-> "String"]
Local(type, given, literal) ==
  [type |-> type, given |-> given, literal |-> literal, place |-> "local"]
MCVariables ==
  (Index :> Local(Int32, TRUE, {2})) @@ (Unset :> Local(Int32, FALSE, {}))
    @@ (Global :> [Local(Int32, TRUE, {1}) EXCEPT !.place = "global"])
    @@ (Pair :> Local(PairType, TRUE, {}))
    @@ (Ten :> Local(ArrayOf(10, Int32), FALSE, {})) @@ (Message :> Local(Str, TRUE, {}))
    @@ (Arguments :> Local(Scalar("Slice"), FALSE, {}))
    @@ (Large :> Local(LargeType, TRUE, {})) @@ (Hidden :> Local(Int32, TRUE, {}))
MCFunctions ==
  (Successor :> [ret |-> Int32, params |-> <<Int32>>])
    @@ (Swapped :> [ret |-> PairType, params |-> <<PairType>>])
    @@ (Decade :> [ret |-> Int32, params |-> <<ArrayOf(10, Int32)>>])
    @@ (Archived :> [ret |-> Int32, params |-> <<LargeType>>])
    @@ (Hidden :> [ret |-> Bool, params |-> <<>>])

Literal(kind, n) == [kind |-> kind, number |-> n, name |-> NoName]
Named(x) == [kind |-> "id", number |-> 0, name |-> x]
Statement(kind, type) == [kind |-> kind, type |-> type]

(* Subscripts, literals of arrays and arithmetic. *)
ArrayLeaves ==
  {Literal("number", 0), Named(Index), Named(Unset), Named(Pair), Named(Message),
   Named(Successor)}
ArrayBranches == {"add", "minus", "access", "array"}
ArrayUses ==
  {Statement("let", Int32), Statement("let", PairType),
   Statement("print", NoType), Statement("return", Int32)}

(* Calls, comparisons and logic, with a value of each type. *)
CallLeaves ==
  {Literal("number", 1), Literal("float", 1), Literal("bool", 1), Named(Global), Named(Index),
   Named(Successor), Named(Hidden), Named(Nobody), Named(Arguments),
   Named(Pair), Named(Ten), Named(Swapped), Named(Decade)}
CallBranches == {"sub", "minus", "not", "eq", "less", "logical", "call"}
CallUses ==
  {Statement("let", Int32), Statement("let", Bool), Statement("let", Scalar("Slice")),
   Statement("let", Scalar("Pointer")), Statement("let", PairType),
   Statement("print", NoType), Statement("print_f", NoType), Statement("return", Int32)}

(* A local on the heap. *)
LargeLeaves ==
  {Literal("number", 0), Named(Large), Named(Ten), Named(Archived), Named(Decade)}
LargeBranches == {"add", "minus", "eq", "call", "access", "array"}
LargeUses ==
  {Statement("let", LargeType), Statement("let", Int32),
   Statement("let", Element(LargeType)), Statement("let", ArrayOf(1, LargeType)),
   Statement("print", NoType), Statement("print_f", NoType), Statement("return", Int32)}

Words(leaves, branches, uses, size) ==
  [leaves |-> leaves, branches |-> branches, uses |-> uses, size |-> size]
ArraysAndCalls ==
  {Words(ArrayLeaves, ArrayBranches, ArrayUses, 5),
   Words(CallLeaves, CallBranches, CallUses, 4),
   Words(LargeLeaves, LargeBranches, LargeUses, 4)}
===============================================================================
