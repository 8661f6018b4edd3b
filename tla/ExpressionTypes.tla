---------------------------- MODULE ExpressionTypes ----------------------------
(***************************************************************************)
(* One statement of a function through the type checker, which writes the  *)
(* datatype of the nodes it visits, and the code generator, which reads    *)
(* them.  Each visitor is a machine with a frame per Visit that has not    *)
(* returned.  What the names of the statement mean is given: how they are  *)
(* resolved is the subject of NameResolution.                              *)
(***************************************************************************)
EXTENDS Integers, Sequences, FiniteSets

LOCAL INSTANCE Functions

CONSTANTS
  NoName,        \* of a node without a name
  Variables,     \* the variables in scope, by name
  Functions,     \* the functions in scope, by name
  Vocabularies,  \* bound: which nodes and statements may meet in a program
  MaxNodes,      \* bound: nodes of the expression
  MaxArity       \* bound: elements or arguments of a node

(* Type and its subclasses, without spans: the sizes of the arrays, and    *)
(* what they hold in the end.  What a pointer points to is never read.     *)
Scalar(base) == [dims |-> <<>>, base |-> base]
Bases == {"Int", "Float", "Bool", "String", "Slice", "Pointer", "Dirty"}
Types == [dims : Seq(Nat), base : Bases]
Written == [dims : Seq(Nat), base : Bases \ {"Dirty"}]
Int32 == Scalar("Int")
Bool == Scalar("Bool")
Dirty == Scalar("Dirty")
NoType == Scalar("none")
GetKind(type) == IF type.dims = <<>> THEN type.base ELSE "Array"
ArrayOf(size, type) == [type EXCEPT !.dims = <<size>> \o @]
Element(type) == [type EXCEPT !.dims = Tail(@)]

(* TypeSlice::Clone makes a TypePointer. *)
Clone(type) == [type EXCEPT !.base = IF @ = "Slice" THEN "Pointer" ELSE @]

(* A variable: its type, whether it has an initialiser, the number that is *)
(* its initialiser if one is, and whether it is local or global.           *)
VariableEntries ==
  [type : Written, given : BOOLEAN, literal : SUBSET Nat, place : {"local", "global"}]
FunctionEntries == [ret : Written, params : Seq(Written)]

(* The bytes a type takes, and the types of the locals that are not on the *)
(* stack.  Only an array takes as much.                                    *)
BaseSize(base) ==
  CASE base \in {"Int", "Float"} -> 4
    [] base = "Bool" -> 1
    [] OTHER -> 8
GetTypeSize(type) ==
  FoldFunction(LAMBDA size, bytes : size * bytes, BaseSize(type.base), type.dims)
STACK_LIMIT_BYTES == 64 * 1024
IsLarge(type) == type.dims # <<>> /\ GetTypeSize(type) > STACK_LIMIT_BYTES

ArithmeticKinds == {"add", "sub"}
LeafKinds == {"number", "float", "string", "bool", "id"}
BranchKinds ==
  ArithmeticKinds \cup {"minus", "not", "eq", "less", "logical", "call", "access", "array"}

(* Only a declaration has a type in the text. *)
StatementKinds == {"let", "print", "print_f", "return"}
IsStatement(statement) ==
  /\ statement.kind \in StatementKinds
  /\ statement.kind = "let" => statement.type \in Written

ASSUME EntriesAssumption ==
  /\ \A x \in DOMAIN Variables :
       /\ Variables[x] \in VariableEntries
       /\ Cardinality(Variables[x].literal) =< 1
       /\ Variables[x].literal # {} => Variables[x].given
  /\ \A f \in DOMAIN Functions : Functions[f] \in FunctionEntries
  /\ \A v \in Vocabularies :
       /\ \A leaf \in v.leaves : leaf.kind \in LeafKinds /\ leaf.number \in Nat
       /\ v.branches \subseteq BranchKinds /\ v.size <= MaxNodes
       /\ \A statement \in v.uses : IsStatement(statement)
  /\ MaxNodes \in Nat /\ MaxArity \in Nat

VARIABLES
  nodes,      \* the nodes of the expression, operands before their operators
  open,       \* the nodes that are no operand yet
  use,        \* the statement
  pass,       \* "parse", "check" or "generate"
  calls,      \* the visits that have not returned, the innermost last
  types,      \* the datatype of each node
  errors,     \* how many errors the checker has
  lastValue,  \* CodeGenVisitor::lastValue
  values,     \* what evaluate returned for each node
  stored,     \* the value the statement consumes
  outcome     \* "running" or how the compilation ended

vars == <<nodes, open, use, pass, calls, types, errors, lastValue, values, stored, outcome>>
text == <<nodes, open, use>>

(***************************************************************************)
(* Values of the generator.  IdExpr leaves the address of a local, a       *)
(* subscript the address of the element; each consumer loads what it will, *)
(* and none of them what malloc returned.                                  *)
(***************************************************************************)
Value(type) == [form |-> "value", type |-> type]
Alloca(type) == [form |-> "alloca", type |-> type]
ElementPtr(type) == [form |-> "gep", type |-> type]
Malloced(type) == [form |-> "heap", type |-> type]
NoValue == [form |-> "null", type |-> NoType]
Str == Scalar("String")

(* The LLVM type a swa type has: addresses and strings are pointers. *)
Lowered(type) ==
  [type EXCEPT !.base = IF @ \in {"String", "Slice", "Pointer"} THEN "ptr" ELSE @]
IRType(value) ==
  IF value.form = "value" THEN Lowered(value.type) ELSE Scalar("ptr")
LoadAlloca(value) == IF value.form = "alloca" THEN Value(value.type) ELSE value
LoadAny(value) == IF value.form \in {"alloca", "gep"} THEN Value(value.type) ELSE value
IsIntegral(irType) == irType \in {Int32, Bool}

(* What the statement before this one has left in lastValue. *)
Leftovers == {NoValue, Alloca(Int32), Value(Int32)}

Init ==
  /\ nodes = <<>> /\ open = <<>> /\ use = [kind |-> "none"]
  /\ pass = "parse" /\ calls = <<>>
  /\ types = <<>> /\ errors = 0
  /\ lastValue \in Leftovers /\ values = <<>> /\ stored = NoValue
  /\ outcome = "running"

-----------------------------------------------------------------------------
(* The parser, an expression at a time: a node, then the statement. *)

(* The vocabularies that have the nodes. *)
Spelt(expression) ==
  {v \in Vocabularies :
     /\ Len(expression) <= v.size
     /\ \A k \in DOMAIN expression : LET node == expression[k] IN
          IF node.kind \in LeafKinds
          THEN [kind |-> node.kind, number |-> node.number, name |-> node.name] \in v.leaves
          ELSE node.kind \in v.branches}

AddNode(kind, number, name, arity) ==
  LET left == Len(open) - arity
      node == [kind |-> kind, number |-> number, name |-> name,
               children |-> SubSeq(open, left + 1, Len(open))]
  IN  /\ pass = "parse" /\ left >= 0
      /\ nodes' = Append(nodes, node)
      /\ Spelt(nodes') # {}
      /\ open' = Append(SubSeq(open, 1, left), Len(nodes) + 1)
      /\ UNCHANGED <<use, pass, calls, types, errors, lastValue, values, stored, outcome>>

Arities(kind) ==
  CASE kind \in ArithmeticKinds \cup {"eq", "less", "logical", "access"} -> {2}
    [] kind \in {"minus", "not"} -> {1}
    [] kind = "call" -> 1 .. MaxArity + 1
    [] kind = "array" -> 0 .. MaxArity

AddLeaf ==
  \E leaf \in UNION {v.leaves : v \in Vocabularies} :
    AddNode(leaf.kind, leaf.number, leaf.name, 0)
AddBranch ==
  \E kind \in BranchKinds : \E arity \in Arities(kind) : AddNode(kind, 0, NoName, arity)

Root == Len(nodes)
Frame(node) == [node |-> node, done |-> 0]

(* The checker looks into declarations and print statements only. *)
IsChecked(kind) == kind \in {"let", "print"}

ParseStatement ==
  /\ pass = "parse" /\ Len(open) = 1
  /\ \E v \in Spelt(nodes) : use' \in v.uses
  /\ pass' = "check"
  /\ types' = [i \in DOMAIN nodes |-> NoType]
  /\ values' = [i \in DOMAIN nodes |-> NoValue]
  /\ calls' = IF IsChecked(use'.kind) THEN <<Frame(Root)>> ELSE <<>>
  /\ UNCHANGED <<nodes, open, errors, lastValue, stored, outcome>>

-----------------------------------------------------------------------------
(* The visits of both passes. *)

Top == calls[Len(calls)]
Node == nodes[Top.node]
Child(k) == Node.children[k]
Running(of) == outcome = "running" /\ pass = of

(* The nodes whose Accept a Visit of the checker calls, in its order.  It  *)
(* visits the first element of an array twice, no argument of a call, and  *)
(* nothing below a comparison.                                             *)
CheckerVisits(node) ==
  LET c == node.children IN
  CASE node.kind \in {"eq", "less"} -> <<>>
    [] node.kind = "call" -> <<c[1]>>
    [] node.kind = "access" -> <<c[2], c[1]>>
    [] node.kind = "array" /\ c # <<>> -> <<c[1]>> \o c
    [] OTHER -> c

(* The same of the generator; the callee of a call is only read. *)
GeneratorVisits(node) ==
  CASE node.kind = "less" -> <<>>
    [] node.kind = "call" -> Tail(node.children)
    [] OTHER -> node.children

Visits == IF pass = "check" THEN CheckerVisits(Node) ELSE GeneratorVisits(Node)
Visited(of) == Running(of) /\ calls # <<>> /\ Top.done = Len(Visits)
Finishes(of, kinds) == Visited(of) /\ Node.kind \in kinds

(* Mutant: the first child is visited in place of each. *)
AcceptFirst ==
  /\ calls' = Append(calls, Frame(Visits[1]))
  /\ UNCHANGED <<text, pass, types, errors, lastValue, values, stored, outcome>>

Accept ==
  /\ calls' = Append(calls, Frame(Visits[Top.done + 1]))
  /\ UNCHANGED <<text, pass, types, errors, lastValue, values, stored, outcome>>

Returned ==
  LET n == Len(calls) - 1 IN
  IF n = 0 THEN <<>> ELSE [SubSeq(calls, 1, n) EXCEPT ![n].done = @ + 1]

Ends(how) ==
  /\ outcome' = how
  /\ UNCHANGED <<text, pass, calls, types, errors, lastValue, values, stored>>

-----------------------------------------------------------------------------
(* TypeCheckVisitor. *)

Datatype(type, reported) ==
  /\ types' = [types EXCEPT ![Top.node] = type]
  /\ errors' = errors + reported
  /\ calls' = Returned
  /\ UNCHANGED <<text, pass, lastValue, values, stored, outcome>>

TypeOfChild(k) == types[Child(k)]
Untyped(k) == TypeOfChild(k) = NoType
LiteralType(kind) ==
  CASE kind = "number" -> Int32
    [] kind = "float" -> Scalar("Float")
    [] kind = "string" -> Str
    [] kind = "bool" -> Bool

CheckLiteral ==
  /\ Finishes("check", LeafKinds \ {"id"})
  /\ Datatype(LiteralType(Node.kind), 0)

(* A function is a symbol like any other: its name has its return type. *)
CheckId ==
  /\ Finishes("check", {"id"})
  /\ IF Node.name \in DOMAIN Variables
       THEN Datatype(Clone(Variables[Node.name].type), 0)
     ELSE IF Node.name \in DOMAIN Functions
       THEN Datatype(Clone(Functions[Node.name].ret), 0)
     ELSE Datatype(Dirty, 1)

(* ValidateArithmetic leaves both operands dirty when it reports. *)
ArithmeticFails(left, right) == left # right \/ left \in {Str, Bool}

CheckArithmetic ==
  /\ Finishes("check", ArithmeticKinds)
  /\ ~ Untyped(1) /\ ~ Untyped(2)
  /\ IF ArithmeticFails(TypeOfChild(1), TypeOfChild(2))
       THEN Datatype(Dirty, 1)
       ELSE Datatype(Clone(TypeOfChild(1)), 0)

CheckMinus ==
  /\ Finishes("check", {"minus"})
  /\ ~ Untyped(1)
  /\ Datatype(Clone(TypeOfChild(1)), 0)

(* Mutant: a logical operation has no type, like a comparison. *)
CheckLogicalUntyped == Finishes("check", {"logical"}) /\ Datatype(NoType, 0)

CheckLogical == Finishes("check", {"logical"}) /\ Datatype(Bool, 0)
CheckComparison == Finishes("check", {"eq", "less"}) /\ Datatype(NoType, 0)

(* lookupSwaFunc throws for a name that is a variable. *)
IsNamed(node) == nodes[node].kind = "id"
Callable(name) == name \in DOMAIN Functions \ DOMAIN Variables
CheckCall ==
  /\ Finishes("check", {"call"})
  /\ IF IsNamed(Child(1))
       THEN Datatype(IF Callable(nodes[Child(1)].name)
                       THEN Clone(Functions[nodes[Child(1)].name].ret) ELSE Dirty, 0)
       ELSE ~ Untyped(1) /\ Datatype(Clone(TypeOfChild(1)), 0)

(* Mutant: the last element is out of bounds. *)
OutOfBoundsAtLast(index, size) ==
  \/ index.kind = "number" /\ index.number >= size - 1
  \/ /\ index.kind = "id" /\ index.name \in DOMAIN Variables
     /\ \E n \in Variables[index.name].literal : n >= size - 1

(* Index is the index node, size that of the array it is for. *)
OutOfBounds(index, size) ==
  \/ index.kind = "number" /\ index.number >= size
  \/ /\ index.kind = "id" /\ index.name \in DOMAIN Variables
     /\ \E n \in Variables[index.name].literal : n >= size
(* The symbol of a function has no initialiser either. *)
Uninitialised(index) ==
  /\ index.kind = "id"
  /\ \/ index.name \in DOMAIN Variables /\ ~ Variables[index.name].given
     \/ Callable(index.name)
AccessFails(array, index, type) ==
  \/ GetKind(array) # "Array"
  \/ GetKind(type) # "Int"
  \/ index.kind = "minus"
  \/ OutOfBounds(index, Head(array.dims))

CheckAccess ==
  LET array == TypeOfChild(1)
      type == TypeOfChild(2)
      index == nodes[Child(2)]
  IN  /\ Finishes("check", {"access"})
      /\ ~ Untyped(2) /\ (type # Dirty => ~ Untyped(1))
      /\ IF type = Dirty \/ array = Dirty THEN Datatype(Dirty, 0)
         ELSE IF AccessFails(array, index, type) THEN Datatype(Dirty, 1)
         ELSE IF Uninitialised(index) THEN Datatype(NoType, 0)
         ELSE Datatype(Clone(Element(array)), 0)

(* The array literal is left at the first element of another type than the *)
(* first one; those after it are not visited.                              *)
Element1 == Clone(TypeOfChild(1))
(* Mutant: the elements may differ. *)
MixedNever == FALSE

Mixed ==
  /\ Running("check") /\ calls # <<>> /\ Node.kind = "array" /\ Top.done > 1
  /\ TypeOfChild(Top.done - 1) # NoType /\ TypeOfChild(Top.done - 1) # Element1

CheckMixed == Mixed /\ Datatype(Dirty, 1)
CheckArray ==
  /\ Finishes("check", {"array"})
  /\ ~ Mixed
  /\ IF Node.children = <<>> THEN Datatype(Dirty, 1)
     ELSE /\ ~ Untyped(Len(Node.children))
          /\ Datatype(ArrayOf(Len(Node.children), Element1), 0)

(* A datatype is read through a null pointer.  UnaryNotExpr reads its own, *)
(* which is not set yet.                                                   *)
ReadsNull ==
  LET c == Node.children IN
  \/ Visited("check") /\ Node.kind = "not"
  \/ Visited("check") /\ Node.kind \in ArithmeticKinds /\ (Untyped(1) \/ Untyped(2))
  \/ Visited("check") /\ Node.kind = "minus" /\ Untyped(1)
  \/ Visited("check") /\ Node.kind = "call" /\ ~ IsNamed(c[1]) /\ Untyped(1)
  \/ /\ Visited("check") /\ Node.kind = "access"
     /\ Untyped(2) \/ (TypeOfChild(2) # Dirty /\ Untyped(1))
  \/ /\ Running("check") /\ calls # <<>> /\ Node.kind = "array" /\ Top.done > 0
     /\ Untyped(IF Top.done = 1 THEN 1 ELSE Top.done - 1)
CheckUndefined == ReadsNull /\ Ends("undefined")

CheckAccept ==
  /\ Running("check") /\ calls # <<>> /\ Top.done < Len(Visits)
  /\ ~ Mixed /\ ~ ReadsNull
  /\ Accept

(* DeclarationExpr compares; then checkErrors. *)
Incompatible == use.kind = "let" /\ types[Root] \notin {Dirty, use.type}
CheckStatement ==
  /\ Running("check") /\ calls = <<>>
  /\ use.kind = "let" => types[Root] # NoType
  /\ errors' = errors + IF Incompatible THEN 1 ELSE 0
  /\ IF errors' > 0
       THEN outcome' = "rejected" /\ UNCHANGED <<pass, calls>>
       ELSE pass' = "generate" /\ calls' = <<Frame(Root)>> /\ UNCHANGED outcome
  /\ UNCHANGED <<text, types, lastValue, values, stored>>

CheckStatementUndefined ==
  /\ Running("check") /\ calls = <<>> /\ use.kind = "let" /\ types[Root] = NoType
  /\ Ends("undefined")

-----------------------------------------------------------------------------
(* CodeGenVisitor.  evaluate takes what the visit left in lastValue, and   *)
(* clears it.                                                              *)

Evaluated(value) ==
  /\ values' = [values EXCEPT ![Top.node] = value]
  /\ lastValue' = NoValue
  /\ calls' = Returned
  /\ UNCHANGED <<text, pass, types, errors, stored, outcome>>

ValueOfChild(k) == values[Child(k)]
Null(k) == ValueOfChild(k) = NoValue
HasDirty(type) == type.base = "Dirty"

(* What ends the generation of a node before its children are visited. *)
RefusedEarly ==
  \/ Node.kind = "logical"
  \/ /\ Node.kind = "call"
     /\ ~ IsNamed(Child(1)) \/ nodes[Child(1)].name \notin DOMAIN Functions
  \/ Node.kind = "array" /\ HasDirty(types[Top.node])
NullEarly == Node.kind = "array" /\ types[Top.node] = NoType
Entered == Running("generate") /\ calls # <<>> /\ Top.done = 0

GenerateRefused == Entered /\ RefusedEarly /\ Ends("threw")
GenerateNull == Entered /\ NullEarly /\ Ends("undefined")

GenerateAccept ==
  /\ Running("generate") /\ calls # <<>> /\ Top.done < Len(Visits)
  /\ ~ RefusedEarly /\ ~ NullEarly
  /\ Accept

Ready(kinds) == Finishes("generate", kinds) /\ ~ RefusedEarly /\ ~ NullEarly

GenerateLiteral ==
  /\ Ready(LeafKinds \ {"id"})
  /\ Evaluated(Value(LiteralType(Node.kind)))

(* A local is an alloca, or what malloc returned; a global is the value it *)
(* was initialised with.                                                   *)
LocalAddress(type) == IF IsLarge(type) THEN Malloced(type) ELSE Alloca(type)
GenerateId ==
  /\ Ready({"id"})
  /\ IF Node.name \in DOMAIN Variables
       THEN LET x == Variables[Node.name] IN
            Evaluated(IF x.place = "local" THEN LocalAddress(x.type) ELSE Value(x.type))
       ELSE Ends("threw")

(* The orderings other than equality have empty visits: the value is the   *)
(* one that was in lastValue before.                                       *)
GenerateLess == Ready({"less"}) /\ Evaluated(lastValue)

(* evaluate_bin_expr loads the operands that are allocas.  LLVM refuses    *)
(* operands of two types, or that are not integers, by an assertion or in  *)
(* the verifier.                                                           *)
GenerateOperands(left, right) ==
  IF Null(1) \/ Null(2) THEN Ends("undefined")
  ELSE IF IRType(left) = IRType(right) /\ IsIntegral(IRType(left))
    THEN Evaluated(Value(IRType(left)))
  ELSE Ends("malformed")

(* Mutant: the operands are used as they come. *)
GenerateArithmeticOfAddresses ==
  Ready(ArithmeticKinds) /\ GenerateOperands(ValueOfChild(1), ValueOfChild(2))

GenerateArithmetic ==
  /\ Ready(ArithmeticKinds)
  /\ GenerateOperands(LoadAlloca(ValueOfChild(1)), LoadAlloca(ValueOfChild(2)))

(* EqExpr compares what the operands leave, addresses included. *)
(* Mutant: a comparison has the type of what it compares. *)
GenerateEqOfOperands ==
  /\ Ready({"eq"})
  /\ LET left == IRType(ValueOfChild(1))
         right == IRType(ValueOfChild(2))
     IN  IF Null(1) \/ Null(2) THEN Ends("undefined")
         ELSE IF left = right THEN Evaluated(Value(left))
         ELSE Ends("malformed")

Comparable(irType) == IsIntegral(irType) \/ irType = Scalar("ptr")
GenerateEq ==
  /\ Ready({"eq"})
  /\ LET left == IRType(ValueOfChild(1))
         right == IRType(ValueOfChild(2))
     IN  IF Null(1) \/ Null(2) THEN Ends("undefined")
         ELSE IF left = right /\ Comparable(left) THEN Evaluated(Value(Bool))
         ELSE Ends("malformed")

GenerateUnary ==
  /\ Ready({"minus", "not"})
  /\ IF Null(1) THEN Ends("undefined")
     ELSE IF IsIntegral(IRType(ValueOfChild(1)))
       THEN Evaluated(Value(IRType(ValueOfChild(1))))
     ELSE Ends("malformed")

(* Mutant: the size of the array is looked at. *)
PrototypeOfItsSize(type) == Lowered(type)

(* The prototypes are those of the declaration visitor, for which arrays   *)
(* have ten elements.                                                      *)
Prototype(type) == Lowered([type EXCEPT !.dims = [k \in DOMAIN @ |-> 10]])

GenerateCall ==
  /\ Ready({"call"})
  /\ LET f == Functions[nodes[Child(1)].name]
         args == [k \in 1 .. Len(Node.children) - 1 |-> LoadAlloca(ValueOfChild(k + 1))]
     IN  IF \E k \in DOMAIN args : args[k] = NoValue THEN Ends("undefined")
         ELSE IF [k \in DOMAIN args |-> IRType(args[k])]
                   = [k \in DOMAIN f.params |-> Prototype(f.params[k])]
           THEN Evaluated(Value(Prototype(f.ret)))
         ELSE Ends("malformed")

(* The type of the array is that of its node, which the checker may not    *)
(* have visited.  The index is loaded if it is an alloca.                  *)
GenerateAccess ==
  /\ Ready({"access"})
  /\ IF TypeOfChild(1) = NoType \/ Null(1) \/ Null(2) THEN Ends("undefined")
     ELSE IF HasDirty(TypeOfChild(1)) THEN Ends("threw")
     ELSE IF /\ IRType(ValueOfChild(1)) = Scalar("ptr")
             /\ IsIntegral(IRType(LoadAlloca(ValueOfChild(2))))
       THEN Evaluated(ElementPtr(Element(TypeOfChild(1))))
     ELSE Ends("malformed")

(* The literal is stored in an alloca of its own and loaded. *)
GenerateArray ==
  /\ Ready({"array"})
  /\ IF \E k \in DOMAIN Node.children : Null(k)
       THEN Ends("undefined")
       ELSE Evaluated(Value(types[Top.node]))

(* The statement.  A declaration and a return store the value as it is, a  *)
(* declaration zero when there is none, and nothing in a large local;      *)
(* print loads by the datatype, and needs one to choose the format.        *)
Consumes(value) ==
  /\ stored' = value
  /\ outcome' = "generated"
  /\ UNCHANGED <<text, pass, calls, types, errors, lastValue, values>>

Generated(kind) == Running("generate") /\ calls = <<>> /\ use.kind = kind

StoreLet ==
  /\ Generated("let")
  /\ Consumes(IF IsLarge(use.type) THEN NoValue
              ELSE IF values[Root] = NoValue THEN Value(use.type)
              ELSE values[Root])

StoreReturn ==
  /\ Generated("return")
  /\ IF values[Root] = NoValue THEN Ends("undefined") ELSE Consumes(values[Root])

PrintKinds == {"Bool", "Int", "Float", "String", "Array"}
(* Mutant: the address of an element is not loaded. *)
PrintLoadingAllocas ==
  /\ Generated("print")
  /\ IF HasDirty(types[Root]) \/ values[Root] = NoValue THEN Ends("threw")
     ELSE IF types[Root] = NoType THEN Ends("undefined")
     ELSE IF GetKind(types[Root]) \notin PrintKinds THEN Ends("threw")
     ELSE Consumes(LoadAlloca(values[Root]))

PrintValue ==
  /\ Generated("print")
  /\ IF HasDirty(types[Root]) \/ values[Root] = NoValue THEN Ends("threw")
     ELSE IF types[Root] = NoType THEN Ends("undefined")
     ELSE IF GetKind(types[Root]) \notin PrintKinds THEN Ends("threw")
     ELSE Consumes(LoadAny(values[Root]))

PrintFormatted ==
  /\ Generated("print_f")
  /\ IF values[Root] = NoValue THEN Ends("threw")
     ELSE Consumes(LoadAlloca(values[Root]))

Next ==
  \/ AddLeaf \/ AddBranch \/ ParseStatement
  \/ CheckAccept \/ CheckLiteral \/ CheckId \/ CheckArithmetic \/ CheckMinus
  \/ CheckLogical \/ CheckComparison \/ CheckCall \/ CheckAccess \/ CheckMixed
  \/ CheckArray \/ CheckUndefined \/ CheckStatement \/ CheckStatementUndefined
  \/ GenerateAccept \/ GenerateRefused \/ GenerateNull \/ GenerateLiteral
  \/ GenerateId \/ GenerateLess \/ GenerateArithmetic \/ GenerateEq
  \/ GenerateUnary \/ GenerateCall \/ GenerateAccess \/ GenerateArray
  \/ StoreLet \/ StoreReturn \/ PrintValue \/ PrintFormatted

Spec == Init /\ [][Next]_vars

-----------------------------------------------------------------------------
(***************************************************************************)
(* What the expression means, from its text alone.                         *)
(***************************************************************************)
Wrong == Scalar("wrong")

Holds(node) == node.kind = "id" /\ node.name \in DOMAIN Variables

(* An index is an integer that is not negated and, where it is a number or *)
(* a variable initialised with one, is within bounds.                      *)
ValidIndex(index, type, size) ==
  /\ type = Int32 /\ index.kind # "minus"
  /\ index.kind = "number" => index.number \in 0 .. size - 1
  /\ Holds(index) => Variables[index.name].literal \subseteq 0 .. size - 1

(* The type of a node whose operands have the types part.  What the        *)
(* checker does not look into, below a comparison and in the arguments of  *)
(* a call, has no part in it.                                              *)
TypeOf(node, part) ==
  LET operand(k) == nodes[node.children[k]] IN
  CASE node.kind \in LeafKinds \ {"id"} -> LiteralType(node.kind)
    [] node.kind = "id" ->
         IF node.name \in DOMAIN Variables THEN Variables[node.name].type
         ELSE IF node.name \in DOMAIN Functions THEN Functions[node.name].ret
         ELSE Wrong
    [] node.kind \in {"eq", "less", "logical"} -> Bool
    [] node.kind = "call" ->
         IF operand(1).kind = "id" /\ ~ Callable(operand(1).name) THEN Wrong ELSE part[1]
    [] node.kind \in ArithmeticKinds ->
         IF part[1] = part[2] /\ part[1] \notin {Str, Bool} THEN part[1] ELSE Wrong
    [] node.kind \in {"minus", "not"} -> part[1]
    [] node.kind = "access" ->
         IF part[1].dims # <<>> /\ ValidIndex(operand(2), part[2], Head(part[1].dims))
           THEN Element(part[1]) ELSE Wrong
    [] node.kind = "array" ->
         IF part # <<>> /\ part[1] # Wrong /\ \A k \in DOMAIN part : part[k] = part[1]
           THEN ArrayOf(Len(part), part[1]) ELSE Wrong

(* The type of every node.  A slice is a pointer wherever it is used. *)
Nodes == DOMAIN nodes
Meaning[i \in Nodes] ==
  TypeOf(nodes[i], [k \in DOMAIN nodes[i].children |-> Clone(Meaning[nodes[i].children[k]])])

Members(seq) == {seq[k] : k \in DOMAIN seq}
Under[i \in Nodes] ==
  {i} \cup UNION {Under[c] : c \in Members(nodes[i].children)}
CheckedUnder[i \in Nodes] ==
  {i} \cup UNION {CheckedUnder[c] : c \in Members(CheckerVisits(nodes[i]))}
CheckedNodes == IF IsChecked(use.kind) THEN CheckedUnder[Root] ELSE {}

(* The nodes the checker leaves without a type though it visits them. *)
LeftUntyped(i) ==
  \/ nodes[i].kind \in {"eq", "less"}
  \/ nodes[i].kind = "access" /\ Uninitialised(nodes[nodes[i].children[2]])
CallsVariable(i) ==
  LET callee == nodes[nodes[i].children[1]] IN
  nodes[i].kind = "call" /\ callee.kind = "id" /\ callee.name \in DOMAIN Variables
IsLocal(i) == Holds(nodes[i]) /\ Variables[nodes[i].name].place = "local"
OnHeap(i) == IsLocal(i) /\ IsLarge(Variables[nodes[i].name].type)

-----------------------------------------------------------------------------
(* The visits nest as the nodes do; each pass writes what is its own.      *)
TypeOK ==
  /\ pass \in {"parse", "check", "generate"}
  /\ outcome \in {"running", "rejected", "generated", "threw", "undefined", "malformed"}
  /\ pass # "parse" =>
       /\ DOMAIN types = Nodes /\ DOMAIN values = Nodes /\ open = <<Root>>
       /\ \A i \in Nodes : types[i] \in {NoType} \cup Types
       /\ \A k \in DOMAIN calls : calls[k].node =
            IF k = 1 THEN Root
            ELSE LET caller == calls[k - 1] IN
              (IF pass = "check" THEN CheckerVisits(nodes[caller.node])
               ELSE GeneratorVisits(nodes[caller.node]))[caller.done + 1]
  /\ pass = "generate" => errors = 0
  /\ pass # "generate" => \A i \in DOMAIN values : values[i] = NoValue

(* In a statement the checker accepts, every node it has visited has the   *)
(* type the text gives it, so that the dirty types of errors below, the    *)
(* visits left early and the second visit of first elements lose no error. *)
(* The exceptions: comparisons, and subscripts by a variable without an    *)
(* initialiser or by the name of a function, have no type, and a call of a *)
(* variable leaves a dirty type and no error.                              *)
AcceptedIsTyped ==
  pass = "generate" =>
    \A i \in CheckedNodes :
      \/ LeftUntyped(i) /\ types[i] = NoType
      \/ HasDirty(types[i]) /\ \E j \in CheckedUnder[i] : CallsVariable(j)
      \/ /\ types[i] = Clone(Meaning[i])
         /\ i = Root /\ use.kind = "let" => Clone(Meaning[i]) = use.type

(* A statement is rejected for something wrong in it.  A slice is the      *)
(* exception: the copy of its type is that of a pointer, so a variable of  *)
(* a slice type cannot be initialised by another one.                      *)
RejectedIsWrong ==
  outcome = "rejected" =>
    \/ \E i \in CheckedNodes : Meaning[i] = Wrong
    \/ use.kind = "let" /\ Meaning[Root] # use.type
    \/ \E i \in CheckedNodes : Meaning[i].base = "Slice"

(* No pass reads through a null pointer unless the statement has a node    *)
(* without a type: one of those above, a negation, or a subscript or an    *)
(* array literal where the checker does not look (a return, the arguments  *)
(* of a call or of print_f).                                               *)
NullOnlyIfUntyped ==
  outcome = "undefined" =>
    \/ \E i \in Nodes : LeftUntyped(i)
    \/ \E i \in CheckedNodes : nodes[i].kind = "not"
    \/ \E i \in Nodes \ CheckedNodes :
         nodes[i].kind = "array"
           \/ \E j \in Nodes : nodes[j].kind = "access" /\ nodes[j].children[1] = i

(* The value generated for a node has the type the checker gave it, or is  *)
(* the address of one that has.  Orderings take the value of another       *)
(* statement, and the arrays functions return have ten elements.           *)
ValuesHaveTheirTypes ==
  \A i \in DOMAIN values :
    \/ values[i] = NoValue \/ Meaning[i] = Wrong
    \/ \E j \in Under[i] : nodes[j].kind = "less"
    \/ Lowered(values[i].type) =
         IF nodes[i].kind = "call" THEN Prototype(Meaning[i]) ELSE Lowered(Meaning[i])

(* What the statement is given.  A declaration or a return of nothing but  *)
(* a name or a subscript stores the address of the variable or element,    *)
(* print and print_f load it.  A local above 64 KB is nowhere loaded: what *)
(* any statement is given for its name is its address, and a declaration   *)
(* of one drops its initialiser.  All else is a value.                     *)
AddressesOfNamesAreStored ==
  outcome = "generated" /\ (\A i \in Nodes : nodes[i].kind # "less") =>
    stored.form =
      IF use.kind = "let" /\ IsLarge(use.type) THEN "null"
      ELSE IF OnHeap(Root) THEN "heap"
      ELSE IF use.kind \in {"print", "print_f"} THEN "value"
      ELSE IF IsLocal(Root) THEN "alloca"
      ELSE IF nodes[Root].kind = "access" THEN "gep"
      ELSE "value"

(* A call by name whose arguments are locals with the types of the         *)
(* parameters is compiled, unless an array of another size than ten, or    *)
(* one above 64 KB, is handed to it: LLVM refuses the call the checker has *)
(* accepted.                                                               *)
Sized(type) == \A k \in DOMAIN type.dims : type.dims[k] = 10
CallsOfArraysRefused ==
  LET root == nodes[Root]
      args == Tail(root.children)
      params == Functions[nodes[root.children[1]].name].params
  IN  /\ outcome \in {"generated", "malformed"} /\ root.kind = "call"
      /\ \A k \in DOMAIN args : Holds(nodes[args[k]]) /\ IsLocal(args[k])
      /\ [k \in DOMAIN args |-> Meaning[args[k]]] = params
      => (outcome = "malformed")
           = (\E k \in DOMAIN params : ~ Sized(params[k]) \/ OnHeap(args[k]))

(* The statements that compile: integers everywhere but in a literal that  *)
(* stands alone, subscripts of local arrays and only as the whole of what  *)
(* is printed, no negation of a variable.                                  *)
IntegerOperand(i) ==
  \/ nodes[i].kind \in ArithmeticKinds \cup {"minus", "number"}
  \/ Holds(nodes[i]) /\ Variables[nodes[i].name].type = Int32
Supported(i) ==
  LET c == nodes[i].children IN
  CASE nodes[i].kind \in ArithmeticKinds -> IntegerOperand(c[1]) /\ IntegerOperand(c[2])
    [] nodes[i].kind = "minus" -> IntegerOperand(c[1]) /\ ~ IsLocal(c[1])
    [] nodes[i].kind = "access" ->
         /\ i = Root /\ use.kind = "print"
         /\ IsLocal(c[1]) /\ IntegerOperand(c[2])
         /\ ~ Uninitialised(nodes[c[2]])
    [] nodes[i].kind = "id" -> Holds(nodes[i]) /\ Meaning[i].base \notin {"Slice", "Pointer"}
    [] nodes[i].kind = "array" -> use.kind \in {"let", "print"}
    [] OTHER -> nodes[i].kind \in LeafKinds
SupportedIsCompiled ==
  pass = "generate" /\ (\A i \in Nodes : Supported(i))
    => outcome \in {"running", "generated"}
=============================================================================
