--------------------------- MODULE TypeDeclarations ---------------------------
(***************************************************************************)
(* The types written in a program, through the passes of Run or Build: the *)
(* definitions of structs, the prototypes of functions and the variables.  *)
(* The structs of the LLVM context are one table for the whole program.    *)
(* Blocks outside of functions change nothing and are left out.            *)
(***************************************************************************)
EXTENDS Integers, Sequences, FiniteSets, Functions

CONSTANTS
  StructNames,
  Fields,        \* the lists of types of the fields of structs
  Prototypes,    \* the prototypes of the functions
  Types,         \* the types of the variables
  MaxStatements  \* bound: statements of a program

(* A type: the pointers, slices and arrays, outermost first, and what they *)
(* are of in the end.                                                      *)
Wraps == {"pointer", "slice", "array"}
Scalars == {"int", "float", "string", "bool", "byte"}
Type == [wraps : Seq(Wraps), base : Scalars \cup StructNames]
Prototype == [name : {"main", "function"}, params : Seq(Type), ret : Type]
TypeOf(wraps, base) == [wraps |-> wraps, base |-> base]
IsInt(type) == type = TypeOf(<<>>, "int")
IsSlice(type) == type.wraps # <<>> /\ Head(type.wraps) = "slice"

(* Whether a statement is in the body of the last function above it. *)
Statements ==
  [kind : {"struct"}, name : StructNames, fields : Fields, inside : BOOLEAN]
    \cup [kind : {"let"}, type : Types, inside : BOOLEAN]
    \cup [kind : {"func"}, proto : Prototypes, inside : {FALSE}]

ASSUME TypesAssumption ==
  /\ StructNames \cap (Scalars \cup {"ptr"}) = {} /\ IsFiniteSet(StructNames)
  /\ Fields \subseteq Seq(Type)
  /\ Types \subseteq Type
  /\ Prototypes \subseteq Prototype
  /\ MaxStatements \in Nat

VARIABLES
  program,    \* the statements
  mode,       \* the entry point
  pass,       \* "parse", "declare", "check" or "generate"
  at,         \* the statement the pass visits next
  structs,    \* the structs of the LLVM context
  functions,  \* the functions of the LLVM module
  errors,     \* the checker has reported an error
  outcome     \* "running" or how the compilation ended

vars == <<program, mode, pass, at, structs, functions, errors, outcome>>
source == <<program, mode>>

Unknown == [is |-> "unknown", body |-> <<>>]
Opaque == [is |-> "opaque", body |-> <<>>]
Body(types) == [is |-> "defined", body |-> types]

Init ==
  /\ program = <<>> /\ mode = "none" /\ pass = "parse" /\ at = 1
  /\ structs = [n \in StructNames |-> Unknown]
  /\ functions = {} /\ errors = FALSE
  /\ outcome = "running"

IsFunction(s) == s.kind = "func"
Parse(s) ==
  /\ pass = "parse" /\ Len(program) < MaxStatements
  /\ s.inside => \E i \in DOMAIN program : IsFunction(program[i])
  /\ IsFunction(s) /\ s.proto.name = "main" =>
       \A i \in DOMAIN program : IsFunction(program[i]) => program[i].proto.name # "main"
  /\ program' = Append(program, s)
  /\ UNCHANGED <<mode, pass, at, structs, functions, errors, outcome>>

Start(entry, first) ==
  /\ pass = "parse" /\ program # <<>>
  /\ mode' = entry /\ pass' = first
  /\ UNCHANGED <<program, at, structs, functions, errors, outcome>>
StartRun == Start("Run", "declare")
StartBuild == Start("Build", "generate")

(***************************************************************************)
(* evaluate(Type).  A pointer hides what it points to, a slice does not.   *)
(***************************************************************************)
(* Mutant: a slice hides what it is of as well. *)
UndefinedButSlices(type) ==
  /\ Range(type.wraps) \cap {"pointer", "slice"} = {}
  /\ type.base \in StructNames /\ structs[type.base] = Unknown

Undefined(type) ==
  /\ "pointer" \notin Range(type.wraps)
  /\ type.base \in StructNames /\ structs[type.base] = Unknown

(* The LLVM type: pointers and slices are pointers.  The sizes of arrays   *)
(* are left out.                                                           *)
Evaluated(type) ==
  LET cut == {k \in DOMAIN type.wraps : type.wraps[k] # "array"}
      first == CHOOSE k \in cut : \A j \in cut : k <= j
  IN  IF cut = {} THEN type ELSE TypeOf(SubSeq(type.wraps, 1, first - 1), "ptr")

(* What LLVM has a size for: a struct has one when it is defined and those *)
(* it holds have one.                                                      *)
Sized[depth \in 0..Cardinality(StructNames)] ==
  IF depth = 0 THEN {}
  ELSE {n \in StructNames :
          /\ structs[n].is = "defined"
          /\ \A k \in DOMAIN structs[n].body :
               structs[n].body[k].base \in StructNames =>
                 structs[n].body[k].base \in Sized[depth - 1]}
IsSized(type) ==
  Evaluated(type).base \in StructNames => type.base \in Sized[Cardinality(StructNames)]

Statement == program[at]
Visits(of, kind) ==
  /\ pass = of /\ outcome = "running"
  /\ at \in DOMAIN program /\ Statement.kind = kind
Visited == at' = at + 1 /\ UNCHANGED <<source, pass>>
Ends(how) ==
  /\ outcome' = how
  /\ UNCHANGED <<source, pass, at, errors>>

(* The types of a prototype are evaluated, and a function is created. *)
Written(proto) == Range(proto.params) \cup {proto.ret}
Creates(proto) ==
  IF \E type \in Written(proto) : Undefined(type)
  THEN Ends("threw") /\ UNCHANGED <<structs, functions>>
  ELSE /\ Visited
       /\ functions' = functions \cup {at}
       /\ UNCHANGED <<structs, errors, outcome>>

Created == IF structs[Statement.name] = Unknown THEN Opaque ELSE structs[Statement.name]

(***************************************************************************)
(* setBody of LLVM 21 fails for a struct that is among the types given, or *)
(* among those they hold: it is in every set that has the structs given    *)
(* and those in the bodies of its members.  Nothing catches the failure.   *)
(***************************************************************************)
Bases(types) == {type.base : type \in Range(types)} \cap StructNames
Recursive(name, types) ==
  \A S \in SUBSET StructNames :
    Bases(types) \subseteq S /\ (\A m \in S : Bases(structs[m].body) \subseteq S) => name \in S

(***************************************************************************)
(* DeclarationVisitor.  It does not look into the bodies of functions.     *)
(***************************************************************************)
DeclareStruct ==
  /\ Visits("declare", "struct") /\ ~Statement.inside
  /\ structs' = [structs EXCEPT ![Statement.name] = Created]
  /\ Visited
  /\ UNCHANGED <<functions, errors, outcome>>

DeclareFunction == Visits("declare", "func") /\ Creates(Statement.proto)

DeclareNothing ==
  /\ Visits("declare", "let") \/ (Visits("declare", "struct") /\ Statement.inside)
  /\ Visited
  /\ UNCHANGED <<structs, functions, errors, outcome>>

Passes(of, next) ==
  /\ pass = of /\ outcome = "running" /\ at > Len(program)
  /\ pass' = next /\ at' = 1
  /\ UNCHANGED <<source, structs, functions, errors, outcome>>
EndDeclare == Passes("declare", "check")

(***************************************************************************)
(* TypeCheckVisitor: of these it looks at the prototype of main only.      *)
(***************************************************************************)
MainFails(proto) ==
  LET params == proto.params IN
  \/ ~IsInt(proto.ret)
  \/ Len(params) > 3
  \/ Len(params) >= 1 /\ ~IsInt(params[1])
  \/ Len(params) >= 2 /\ ~IsSlice(params[2])
  \/ Len(params) >= 3 /\ ~IsSlice(params[3])

Check ==
  /\ \E kind \in {"struct", "let", "func"} : Visits("check", kind)
  /\ errors' = (errors \/ /\ IsFunction(Statement) /\ Statement.proto.name = "main"
                          /\ MainFails(Statement.proto))
  /\ Visited
  /\ UNCHANGED <<structs, functions, outcome>>

EndCheck == ~errors /\ Passes("check", "generate")
Reject ==
  /\ pass = "check" /\ outcome = "running" /\ at > Len(program) /\ errors
  /\ Ends("rejected") /\ UNCHANGED <<structs, functions>>

(***************************************************************************)
(* CodeGenVisitor.                                                         *)
(***************************************************************************)
(* Mutant: a struct is laid out anew by each of its definitions. *)
GenerateStructAnew ==
  LET name == Statement.name
      Refused(type) == \/ type.base # name /\ Undefined(type)
                       \/ type = TypeOf(<<>>, name)
      types == [k \in DOMAIN Statement.fields |-> Evaluated(Statement.fields[k])]
  IN  /\ Visits("generate", "struct")
      /\ IF \E type \in Range(Statement.fields) : Refused(type)
           THEN Ends("threw") /\ structs' = [structs EXCEPT ![name] = Created]
         ELSE IF Recursive(name, types)
           THEN Ends("undefined") /\ structs' = [structs EXCEPT ![name] = Created]
         ELSE /\ structs' = [structs EXCEPT ![name] = Body(types)]
              /\ Visited /\ UNCHANGED <<errors, outcome>>
      /\ UNCHANGED functions

(* The struct itself is created before its fields are evaluated; a field   *)
(* that is the struct itself is reported, other recursion is left to LLVM. *)
GenerateStruct ==
  LET name == Statement.name
      Refused(type) == \/ type.base # name /\ Undefined(type)
                       \/ type = TypeOf(<<>>, name)
      types == [k \in DOMAIN Statement.fields |-> Evaluated(Statement.fields[k])]
  IN  /\ Visits("generate", "struct")
      /\ IF structs[name].is = "defined"
           THEN Visited /\ UNCHANGED <<structs, errors, outcome>>
         ELSE IF \E type \in Range(Statement.fields) : Refused(type)
           THEN Ends("threw") /\ structs' = [structs EXCEPT ![name] = Created]
         ELSE IF Recursive(name, types)
           THEN Ends("undefined") /\ structs' = [structs EXCEPT ![name] = Created]
         ELSE /\ structs' = [structs EXCEPT ![name] = Body(types)]
              /\ Visited /\ UNCHANGED <<errors, outcome>>
      /\ UNCHANGED functions

GeneratePrototype ==
  Visits("generate", "func") /\ at \notin functions
    /\ (IF \E type \in Written(Statement.proto) : Undefined(type)
        THEN Ends("threw") /\ UNCHANGED functions
        ELSE /\ functions' = functions \cup {at}
             /\ UNCHANGED <<source, pass, at, errors, outcome>>)
    /\ UNCHANGED structs

(* The return value and the parameters get storage.  LLVM's answer for a   *)
(* type without a size is undefined.                                       *)
GenerateFunction ==
  /\ Visits("generate", "func") /\ at \in functions
  /\ IF \A type \in Written(Statement.proto) : IsSized(type)
     THEN Visited /\ UNCHANGED <<errors, outcome>>
     ELSE Ends("undefined")
  /\ UNCHANGED <<structs, functions>>

(* The size of a local variable is asked for, that of a global one is not. *)
GenerateVariable ==
  /\ Visits("generate", "let")
  /\ IF Undefined(Statement.type) THEN Ends("threw")
     ELSE IF Statement.inside /\ ~IsSized(Statement.type) THEN Ends("undefined")
     ELSE Visited /\ UNCHANGED <<errors, outcome>>
  /\ UNCHANGED <<structs, functions>>

(* The module is compiled or run.                                          *)
Finish ==
  /\ pass = "generate" /\ outcome = "running" /\ at > Len(program)
  /\ Ends("generated")
  /\ UNCHANGED <<structs, functions>>

Next ==
  \/ \E s \in Statements : Parse(s)
  \/ StartRun \/ StartBuild
  \/ DeclareStruct \/ DeclareFunction \/ DeclareNothing \/ EndDeclare
  \/ Check \/ EndCheck \/ Reject
  \/ GenerateStruct \/ GeneratePrototype \/ GenerateFunction \/ GenerateVariable
  \/ Finish

Spec == Init /\ [][Next]_vars
===============================================================================
