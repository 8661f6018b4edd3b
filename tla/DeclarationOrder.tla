--------------------------- MODULE DeclarationOrder ---------------------------
(***************************************************************************)
(* What becomes of the types of a program, from its text alone: which      *)
(* structs are known and laid out at a statement, and the first statement  *)
(* that a pass stops at.                                                   *)
(***************************************************************************)
EXTENDS TypeDeclarations, FiniteSetsExt

Defines(i, n) == program[i].kind = "struct" /\ program[i].name = n
Definitions(n) == {i \in DOMAIN program : Defines(i, n)}
Outside(positions) == {i \in positions : ~program[i].inside}
Above(positions, i) == {j \in positions : j < i}

(* The structs a type needs to be known, and those it holds.               *)
Names(type) == {type.base} \cap StructNames
Asks(type) == IF "pointer" \in Range(type.wraps) THEN {} ELSE Names(type)
Holds(type) == IF Range(type.wraps) \subseteq {"array"} THEN Names(type) ELSE {}

(* The declaration pass of Run knows the structs above; the generator also *)
(* those below that the declaration pass has seen.                         *)
KnownToDeclare(n, i) == Above(Outside(Definitions(n)), i) # {}
KnownToGenerate(n, i) ==
  Above(Definitions(n), i) # {} \/ (mode = "Run" /\ Outside(Definitions(n)) # {})

(* The fields of the first definition are those of the struct.             *)
FieldsOf(n) == program[Min(Definitions(n))].fields
HeldBy(n) == UNION {Holds(type) : type \in Range(FieldsOf(n))}

(* A struct has no size at i if it is among structs each of which is not   *)
(* defined above i or holds another one of them, or itself.                *)
Endless(n, i) ==
  \E among \in SUBSET StructNames :
    /\ n \in among
    /\ \A m \in among : Above(Definitions(m), i) = {} \/ HeldBy(m) \cap among # {}
Stored(type, i) == \A n \in Holds(type) : ~Endless(n, i)

(* The definition at i closes a circle: it completes a set of structs each *)
(* of which holds another one of them, or itself.                          *)
Cyclic(i) ==
  \E among \in SUBSET StructNames :
    /\ program[i].name \in among
    /\ \A m \in among : Above(Definitions(m), i + 1) # {} /\ HeldBy(m) \cap among # {}

DeclareFaults(i) ==
  LET s == program[i] IN
  IF s.kind = "func" /\ \E type \in Written(s.proto) : \E n \in Asks(type) : ~KnownToDeclare(n, i)
  THEN {"threw"} ELSE {}

(* int main(int, slice, slice), or a beginning of it.  What the slices are *)
(* of is not looked at, though the diagnostics say "a slice of strings"    *)
(* (typechecker.cpp:170 and 181).                                          *)
IsMain(proto) ==
  /\ IsInt(proto.ret) /\ Len(proto.params) <= 3
  /\ \A k \in DOMAIN proto.params : IF k = 1 THEN IsInt(proto.params[k]) ELSE IsSlice(proto.params[k])
CheckFaults ==
  IF \E i \in DOMAIN program : IsFunction(program[i]) /\ program[i].proto.name = "main"
                                 /\ ~IsMain(program[i].proto)
  THEN {"rejected"} ELSE {}

(* The statement itself, and the types that get storage at it.             *)
TypesAt(i) ==
  LET s == program[i] IN
  CASE s.kind = "struct" -> IF i = Min(Definitions(s.name)) THEN Range(s.fields) ELSE {}
    [] s.kind = "let" -> {s.type}
    [] s.kind = "func" -> Written(s.proto)
StoredAt(i) ==
  LET s == program[i] IN
  IF s.kind = "func" \/ (s.kind = "let" /\ s.inside) THEN TypesAt(i) ELSE {}

GenerateFaults(i) ==
  LET s == program[i]
      unknown == UNION {{n \in Asks(type) : ~KnownToGenerate(n, i)} : type \in TypesAt(i)}
      itself == s.kind = "struct" /\ TypeOf(<<>>, s.name) \in TypesAt(i)
  IN  IF unknown \ (IF s.kind = "struct" THEN {s.name} ELSE {}) # {} \/ itself THEN {"threw"}
      ELSE IF s.kind = "struct" /\ i = Min(Definitions(s.name)) /\ Cyclic(i) THEN {"undefined"}
      ELSE IF \E type \in StoredAt(i) : ~Stored(type, i) THEN {"undefined"}
      ELSE {}

(* The faults of the first statement that has some.                        *)
First(Faults(_)) ==
  LET bad == {i \in DOMAIN program : Faults(i) # {}}
  IN  IF bad = {} THEN {} ELSE Faults(Min(bad))
Expected ==
  LET checked == IF First(DeclareFaults) # {} THEN First(DeclareFaults) ELSE CheckFaults
      before == IF mode = "Run" THEN checked ELSE {}
  IN  IF before # {} THEN before
      ELSE IF First(GenerateFaults) # {} THEN First(GenerateFaults)
      ELSE {"generated"}

(* How a compilation ends, from the text: a struct may be used below its   *)
(* definition everywhere; above it only behind pointers, and in Run also   *)
(* in fields and global variables.  A struct with itself as a field is     *)
(* reported; a circle through an array or other structs is not, and ends   *)
(* in LLVM at the definition that closes it.  A variable or a function     *)
(* that needs the size of a struct above its definition ends there too.    *)
(* Of main's slices the checker takes any, though its diagnostics          *)
(* (typechecker.cpp:170 and 181) say they are of strings.                  *)
OutcomeAsDeclared == outcome # "running" => {outcome} = Expected

(* In a generated program every struct has the fields of its first         *)
(* definition, wherever the definitions are and whatever pass has created  *)
(* the struct, and LLVM has a size for it: no circle is left, and nothing  *)
(* that it holds is without fields.                                        *)
LayoutsAsWritten ==
  outcome = "generated" =>
    \A n \in StructNames :
      IF Definitions(n) = {} THEN structs[n] = Unknown
      ELSE /\ structs[n] = Body([k \in DOMAIN FieldsOf(n) |-> Evaluated(FieldsOf(n)[k])])
           /\ n \in Sized[Cardinality(StructNames)]
===============================================================================
