--------------------------- MODULE DeclarationProofs ---------------------------
(***************************************************************************)
(* Proofs about modules TypeDeclarations and DeclarationOrder, for any     *)
(* names of structs, any types and programs of any length.                 *)
(***************************************************************************)
EXTENDS DeclarationOrder, FiniteSetTheorems, TLAPS

(***************************************************************************)
(* The least element of a set of natural numbers.                          *)
(***************************************************************************)
LEMMA Least ==
  ASSUME NEW S \in SUBSET Nat, S # {}
  PROVE  \E m \in S : \A k \in S : m <= k
<1> DEFINE less == {p \in Nat \X Nat : p[1] < p[2]}
<1>1. IsWellFoundedOn(less, Nat)
  BY NatLessThanWellFounded, Zenon DEF OpToRel
<1>2. PICK m \in S : \A k \in S : <<k, m>> \notin less
  <2> HIDE DEF less
  <2> QED
    BY <1>1, WFMin
<1>3. ASSUME NEW k \in S PROVE m <= k
  <2>1. k \in Nat /\ m \in Nat
    OBVIOUS
  <2>2. <<k, m>> \notin less
    BY <1>2
  <2>3. ~ (k < m)
    BY <2>1, <2>2
  <2> QED
    BY <2>1, <2>3
<1> QED
  BY <1>3

LEMMA MinIsLeast ==
  ASSUME NEW S \in SUBSET Nat, S # {}
  PROVE  Min(S) \in S /\ \A k \in S : Min(S) <= k
<1>1. PICK m \in S : \A k \in S : m <= k
  BY Least
<1> QED
  BY <1>1, Zenon DEF Min

(***************************************************************************)
(* The invariant: what the passes have made of the structs when they come  *)
(* to a statement.                                                         *)
(***************************************************************************)
LaidOut(n) == Body([k \in DOMAIN FieldsOf(n) |-> Evaluated(FieldsOf(n)[k])])
Declared(n) == mode = "Run" /\ Outside(Definitions(n)) # {}
Laid(n, i) ==
  IF Above(Definitions(n), i) # {} THEN LaidOut(n)
  ELSE IF Declared(n) THEN Opaque ELSE Unknown

Now(n) ==
  IF pass = "parse" THEN Unknown
  ELSE IF pass = "declare" THEN IF KnownToDeclare(n, at) THEN Opaque ELSE Unknown
  ELSE IF pass = "check" THEN Laid(n, 1)
  ELSE Laid(n, at)

Typed ==
  /\ program \in Seq(Statements)
  /\ \/ mode = "none" /\ pass = "parse"
     \/ mode = "Run" /\ pass \in {"declare", "check", "generate"}
     \/ mode = "Build" /\ pass = "generate"
  /\ at \in 1..(Len(program) + 1)
  /\ errors \in BOOLEAN
  /\ outcome \in {"running", "threw", "rejected", "undefined", "generated"}

Layout ==
  /\ pass = "parse" => at = 1 /\ outcome = "running" /\ errors = FALSE
  /\ outcome = "generated" => pass = "generate" /\ at = Len(program) + 1
  /\ outcome \notin {"threw", "undefined"} => structs = [n \in StructNames |-> Now(n)]

LInv == Typed /\ Layout

LEMMA Positions ==
  ASSUME program \in Seq(Statements), NEW n
  PROVE  /\ Definitions(n) \in SUBSET (1..Len(program))
         /\ Definitions(n) \in SUBSET Nat
         /\ Outside(Definitions(n)) \subseteq Definitions(n)
         /\ Above(Definitions(n), 1) = {}
         /\ Above(Definitions(n), Len(program) + 1) = Definitions(n)
         /\ Above(Outside(Definitions(n)), 1) = {}
         /\ Above(Outside(Definitions(n)), Len(program) + 1) = Outside(Definitions(n))
<1>1. DOMAIN program = 1..Len(program)
  OBVIOUS
<1>2. Definitions(n) \in SUBSET (1..Len(program))
  BY <1>1 DEF Definitions
<1>3. Outside(Definitions(n)) \subseteq Definitions(n)
  BY DEF Outside
<1> QED
  BY <1>2, <1>3 DEF Above

LEMMA AboveStep ==
  ASSUME program \in Seq(Statements), NEW i \in DOMAIN program, NEW positions \in SUBSET Nat
  PROVE  Above(positions, i + 1) = Above(positions, i) \cup (positions \cap {i})
<1>1. i \in Nat
  OBVIOUS
<1>2. ASSUME NEW j \in positions PROVE j < i + 1 <=> j < i \/ j = i
  BY <1>1
<1> QED
  BY <1>2 DEF Above

(* The first definition of a struct is the one with none above it. *)
LEMMA FirstDefinition ==
  ASSUME program \in Seq(Statements), NEW n, NEW i \in DOMAIN program, Defines(i, n)
  PROVE  Above(Definitions(n), i) = {} <=> Min(Definitions(n)) = i
<1>1. i \in Definitions(n) /\ Definitions(n) \in SUBSET Nat
  BY Positions DEF Definitions
<1>2. Min(Definitions(n)) \in Definitions(n) /\ \A k \in Definitions(n) : Min(Definitions(n)) <= k
  BY <1>1, MinIsLeast
<1> QED
  BY <1>1, <1>2 DEF Above

LEMMA LaidInit == Init => LInv
<1> SUFFICES ASSUME Init PROVE LInv
  OBVIOUS
<1>1. Typed
  <2>1. program \in Seq(Statements) /\ 1 \in 1..(Len(program) + 1)
    BY DEF Init
  <2> QED
    BY <2>1 DEF Init, Typed
<1>2. Layout
  BY DEF Init, Layout, Now
<1> QED
  BY <1>1, <1>2 DEF LInv

LEMMA StatementTypes ==
  ASSUME NEW s \in Statements
  PROVE  /\ s.kind \in {"struct", "let", "func"}
         /\ s.kind = "struct" => s.name \in StructNames /\ s.fields \in Seq(Type)
         /\ s.kind = "let" => s.type \in Type
         /\ s.kind = "func" => s.proto \in Prototype
<1>1. CASE s \in [kind : {"struct"}, name : StructNames, fields : Fields, inside : BOOLEAN]
  BY <1>1, TypesAssumption
<1>2. CASE s \in [kind : {"let"}, type : Types, inside : BOOLEAN]
  BY <1>2, TypesAssumption
<1>3. CASE s \in [kind : {"func"}, proto : Prototypes, inside : {FALSE}]
  BY <1>3, TypesAssumption
<1> QED
  BY <1>1, <1>2, <1>3 DEF Statements

LEMMA TypedNext == Typed /\ [Next]_vars => Typed'
<1> SUFFICES ASSUME Typed, [Next]_vars PROVE Typed'
  OBVIOUS
<1> USE DEF Typed
<1>1. ASSUME NEW s \in Statements, Parse(s) PROVE Typed'
  <2>1. program' \in Seq(Statements) /\ Len(program') = Len(program) + 1
    BY <1>1 DEF Parse
  <2> QED
    BY <1>1, <2>1 DEF Parse
<1>2. CASE StartRun \/ StartBuild
  BY <1>2 DEF StartRun, StartBuild, Start
<1>3. CASE EndDeclare \/ EndCheck
  BY <1>3 DEF EndDeclare, EndCheck, Passes, source
<1>4. CASE DeclareStruct \/ DeclareFunction \/ DeclareNothing
  BY <1>4 DEF DeclareStruct, DeclareFunction, DeclareNothing, Creates, Visits,
    Visited, Ends, source
<1>11. CASE Check
  <2>1. errors' \in BOOLEAN
    BY <1>11, Zenon DEF Check
  <2>2. at \in DOMAIN program /\ Visited /\ UNCHANGED outcome
    BY <1>11 DEF Check, Visits
  <2> QED
    BY <2>1, <2>2 DEF Visited, source
<1>5. CASE GenerateStruct
  BY <1>5 DEF GenerateStruct, Visits, Visited, Ends, source
<1>6. CASE GeneratePrototype
  BY <1>6 DEF GeneratePrototype, Visits, Visited, Ends, source
<1>7. CASE GenerateFunction
  BY <1>7 DEF GenerateFunction, Visits, Visited, Ends, source
<1>8. CASE GenerateVariable
  BY <1>8 DEF GenerateVariable, Visits, Visited, Ends, source
<1>9. CASE Reject \/ Finish
  BY <1>9 DEF Reject, Finish, Ends, source
<1>10. CASE UNCHANGED vars
  BY <1>10 DEF vars
<1> QED
  BY <1>1, <1>2, <1>3, <1>4, <1>5, <1>6, <1>7, <1>8, <1>9, <1>10, <1>11 DEF Next

(* What depends on the program and the entry point only. *)
LEMMA SameText ==
  ASSUME UNCHANGED source
  PROVE  /\ \A n : Definitions(n)' = Definitions(n)
         /\ \A n : Outside(Definitions(n))' = Outside(Definitions(n))
         /\ \A n : LaidOut(n)' = LaidOut(n)
         /\ \A n : Declared(n)' = Declared(n)
         /\ \A n : Laid(n, 1)' = Laid(n, 1)
         /\ \A n : Laid(n, at)' = Laid(n, at')
         /\ \A n : KnownToDeclare(n, at)' = KnownToDeclare(n, at')
<1> USE DEF source
<1>1. \A n : Definitions(n)' = Definitions(n)
  BY DEF Definitions, Defines
<1>2. \A n : Outside(Definitions(n))' = Outside(Definitions(n))
  BY <1>1 DEF Outside
<1>3. \A n : LaidOut(n)' = LaidOut(n)
  <2>1. TAKE n
  <2>2. FieldsOf(n)' = FieldsOf(n)
    <3>1. Min(Definitions(n))' = Min(Definitions(n))
      BY <1>1 DEF Min
    <3> QED
      BY <3>1 DEF FieldsOf
  <2>3. ASSUME NEW t PROVE Evaluated(t)' = Evaluated(t)
    BY DEF Evaluated, TypeOf
  <2> QED
    BY <2>2, <2>3 DEF LaidOut, Body
<1> QED
  BY <1>1, <1>2, <1>3 DEF Declared, Laid, KnownToDeclare, Above, Unknown, Opaque

(* The definitions of a struct above the statement after i. *)
LEMMA AboveNext ==
  ASSUME program \in Seq(Statements), NEW i \in DOMAIN program, NEW n
  PROVE  /\ Above(Definitions(n), i + 1) = Above(Definitions(n), i) \cup (Definitions(n) \cap {i})
         /\ Above(Outside(Definitions(n)), i + 1)
              = Above(Outside(Definitions(n)), i) \cup (Outside(Definitions(n)) \cap {i})
<1>1. Definitions(n) \in SUBSET Nat /\ Outside(Definitions(n)) \in SUBSET Nat
  BY Positions
<1> QED
  BY <1>1, AboveStep

LEMMA DefinesNothing ==
  ASSUME NEW i \in DOMAIN program, program[i].kind # "struct", NEW n
  PROVE  i \notin Definitions(n)
  BY DEF Definitions, Defines

(* A statement that is no definition moves nothing. *)
LEMMA SameLayout ==
  ASSUME program \in Seq(Statements), NEW i \in DOMAIN program, program[i].kind # "struct", NEW n
  PROVE  Laid(n, i + 1) = Laid(n, i) /\ KnownToDeclare(n, i + 1) = KnownToDeclare(n, i)
<1>1. i \notin Definitions(n) /\ i \notin Outside(Definitions(n))
  BY DefinesNothing, Positions
<1> QED
  BY <1>1, AboveNext DEF Laid, KnownToDeclare

LEMMA Distinct ==
  ASSUME NEW n
  PROVE /\ LaidOut(n).is = "defined" /\ Opaque.is = "opaque" /\ Unknown.is = "unknown"
        /\ LaidOut(n) # Opaque /\ LaidOut(n) # Unknown /\ Opaque # Unknown
  BY DEF LaidOut, Body, Opaque, Unknown

(* At the first statement nothing is laid out yet. *)
LEMMA LaidFirst ==
  ASSUME program \in Seq(Statements), NEW n
  PROVE  /\ Laid(n, 1) = IF Declared(n) THEN Opaque ELSE Unknown
         /\ ~ KnownToDeclare(n, 1)
         /\ KnownToDeclare(n, Len(program) + 1) <=> Outside(Definitions(n)) # {}
  BY Positions DEF Laid, KnownToDeclare

LEMMA LayoutNext == LInv /\ [Next]_vars => Layout'
<1> SUFFICES ASSUME LInv, [Next]_vars PROVE Layout'
  OBVIOUS
<1>0. Typed /\ Layout /\ program \in Seq(Statements) /\ at \in Nat
  BY DEF LInv, Typed
<1>a. outcome = "running" => structs = [n \in StructNames |-> Now(n)]
  BY <1>0 DEF Layout
<1>1. ASSUME NEW s \in Statements, Parse(s) PROVE Layout'
  BY <1>0, <1>1 DEF Layout, Parse, Now
<1>2. CASE StartRun
  <2>1. /\ UNCHANGED <<program, at, structs, outcome, errors>>
        /\ pass = "parse" /\ pass' = "declare" /\ at = 1 /\ outcome = "running"
    BY <1>0, <1>2 DEF StartRun, Start, Layout
  <2>2. program' \in Seq(Statements)
    BY <1>0, <2>1
  <2>3. ASSUME NEW n PROVE ~ KnownToDeclare(n, 1)'
    <3>1. \A m : Definitions(m)' = Definitions(m)
      BY <2>1 DEF Definitions, Defines
    <3>2. ~ KnownToDeclare(n, 1)
      BY <1>0, LaidFirst
    <3> QED
      BY <2>1, <3>1, <3>2 DEF KnownToDeclare, Above, Outside
  <2> QED
    BY <1>a, <2>1, <2>3 DEF Layout, Now, Unknown
<1>3. CASE StartBuild
  <2>1. /\ UNCHANGED <<program, at, structs, outcome, errors>> /\ mode' = "Build"
        /\ pass = "parse" /\ pass' = "generate" /\ at = 1 /\ outcome = "running"
    BY <1>0, <1>3 DEF StartBuild, Start, Layout
  <2>2. ASSUME NEW n PROVE Laid(n, 1)' = Unknown
    <3>1. Definitions(n)' = Definitions(n)
      BY <2>1 DEF Definitions, Defines
    <3>2. Above(Definitions(n), 1) = {}
      BY <1>0, Positions
    <3> QED
      BY <2>1, <3>1, <3>2 DEF Laid, Above, Declared, Unknown
  <2> QED
    BY <1>a, <2>1, <2>2 DEF Layout, Now, Unknown
<1>4. CASE DeclareStruct
  <2> DEFINE name == program[at].name
  <2>1. /\ at \in DOMAIN program /\ pass = "declare" /\ outcome = "running"
        /\ program[at].kind = "struct" /\ ~ program[at].inside
        /\ at' = at + 1 /\ UNCHANGED <<program, mode, pass, outcome, errors>>
        /\ structs' = [structs EXCEPT ![name] = Created]
    BY <1>4 DEF DeclareStruct, Visits, Visited, source, Statement
  <2>2. ASSUME NEW n \in StructNames
        PROVE  KnownToDeclare(n, at + 1) <=> n = name \/ KnownToDeclare(n, at)
    <3>1. at \in Outside(Definitions(n)) <=> n = name
      BY <2>1 DEF Outside, Definitions, Defines
    <3> QED
      BY <1>0, <2>1, <3>1, AboveNext DEF KnownToDeclare
  <2>3. UNCHANGED source
    BY <2>1 DEF source
  <2>4. structs = [n \in StructNames |-> IF KnownToDeclare(n, at) THEN Opaque ELSE Unknown]
    BY <1>a, <2>1 DEF Now
  <2>5. name \in StructNames
    BY <1>0, <2>1, StatementTypes
  <2>6. Created = Opaque
    BY <2>1, <2>4, <2>5 DEF Created, Statement
  <2>7. structs' = [n \in StructNames |-> IF KnownToDeclare(n, at + 1) THEN Opaque ELSE Unknown]
    BY <2>1, <2>2, <2>4, <2>6
  <2>8. structs' = [n \in StructNames |-> Now(n)']
    BY <2>1, <2>3, <2>7, SameText DEF Now, Opaque, Unknown
  <2> QED
    BY <2>1, <2>8 DEF Layout
<1>5. CASE DeclareFunction \/ DeclareNothing \/ GenerateFunction \/ GenerateVariable
  <2>1. /\ at \in DOMAIN program /\ outcome = "running" /\ pass # "parse" /\ pass # "check"
        /\ UNCHANGED <<program, mode, pass, structs>>
    BY <1>5 DEF DeclareFunction, DeclareNothing, GenerateFunction, GenerateVariable, Creates,
      Visits, Visited, Ends, source
  <2>2. \/ outcome' \in {"threw", "undefined"} /\ UNCHANGED at
        \/ at' = at + 1 /\ outcome' = outcome
    BY <1>5 DEF DeclareFunction, DeclareNothing, GenerateFunction, GenerateVariable, Creates,
      Visited, Ends
  <2>3. ASSUME NEW n, at' = at + 1 PROVE Now(n)' = Now(n)
    <3>1. CASE program[at].kind # "struct"
      BY <1>0, <2>1, <2>3, <3>1, SameLayout, SameText DEF Now, source, Opaque, Unknown
    <3>2. CASE program[at].kind = "struct"
      <4>1. pass = "declare" /\ program[at].inside
        BY <1>5, <3>2 DEF DeclareFunction, DeclareNothing, GenerateFunction, GenerateVariable,
          Visits, Statement
      <4>2. at \notin Outside(Definitions(n))
        BY <4>1 DEF Outside
      <4>3. KnownToDeclare(n, at + 1) = KnownToDeclare(n, at)
        BY <1>0, <2>1, <4>2, AboveNext DEF KnownToDeclare
      <4> QED
        BY <2>1, <2>3, <4>1, <4>3, SameText DEF Now, source, Opaque, Unknown
    <3> QED
      BY <3>1, <3>2
  <2>4. ASSUME NEW n, UNCHANGED at PROVE Now(n)' = Now(n)
    BY <2>1, <2>4, SameText DEF Now, source, Opaque, Unknown
  <2> QED
    BY <1>a, <2>1, <2>2, <2>3, <2>4 DEF Layout
<1>6. CASE EndDeclare
  <2>1. /\ pass = "declare" /\ pass' = "check" /\ outcome = "running" /\ mode = "Run"
        /\ at = Len(program) + 1
        /\ UNCHANGED <<program, mode, structs, outcome>>
    BY <1>0, <1>6 DEF EndDeclare, Passes, source, Typed
  <2>2. ASSUME NEW n PROVE Now(n)' = Now(n)
    BY <1>0, <2>1, LaidFirst, SameText DEF Now, Declared, source, Opaque, Unknown
  <2> QED
    BY <1>a, <2>1, <2>2 DEF Layout
<1>7. CASE Check \/ EndCheck \/ Reject
  <2>1. /\ pass = "check" /\ pass' \in {"check", "generate"}
        /\ pass' = "generate" => at' = 1
        /\ UNCHANGED <<program, mode, structs>> /\ outcome = "running"
        /\ outcome' \in {"running", "rejected"}
    BY <1>7 DEF Check, EndCheck, Reject, Passes, Visits, Visited, Ends, source
  <2>2. ASSUME NEW n PROVE Now(n)' = Now(n)
    BY <2>1, SameText DEF Now, source, Opaque, Unknown
  <2> QED
    BY <1>a, <2>1, <2>2 DEF Layout
<1>8. CASE GenerateStruct
  <2> DEFINE name == program[at].name
             fields == program[at].fields
  <2>1. /\ at \in DOMAIN program /\ pass = "generate" /\ outcome = "running"
        /\ program[at].kind = "struct" /\ UNCHANGED <<program, mode, pass>>
    BY <1>8 DEF GenerateStruct, Visits, Visited, Ends, source, Statement
  <2>2. \/ outcome' \in {"threw", "undefined"}
        \/ /\ at' = at + 1 /\ outcome' = outcome
           /\ IF structs[name].is = "defined" THEN structs' = structs
              ELSE structs' = [structs EXCEPT ![name] =
                                 Body([k \in DOMAIN fields |-> Evaluated(fields[k])])]
    BY <1>8 DEF GenerateStruct, Visited, Ends, Statement
  <2>3. CASE outcome' \in {"threw", "undefined"}
    BY <2>1, <2>3 DEF Layout
  <2>4. CASE outcome' \notin {"threw", "undefined"}
    <3>1. structs = [n \in StructNames |-> Laid(n, at)]
      BY <1>a, <2>1 DEF Now
    <3>2. name \in StructNames /\ Defines(at, name)
      BY <1>0, <2>1, StatementTypes DEF Defines
    <3>3. structs[name].is = "defined" <=> Above(Definitions(name), at) # {}
      BY <3>1, <3>2, Distinct DEF Laid
    <3>4. Above(Definitions(name), at + 1) # {}
      <4>1. at \in Definitions(name)
        BY <2>1, <3>2 DEF Definitions
      <4>2. at \in Above(Definitions(name), at + 1)
        BY <1>0, <4>1 DEF Above
      <4> QED
        BY <4>2
    <3>5. Laid(name, at + 1) = LaidOut(name)
      BY <3>4 DEF Laid
    <3>6. structs'[name] = LaidOut(name)
      <4>1. CASE Above(Definitions(name), at) # {}
        BY <2>2, <2>4, <3>1, <3>2, <3>3, <4>1 DEF Laid
      <4>2. CASE Above(Definitions(name), at) = {}
        <5>1. FieldsOf(name) = fields
          BY <1>0, <2>1, <3>2, <4>2, FirstDefinition DEF FieldsOf
        <5> QED
          BY <2>2, <2>4, <3>1, <3>2, <3>3, <4>2, <5>1 DEF LaidOut
      <4> QED
        BY <4>1, <4>2
    <3>7. ASSUME NEW n \in StructNames, n # name PROVE Laid(n, at + 1) = Laid(n, at)
      <4>1. at \notin Definitions(n)
        BY <3>7 DEF Definitions, Defines
      <4> QED
        BY <1>0, <2>1, <4>1, AboveNext DEF Laid
    <3>8. structs' = [n \in StructNames |-> Laid(n, at + 1)]
      BY <2>2, <2>4, <3>1, <3>2, <3>5, <3>6, <3>7
    <3>9. structs' = [n \in StructNames |-> Now(n)']
      BY <2>1, <2>2, <2>4, <3>8, SameText DEF Now, source
    <3> QED
      BY <2>1, <2>2, <2>4, <3>9 DEF Layout
  <2> QED
    BY <2>3, <2>4
<1>9. CASE GeneratePrototype \/ Finish
  <2>1. /\ outcome = "running" /\ pass = "generate" /\ at \in Nat
        /\ UNCHANGED <<program, mode, pass, at, structs>>
    BY <1>0, <1>9 DEF GeneratePrototype, Finish, Visits, Ends, source
  <2>2. outcome' = "generated" => at = Len(program) + 1
    BY <1>0, <1>9 DEF GeneratePrototype, Finish, Visits, Ends, Typed
  <2>3. ASSUME NEW n PROVE Now(n)' = Now(n)
    BY <2>1, SameText DEF Now, source, Opaque, Unknown
  <2> QED
    BY <1>a, <2>1, <2>2, <2>3 DEF Layout
<1>10. CASE UNCHANGED vars
  <2>1. \A n : Now(n)' = Now(n)
    BY <1>10, SameText DEF Now, vars, source, Opaque, Unknown
  <2> QED
    BY <1>0, <1>10, <2>1 DEF Layout, vars
<1> QED
  BY <1>1, <1>2, <1>3, <1>4, <1>5, <1>6, <1>7, <1>8, <1>9, <1>10 DEF Next

LEMMA LInvAlways == Spec => []LInv
<1>1. LInv /\ [Next]_vars => LInv'
  BY TypedNext, LayoutNext DEF LInv
<1> QED
  BY LaidInit, <1>1, PTL DEF Spec

(***************************************************************************)
(* The structs that have a size: those found in as many rounds as there    *)
(* are structs are those that no endless set of structs holds.             *)
(***************************************************************************)
Grown(sized) ==
  {n \in StructNames :
     /\ structs[n].is = "defined"
     /\ \A k \in DOMAIN structs[n].body :
          structs[n].body[k].base \in StructNames => structs[n].body[k].base \in sized}
Rounds == Cardinality(StructNames)
IsSizing(f, m) == f = [d \in 0..m |-> IF d = 0 THEN {} ELSE Grown(f[d - 1])]

(* The function Sized is defined by recursion: there is one that satisfies *)
(* its definition.                                                         *)
LEMMA SizingExists ==
  ASSUME NEW m \in Nat
  PROVE  \E f : IsSizing(f, m)
<1> DEFINE bad == {d \in Nat : ~ \E f : IsSizing(f, d)}
<1>1. ASSUME bad # {} PROVE FALSE
  <2>1. PICK d \in bad : \A k \in bad : d <= k
    BY <1>1, Least
  <2>2. d # 0
    <3>1. IsSizing([x \in 0..0 |-> {}], 0)
      BY DEF IsSizing
    <3> QED
      BY <3>1
  <2>3. PICK f : IsSizing(f, d - 1)
    BY <2>1, <2>2
  <2> DEFINE g == [x \in 0..d |-> IF x = 0 THEN {} ELSE Grown(f[x - 1])]
  <2>4. ASSUME NEW x \in 0..(d - 1) PROVE g[x] = f[x]
    <3>1. f[x] = IF x = 0 THEN {} ELSE Grown(f[x - 1])
      BY <2>3 DEF IsSizing
    <3>2. x \in 0..d
      BY <2>1
    <3> QED
      BY <3>1, <3>2
  <2>5. g = [x \in 0..d |-> IF x = 0 THEN {} ELSE Grown(g[x - 1])]
    <3>1. ASSUME NEW x \in 0..d, x # 0 PROVE g[x - 1] = f[x - 1]
      <4>1. x - 1 \in 0..(d - 1)
        BY <2>1, <3>1
      <4> HIDE DEF g
      <4> QED
        BY <2>4, <4>1
    <3>2. ASSUME NEW x \in 0..d
          PROVE  g[x] = IF x = 0 THEN {} ELSE Grown(g[x - 1])
      BY <3>1
    <3>3. g = [x \in 0..d |-> g[x]]
      OBVIOUS
    <3> HIDE DEF g
    <3> QED
      BY <3>2, <3>3
  <2>6. IsSizing(g, d)
    BY <2>5 DEF IsSizing
  <2> QED
    BY <2>1, <2>6 DEF IsSizing
<1> QED
  BY <1>1

LEMMA SizedUnfolds == IsSizing(Sized, Rounds)
<1>1. Rounds \in Nat
  BY TypesAssumption, FS_CardinalityType DEF Rounds
<1>2. \E f : IsSizing(f, Rounds)
  BY <1>1, SizingExists
<1> QED
  BY <1>2, Zenon DEF Sized, IsSizing, Grown, Rounds

LEMMA SizedRounds ==
  /\ Rounds \in Nat
  /\ Sized[0] = {}
  /\ \A d \in 1..Rounds : Sized[d] = Grown(Sized[d - 1])
  /\ \A d \in 0..Rounds : Sized[d] \in SUBSET StructNames
<1>1. Rounds \in Nat
  BY TypesAssumption, FS_CardinalityType DEF Rounds
<1>2. \A d \in 0..Rounds : Sized[d] = IF d = 0 THEN {} ELSE Grown(Sized[d - 1])
  BY SizedUnfolds DEF IsSizing
<1>3. ASSUME NEW d \in 0..Rounds PROVE Sized[d] \in SUBSET StructNames
  <2>1. Sized[d] = {} \/ Sized[d] = Grown(Sized[d - 1])
    BY <1>2
  <2> QED
    BY <2>1 DEF Grown
<1> QED
  BY <1>1, <1>2, <1>3

(* Structs that hold one another, or are not defined, are never found. *)
LEMMA EndlessUnsized ==
  ASSUME NEW among \in SUBSET StructNames,
         \A m \in among : \/ structs[m].is # "defined"
                          \/ \E k \in DOMAIN structs[m].body : structs[m].body[k].base \in among,
         NEW d \in 0..Rounds
  PROVE  Sized[d] \cap among = {}
<1> DEFINE bad == {e \in 0..Rounds : Sized[e] \cap among # {}}
<1>1. ASSUME bad # {} PROVE FALSE
  <2>1. bad \in SUBSET Nat
    OBVIOUS
  <2>2. PICK e \in bad : \A k \in bad : e <= k
    BY <1>1, <2>1, Least
  <2>3. e \in 1..Rounds /\ e - 1 \in 0..Rounds
    BY <2>2, SizedRounds
  <2>4. PICK n \in among : n \in Grown(Sized[e - 1])
    BY <2>2, <2>3, SizedRounds
  <2>5. PICK k \in DOMAIN structs[n].body : structs[n].body[k].base \in among
    BY <2>4 DEF Grown
  <2>6. structs[n].body[k].base \in Sized[e - 1] \cap among
    BY <2>4, <2>5 DEF Grown
  <2>7. e - 1 \in bad
    BY <2>3, <2>6
  <2> QED
    BY <2>2, <2>3, <2>7
<1> QED
  BY <1>1

(* A round finds what the one before has found. *)
LEMMA SizedGrows ==
  ASSUME NEW d \in 1..Rounds
  PROVE  Sized[d - 1] \subseteq Sized[d]
<1> DEFINE bad == {e \in 1..Rounds : ~ (Sized[e - 1] \subseteq Sized[e])}
<1>1. ASSUME bad # {} PROVE FALSE
  <2>1. bad \in SUBSET Nat
    OBVIOUS
  <2>2. PICK e \in bad : \A k \in bad : e <= k
    BY <1>1, <2>1, Least
  <2>3. e # 1
    BY <2>2, SizedRounds
  <2>4. e - 1 \in 1..Rounds /\ e - 1 \notin bad
    BY <2>2, <2>3, SizedRounds
  <2>5. Sized[e - 2] \subseteq Sized[e - 1]
    BY <2>2, <2>4
  <2>6. Sized[e] = Grown(Sized[e - 1]) /\ Sized[e - 1] = Grown(Sized[e - 2])
    BY <2>2, <2>4, SizedRounds
  <2> QED
    BY <2>2, <2>5, <2>6 DEF Grown
<1> QED
  BY <1>1

(* A round that finds nothing is the last to be worth a look. *)
LEMMA SizedStops ==
  ASSUME NEW e \in 1..Rounds, Sized[e] = Sized[e - 1], NEW d \in e..Rounds
  PROVE  Sized[d] = Sized[e]
<1> DEFINE bad == {c \in e..Rounds : Sized[c] # Sized[e]}
<1>1. ASSUME bad # {} PROVE FALSE
  <2>1. bad \in SUBSET Nat
    OBVIOUS
  <2>2. PICK c \in bad : \A k \in bad : c <= k
    BY <1>1, <2>1, Least
  <2>3. c # e /\ c \in 1..Rounds /\ c - 1 \in e..Rounds
    BY <2>2, SizedRounds
  <2>4. Sized[c - 1] = Sized[e]
    BY <2>2, <2>3
  <2>5. Sized[c] = Grown(Sized[c - 1]) /\ Sized[e] = Grown(Sized[e - 1])
    BY <2>3, SizedRounds
  <2> QED
    BY <2>2, <2>4, <2>5
<1> QED
  BY <1>1

(* As long as every round finds something, it has found as many structs as *)
(* there have been rounds.                                                 *)
LEMMA SizedCounts ==
  ASSUME \A e \in 1..Rounds : Sized[e] # Sized[e - 1], NEW d \in 0..Rounds
  PROVE  Cardinality(Sized[d]) >= d
<1>0. \A e \in 0..Rounds : IsFiniteSet(Sized[e]) /\ Cardinality(Sized[e]) \in Nat
  BY SizedRounds, TypesAssumption, FS_Subset, FS_CardinalityType
<1> DEFINE bad == {e \in 0..Rounds : ~ (Cardinality(Sized[e]) >= e)}
<1>1. ASSUME bad # {} PROVE FALSE
  <2>1. bad \in SUBSET Nat
    OBVIOUS
  <2>2. PICK e \in bad : \A k \in bad : e <= k
    BY <1>1, <2>1, Least
  <2>3. e # 0
    BY <1>0, <2>2, SizedRounds
  <2>4. e \in 1..Rounds /\ e - 1 \in 0..Rounds /\ e - 1 \notin bad
    BY <2>2, <2>3, SizedRounds
  <2>5. Cardinality(Sized[e - 1]) >= e - 1
    BY <2>4
  <2>6. Sized[e - 1] \in SUBSET Sized[e] /\ Sized[e - 1] # Sized[e]
    BY <2>4, SizedGrows
  <2>7. Cardinality(Sized[e - 1]) <= Cardinality(Sized[e])
          /\ Cardinality(Sized[e]) # Cardinality(Sized[e - 1])
    BY <1>0, <2>4, <2>6, FS_Subset
  <2> QED
    BY <1>0, <2>2, <2>4, <2>5, <2>7
<1> QED
  BY <1>1

(* So the last round has found all there is to find. *)
LEMMA SizedIsAll == Grown(Sized[Rounds]) \subseteq Sized[Rounds]
<1>1. CASE \A e \in 1..Rounds : Sized[e] # Sized[e - 1]
  <2>1. Cardinality(Sized[Rounds]) >= Rounds
    BY <1>1, SizedCounts, SizedRounds
  <2>2. Sized[Rounds] \in SUBSET StructNames /\ Rounds \in Nat
    BY SizedRounds
  <2>3. Sized[Rounds] = StructNames
    <3>1. Cardinality(Sized[Rounds]) <= Rounds
      BY <2>2, TypesAssumption, FS_Subset DEF Rounds
    <3>2. Cardinality(Sized[Rounds]) \in Nat
      BY <2>2, TypesAssumption, FS_Subset, FS_CardinalityType
    <3>3. Cardinality(Sized[Rounds]) = Rounds
      BY <2>1, <2>2, <3>1, <3>2
    <3> QED
      BY <2>2, <3>3, TypesAssumption, FS_Subset DEF Rounds
  <2> QED
    BY <2>3 DEF Grown
<1>2. CASE \E e \in 1..Rounds : Sized[e] = Sized[e - 1]
  <2>1. PICK e \in 1..Rounds : Sized[e] = Sized[e - 1]
    BY <1>2
  <2>2. Sized[Rounds] = Sized[e]
    BY <2>1, SizedStops, SizedRounds
  <2>3. Sized[e] = Grown(Sized[e - 1])
    BY SizedRounds
  <2> QED
    BY <2>1, <2>2, <2>3
<1> QED
  BY <1>1, <1>2

(* What LLVM's type of a type holds. *)
LEMMA HoldsEvaluated ==
  ASSUME NEW type \in Type
  PROVE  {Evaluated(type).base} \cap StructNames = Holds(type)
<1> DEFINE cut == {k \in DOMAIN type.wraps : type.wraps[k] # "array"}
<1>1. cut = {} <=> Range(type.wraps) \subseteq {"array"}
  BY DEF Range
<1>2. CASE cut = {}
  BY <1>1, <1>2 DEF Evaluated, Holds, Names
<1>3. CASE cut # {}
  <2>1. Evaluated(type).base = "ptr"
    BY <1>3 DEF Evaluated, TypeOf
  <2> QED
    BY <1>1, <1>3, <2>1, TypesAssumption DEF Holds
<1> QED
  BY <1>2, <1>3

LEMMA FieldTypes ==
  ASSUME program \in Seq(Statements), NEW n, Definitions(n) # {}
  PROVE  n \in StructNames /\ FieldsOf(n) \in Seq(Type)
<1>1. Min(Definitions(n)) \in Definitions(n)
  BY MinIsLeast, Positions
<1> QED
  BY <1>1, StatementTypes DEF Definitions, Defines, FieldsOf

LEMMA BasesAreHeld ==
  ASSUME NEW fields \in Seq(Type)
  PROVE  Bases([k \in DOMAIN fields |-> Evaluated(fields[k])])
           = UNION {Holds(type) : type \in Range(fields)}
<1> DEFINE types == [k \in DOMAIN fields |-> Evaluated(fields[k])]
<1>1. Range(types) = {Evaluated(fields[k]) : k \in DOMAIN fields}
  BY DEF Range
<1>2. Bases(types) = UNION {{Evaluated(fields[k]).base} \cap StructNames : k \in DOMAIN fields}
  <2>1. Bases(types) = {type.base : type \in {Evaluated(fields[k]) : k \in DOMAIN fields}} \cap StructNames
    BY <1>1, Zenon DEF Bases
  <2>2. {type.base : type \in {Evaluated(fields[k]) : k \in DOMAIN fields}}
          = {Evaluated(fields[k]).base : k \in DOMAIN fields}
    OBVIOUS
  <2> HIDE DEF types
  <2> QED
    BY <2>1, <2>2
<1>3. \A k \in DOMAIN fields : {Evaluated(fields[k]).base} \cap StructNames = Holds(fields[k])
  BY HoldsEvaluated
<1>4. UNION {Holds(type) : type \in Range(fields)} = UNION {Holds(fields[k]) : k \in DOMAIN fields}
  BY DEF Range
<1> HIDE DEF types
<1> QED
  BY <1>2, <1>3, <1>4 DEF types

(* What LLVM finds in the bodies when the generator is at i. *)
LEMMA BasesLaid ==
  ASSUME program \in Seq(Statements), NEW i, NEW m \in StructNames
  PROVE  Bases(Laid(m, i).body) = IF Above(Definitions(m), i) # {} THEN HeldBy(m) ELSE {}
<1>1. CASE Above(Definitions(m), i) # {}
  <2>1. Definitions(m) # {}
    BY <1>1 DEF Above
  <2>2. FieldsOf(m) \in Seq(Type)
    BY <2>1, FieldTypes
  <2>3. Laid(m, i).body = [k \in DOMAIN FieldsOf(m) |-> Evaluated(FieldsOf(m)[k])]
    BY <1>1 DEF Laid, LaidOut, Body
  <2> QED
    BY <1>1, <2>2, <2>3, BasesAreHeld DEF HeldBy
<1>2. CASE Above(Definitions(m), i) = {}
  BY <1>2 DEF Laid, Opaque, Unknown, Bases, Range
<1> QED
  BY <1>1, <1>2

(* When the generator is at i, the structs that have a size are those that *)
(* are not held by an endless set of structs.                              *)
LEMMA UnsizedIsEndless ==
  ASSUME program \in Seq(Statements), NEW i,
         structs = [n \in StructNames |-> Laid(n, i)],
         NEW n \in StructNames
  PROVE  n \notin Sized[Rounds] <=> Endless(n, i)
<1>1. ASSUME NEW m \in StructNames
      PROVE  structs[m].is = "defined" <=> Above(Definitions(m), i) # {}
  BY Distinct DEF Laid
<1>2. ASSUME NEW m \in StructNames, Above(Definitions(m), i) # {}
      PROVE  HeldBy(m) = {structs[m].body[k].base : k \in DOMAIN structs[m].body} \cap StructNames
  <2>1. HeldBy(m) = Bases(structs[m].body)
    BY <1>2, BasesLaid
  <2> QED
    BY <2>1 DEF Bases, Range
<1>3. ASSUME Endless(n, i) PROVE n \notin Sized[Rounds]
  <2>1. PICK among \in SUBSET StructNames :
          n \in among /\ \A m \in among : Above(Definitions(m), i) = {} \/ HeldBy(m) \cap among # {}
    BY <1>3 DEF Endless
  <2>2. ASSUME NEW m \in among
        PROVE  \/ structs[m].is # "defined"
               \/ \E k \in DOMAIN structs[m].body : structs[m].body[k].base \in among
    BY <1>1, <1>2, <2>1
  <2>3. Sized[Rounds] \cap among = {}
    <3>1. Rounds \in 0..Rounds
      BY SizedRounds
    <3> QED
      BY <2>2, <3>1, EndlessUnsized
  <2> QED
    BY <2>1, <2>3
<1>4. ASSUME n \notin Sized[Rounds] PROVE Endless(n, i)
  <2> DEFINE among == StructNames \ Sized[Rounds]
  <2>1. ASSUME NEW m \in among, Above(Definitions(m), i) # {} PROVE HeldBy(m) \cap among # {}
    <3>1. m \notin Grown(Sized[Rounds])
      BY SizedIsAll
    <3> QED
      BY <1>1, <1>2, <2>1, <3>1 DEF Grown
  <2>2. n \in among /\ among \in SUBSET StructNames
    BY <1>4
  <2> HIDE DEF among
  <2> QED
    BY <2>1, <2>2 DEF Endless
<1> QED
  BY <1>3, <1>4

LEMMA SizedIsStored ==
  ASSUME program \in Seq(Statements), NEW i,
         structs = [n \in StructNames |-> Laid(n, i)],
         NEW type \in Type
  PROVE  IsSized(type) <=> Stored(type, i)
<1>3. ASSUME NEW n \in StructNames PROVE n \notin Sized[Rounds] <=> Endless(n, i)
  BY UnsizedIsEndless
<1>5. IsSized(type) <=> \A n \in Holds(type) : n \in Sized[Rounds]
  <2>1. {Evaluated(type).base} \cap StructNames = Holds(type)
    BY HoldsEvaluated
  <2>2. ASSUME Evaluated(type).base \in StructNames PROVE Evaluated(type).base = type.base
    <3>1. Holds(type) # {}
      BY <2>1, <2>2
    <3>2. Holds(type) \subseteq {type.base}
      BY DEF Holds, Names
    <3> QED
      BY <2>1, <2>2, <3>1, <3>2
  <2> QED
    BY <2>1, <2>2 DEF IsSized, Rounds
<1>6. Holds(type) \subseteq StructNames
  BY DEF Holds, Names
<1> QED
  BY <1>3, <1>5, <1>6 DEF Stored

(***************************************************************************)
(* Circles: LLVM refuses a body exactly where the text closes a circle of  *)
(* structs, since none has been closed above.                              *)
(***************************************************************************)
LEMMA NoCircle ==
  ASSUME program \in Seq(Statements), NEW i \in Nat,
         \A j \in DOMAIN program : j < i => GenerateFaults(j) = {},
         NEW among \in SUBSET StructNames, among # {}
  PROVE  \E m \in among : Above(Definitions(m), i) = {} \/ HeldBy(m) \cap among = {}
<1> SUFFICES ASSUME \A m \in among : Above(Definitions(m), i) # {} /\ HeldBy(m) \cap among # {}
             PROVE  FALSE
  OBVIOUS
<1> DEFINE late == {k \in Nat : \A m \in among : Above(Definitions(m), k) # {}}
<1>1. i \in late /\ late \in SUBSET Nat
  OBVIOUS
<1>2. PICK k \in late : \A c \in late : k <= c
  BY <1>1, Least
<1>3. k \in Nat /\ k <= i
  BY <1>1, <1>2
<1>4. k # 0
  <2>1. PICK m \in among : TRUE
    OBVIOUS
  <2>2. Definitions(m) \subseteq 1..Len(program)
    BY Positions
  <2>3. Above(Definitions(m), 0) = {}
    BY <2>2 DEF Above
  <2> QED
    BY <1>2, <2>1, <2>3
<1>5. k - 1 \in Nat /\ k - 1 \notin late
  <2>1. k - 1 \in Nat /\ ~ (k <= k - 1)
    BY <1>3, <1>4
  <2> HIDE DEF late
  <2> QED
    BY <1>2, <2>1
<1>6. PICK m \in among : Above(Definitions(m), k - 1) = {}
  BY <1>5
<1>7. PICK d \in Definitions(m) : d < k
  BY <1>2 DEF Above
<1>8. d \in DOMAIN program /\ d \in Nat /\ program[d].kind = "struct" /\ program[d].name = m
  BY Positions DEF Definitions, Defines
<1>9. d = k - 1
  BY <1>3, <1>6, <1>7, <1>8 DEF Above
<1>10. d = Min(Definitions(m))
  BY <1>6, <1>8, <1>9, FirstDefinition DEF Defines
<1>11. Cyclic(d)
  <2>1. \A c \in among : Above(Definitions(c), d + 1) # {} /\ HeldBy(c) \cap among # {}
    BY <1>2, <1>3, <1>9
  <2> QED
    BY <1>8, <2>1 DEF Cyclic
<1>12. GenerateFaults(d) # {}
  BY <1>8, <1>10, <1>11 DEF GenerateFaults
<1> QED
  BY <1>3, <1>8, <1>9, <1>12

LEMMA RecursiveIsCyclic ==
  ASSUME program \in Seq(Statements), NEW i \in DOMAIN program,
         structs = [n \in StructNames |-> Laid(n, i)],
         \A j \in DOMAIN program : j < i => GenerateFaults(j) = {},
         NEW name \in StructNames, Defines(i, name), i = Min(Definitions(name)),
         NEW types, types = [k \in DOMAIN program[i].fields |-> Evaluated(program[i].fields[k])]
  PROVE  Recursive(name, types) <=> Cyclic(i)
<1> DEFINE bases(m) == Bases(structs[m].body)
           Closed(S) == \A m \in S : bases(m) \subseteq S
<1>1. i \in Nat /\ Above(Definitions(name), i) = {}
  BY FirstDefinition
<1>2. Bases(types) = HeldBy(name)
  <2>1. FieldsOf(name) = program[i].fields /\ FieldsOf(name) \in Seq(Type)
    BY FieldTypes DEF FieldsOf, Definitions
  <2> QED
    BY <2>1, BasesAreHeld DEF HeldBy
<1>3. ASSUME NEW m \in StructNames
      PROVE  bases(m) = IF Above(Definitions(m), i) # {} THEN HeldBy(m) ELSE {}
  BY BasesLaid
<1>4. ASSUME NEW m \in StructNames
      PROVE  Above(Definitions(m), i + 1) # {} <=> m = name \/ Above(Definitions(m), i) # {}
  <2>1. i \in Definitions(m) <=> m = name
    BY DEF Definitions, Defines
  <2> QED
    BY <2>1, AboveNext
<1>5. HeldBy(name) \subseteq StructNames
  BY <1>2 DEF Bases
<1> HIDE DEF bases
<1>6. Recursive(name, types) <=>
        \A S \in SUBSET StructNames : HeldBy(name) \subseteq S /\ Closed(S) => name \in S
  BY <1>2 DEF Recursive, bases
<1>7. ASSUME Recursive(name, types) PROVE Cyclic(i)
  <2> DEFINE safe == UNION {S \in SUBSET StructNames : Closed(S) /\ name \notin S}
             among == StructNames \ safe
  <2>1. safe \in SUBSET StructNames /\ Closed(safe) /\ name \notin safe
    OBVIOUS
  <2>2. name \in among /\ HeldBy(name) \cap among # {}
    BY <1>5, <1>6, <1>7, <2>1
  <2>3. ASSUME NEW m \in among, m # name PROVE bases(m) \cap among # {}
    <3>1. SUFFICES ASSUME bases(m) \subseteq safe PROVE FALSE
      BY <1>3 DEF bases, Bases
    <3>2. Closed(safe \cup {m}) /\ name \notin safe \cup {m} /\ safe \cup {m} \in SUBSET StructNames
      BY <2>1, <2>3, <3>1
    <3>3. m \in safe
      BY <3>2
    <3> QED
      BY <2>3, <3>3
  <2> HIDE DEF among
  <2>4. among \in SUBSET StructNames
    BY DEF among
  <2>5. ASSUME NEW m \in among
        PROVE  Above(Definitions(m), i + 1) # {} /\ HeldBy(m) \cap among # {}
    <3>1. CASE m = name
      BY <1>4, <2>2, <3>1
    <3>2. CASE m # name
      BY <1>3, <1>4, <2>3, <2>4, <3>2
    <3> QED
      BY <3>1, <3>2
  <2> QED
    BY <2>2, <2>4, <2>5 DEF Cyclic, Defines
<1>8. ASSUME Cyclic(i) PROVE Recursive(name, types)
  <2>1. PICK among \in SUBSET StructNames :
          /\ name \in among
          /\ \A m \in among : Above(Definitions(m), i + 1) # {} /\ HeldBy(m) \cap among # {}
    BY <1>8 DEF Cyclic, Defines
  <2>2. ASSUME NEW S \in SUBSET StructNames, HeldBy(name) \subseteq S, Closed(S), name \notin S
        PROVE  FALSE
    <3> DEFINE circle == among \cap S
    <3>1. circle \in SUBSET StructNames /\ circle # {}
      BY <2>1, <2>2
    <3>2. ASSUME NEW m \in circle
          PROVE  Above(Definitions(m), i) # {} /\ HeldBy(m) \cap circle # {}
      <4>1. Above(Definitions(m), i) # {}
        BY <1>4, <2>1, <2>2, <3>1, <3>2
      <4>2. HeldBy(m) \subseteq S
        BY <1>3, <2>2, <3>1, <4>1
      <4> QED
        BY <2>1, <4>1, <4>2
    <3> HIDE DEF circle
    <3> QED
      BY <1>1, <3>1, <3>2, NoCircle
  <2> QED
    BY <1>6, <2>2
<1> QED
  BY <1>7, <1>8

(***************************************************************************)
(* What the passes find at a statement is what its text says.              *)
(***************************************************************************)
LEMMA UndefinedIsUnknown ==
  ASSUME NEW type \in Type, NEW known \in SUBSET StructNames,
         \A n \in StructNames : structs[n] = Unknown <=> n \notin known
  PROVE  Undefined(type) <=> \E n \in Asks(type) : n \notin known
  BY DEF Undefined, Asks, Names

LEMMA DeclareKnows ==
  ASSUME LInv, pass = "declare", outcome = "running", NEW type \in Type
  PROVE  Undefined(type) <=> \E n \in Asks(type) : ~ KnownToDeclare(n, at)
<1> DEFINE known == {n \in StructNames : KnownToDeclare(n, at)}
<1>1. structs = [n \in StructNames |-> IF KnownToDeclare(n, at) THEN Opaque ELSE Unknown]
  BY DEF LInv, Layout, Now
<1>2. \A n \in StructNames : structs[n] = Unknown <=> n \notin known
  BY <1>1 DEF Opaque, Unknown
<1>3. Asks(type) \subseteq StructNames
  BY DEF Asks, Names
<1>4. Undefined(type) <=> \E n \in Asks(type) : n \notin known
  <2> HIDE DEF known
  <2>1. known \in SUBSET StructNames
    BY DEF known
  <2> QED
    BY <1>2, <2>1, UndefinedIsUnknown
<1> QED
  BY <1>3, <1>4

LEMMA GenerateKnows ==
  ASSUME LInv, pass = "generate", outcome = "running", NEW type \in Type
  PROVE  Undefined(type) <=> \E n \in Asks(type) : ~ KnownToGenerate(n, at)
<1> DEFINE known == {n \in StructNames : KnownToGenerate(n, at)}
<1>1. structs = [n \in StructNames |-> Laid(n, at)]
  BY DEF LInv, Layout, Now
<1>2. ASSUME NEW n \in StructNames PROVE structs[n] = Unknown <=> n \notin known
  BY <1>1, Distinct DEF Laid, KnownToGenerate, Declared
<1>3. Asks(type) \subseteq StructNames
  BY DEF Asks, Names
<1>4. Undefined(type) <=> \E n \in Asks(type) : n \notin known
  <2> HIDE DEF known
  <2>1. known \in SUBSET StructNames
    BY DEF known
  <2> QED
    BY <1>2, <2>1, UndefinedIsUnknown
<1> QED
  BY <1>3, <1>4

LEMMA GenerateSizes ==
  ASSUME LInv, pass = "generate", outcome = "running", NEW type \in Type
  PROVE  IsSized(type) <=> Stored(type, at)
<1>1. program \in Seq(Statements) /\ structs = [n \in StructNames |-> Laid(n, at)]
  BY DEF LInv, Typed, Layout, Now
<1> QED
  BY <1>1, SizedIsStored

LEMMA WrittenTypes ==
  ASSUME NEW proto \in Prototype
  PROVE  Written(proto) \subseteq Type
  BY DEF Written, Prototype, Range

(* The prototypes of main that the checker refuses. *)
LEMMA MainIsMain ==
  ASSUME NEW proto \in Prototype
  PROVE  MainFails(proto) <=> ~ IsMain(proto)
<1>1. proto.params \in Seq(Type)
  BY DEF Prototype
<1>2. DOMAIN proto.params = 1..Len(proto.params) /\ Len(proto.params) \in Nat
  BY <1>1
<1>3. ASSUME Len(proto.params) <= 3
      PROVE  1..Len(proto.params) = {k \in {1, 2, 3} : k <= Len(proto.params)}
  BY <1>2, <1>3
<1>4. CASE Len(proto.params) <= 3
  BY <1>2, <1>3, <1>4 DEF MainFails, IsMain
<1>5. CASE ~ (Len(proto.params) <= 3)
  BY <1>2, <1>5 DEF MainFails, IsMain
<1> QED
  BY <1>4, <1>5

BadMain(i) ==
  IsFunction(program[i]) /\ program[i].proto.name = "main" /\ ~ IsMain(program[i].proto)

(* A struct that is generated: its fields are looked at once.              *)
LEMMA StructVerdict ==
  ASSUME LInv, pass = "generate", outcome = "running", at \in DOMAIN program,
         program[at].kind = "struct",
         \A j \in DOMAIN program : j < at => GenerateFaults(j) = {},
         NEW types,
         types = [k \in DOMAIN program[at].fields |-> Evaluated(program[at].fields[k])]
  PROVE  /\ program[at].name \in StructNames
         /\ structs[program[at].name].is = "defined" => GenerateFaults(at) = {}
         /\ structs[program[at].name].is # "defined" =>
              GenerateFaults(at) =
                IF \E type \in Range(program[at].fields) :
                     \/ type.base # program[at].name /\ Undefined(type)
                     \/ type = TypeOf(<<>>, program[at].name)
                THEN {"threw"}
                ELSE IF Recursive(program[at].name, types) THEN {"undefined"} ELSE {}
<1> DEFINE name == program[at].name
           fields == program[at].fields
           unknown == UNION {{n \in Asks(type) : ~KnownToGenerate(n, at)} : type \in TypesAt(at)}
<1>0. program \in Seq(Statements) /\ structs = [n \in StructNames |-> Laid(n, at)]
  BY DEF LInv, Typed, Layout, Now
<1>1. name \in StructNames /\ fields \in Seq(Type)
  BY <1>0, StatementTypes
<1>2. structs[name].is = "defined" <=> at # Min(Definitions(name))
  <2>1. Defines(at, name)
    BY DEF Defines
  <2>2. Above(Definitions(name), at) = {} <=> Min(Definitions(name)) = at
    BY <1>0, <2>1, FirstDefinition
  <2> QED
    BY <1>0, <1>1, <2>2, Distinct DEF Laid
<1>3. TypesAt(at) = IF structs[name].is = "defined" THEN {} ELSE Range(fields)
  BY <1>2 DEF TypesAt
<1>4. StoredAt(at) = {}
  BY DEF StoredAt
<1>9. structs[name].is # "defined" => (Recursive(name, types) <=> Cyclic(at))
  BY <1>0, <1>1, <1>2, RecursiveIsCyclic DEF Defines
<1>5. GenerateFaults(at) = IF unknown \ {name} # {} \/ TypeOf(<<>>, name) \in TypesAt(at)
                           THEN {"threw"}
                           ELSE IF structs[name].is # "defined" /\ Recursive(name, types)
                           THEN {"undefined"} ELSE {}
  BY <1>2, <1>4, <1>9 DEF GenerateFaults
<1>6. unknown \ {name} # {} <=> \E type \in TypesAt(at) : type.base # name /\ Undefined(type)
  <2>1. TypesAt(at) \subseteq Type
    BY <1>1, <1>3 DEF Range
  <2>2. ASSUME NEW type \in TypesAt(at)
        PROVE  /\ Undefined(type) <=> \E n \in Asks(type) : ~KnownToGenerate(n, at)
               /\ Asks(type) \subseteq {type.base}
    BY <2>1, GenerateKnows DEF Asks, Names
  <2> QED
    BY <2>2
<1>7. CASE structs[name].is = "defined"
  <2>1. TypesAt(at) = {}
    BY <1>3, <1>7
  <2>2. unknown = {}
    BY <2>1
  <2> HIDE DEF unknown
  <2> QED
    BY <1>1, <1>5, <1>7, <2>1, <2>2
<1>8. CASE structs[name].is # "defined"
  <2>1. TypesAt(at) = Range(fields)
    BY <1>3, <1>8
  <2> HIDE DEF unknown
  <2> QED
    BY <1>1, <1>5, <1>6, <1>8, <2>1
<1> QED
  BY <1>7, <1>8

(* A function or a variable that is generated. *)
LEMMA FunctionVerdict ==
  ASSUME LInv, pass = "generate", outcome = "running", at \in DOMAIN program,
         program[at].kind = "func"
  PROVE  /\ program[at].proto \in Prototype
         /\ GenerateFaults(at) =
              IF \E type \in Written(program[at].proto) : Undefined(type) THEN {"threw"}
              ELSE IF \A type \in Written(program[at].proto) : IsSized(type) THEN {}
              ELSE {"undefined"}
<1> DEFINE types == Written(program[at].proto)
           unknown == UNION {{n \in Asks(type) : ~KnownToGenerate(n, at)} : type \in types}
<1>1. program \in Seq(Statements)
  BY DEF LInv, Typed
<1>2. program[at].proto \in Prototype /\ types \subseteq Type
  BY <1>1, StatementTypes, WrittenTypes
<1>3. TypesAt(at) = types /\ StoredAt(at) = types
  BY DEF TypesAt, StoredAt
<1>4. unknown # {} <=> \E type \in types : Undefined(type)
  BY <1>2, GenerateKnows
<1>5. (\E type \in types : ~Stored(type, at)) <=> ~ \A type \in types : IsSized(type)
  BY <1>2, GenerateSizes
<1>6. GenerateFaults(at) = IF unknown # {} THEN {"threw"}
                           ELSE IF \E type \in types : ~Stored(type, at) THEN {"undefined"} ELSE {}
  BY <1>3 DEF GenerateFaults
<1> HIDE DEF types, unknown
<1>7. GenerateFaults(at) =
        IF \E type \in types : Undefined(type) THEN {"threw"}
        ELSE IF \A type \in types : IsSized(type) THEN {} ELSE {"undefined"}
  BY <1>4, <1>5, <1>6
<1> QED
  BY <1>2, <1>7 DEF types

LEMMA VariableVerdict ==
  ASSUME LInv, pass = "generate", outcome = "running", at \in DOMAIN program,
         program[at].kind = "let"
  PROVE  GenerateFaults(at) =
           IF Undefined(program[at].type) THEN {"threw"}
           ELSE IF program[at].inside /\ ~IsSized(program[at].type) THEN {"undefined"} ELSE {}
<1> DEFINE type == program[at].type
<1>1. program \in Seq(Statements)
  BY DEF LInv, Typed
<1>2. type \in Type
  BY <1>1, StatementTypes
<1>3. TypesAt(at) = {type} /\ StoredAt(at) = IF program[at].inside THEN {type} ELSE {}
  BY DEF TypesAt, StoredAt
<1>4. Undefined(type) <=> {n \in Asks(type) : ~KnownToGenerate(n, at)} # {}
  BY <1>2, GenerateKnows
<1>5. IsSized(type) <=> Stored(type, at)
  BY <1>2, GenerateSizes
<1> HIDE DEF type
<1>6. GenerateFaults(at) =
        IF {n \in Asks(type) : ~KnownToGenerate(n, at)} # {} THEN {"threw"}
        ELSE IF program[at].inside /\ ~Stored(type, at) THEN {"undefined"} ELSE {}
  BY <1>3 DEF GenerateFaults
<1> QED
  BY <1>4, <1>5, <1>6 DEF type

(***************************************************************************)
(* The first fault.                                                        *)
(***************************************************************************)
LEMMA MinIs ==
  ASSUME NEW S \in SUBSET Nat, NEW i \in S, \A j \in S : i <= j
  PROVE  Min(S) = i
<1>1. Min(S) \in S /\ \A k \in S : Min(S) <= k
  BY MinIsLeast
<1>2. Min(S) \in Nat /\ i \in Nat
  BY <1>1
<1>3. Min(S) <= i /\ i <= Min(S)
  BY <1>1
<1> QED
  BY <1>2, <1>3

LEMMA DeclareFirst ==
  ASSUME program \in Seq(Statements), NEW i \in DOMAIN program, DeclareFaults(i) # {},
         \A j \in DOMAIN program : j < i => DeclareFaults(j) = {}
  PROVE  First(DeclareFaults) = DeclareFaults(i)
<1> DEFINE bad == {j \in DOMAIN program : DeclareFaults(j) # {}}
<1>1. bad \in SUBSET Nat /\ i \in bad /\ \A j \in bad : i <= j
  OBVIOUS
<1>2. First(DeclareFaults) = IF bad = {} THEN {} ELSE DeclareFaults(Min(bad))
  BY DEF First
<1> HIDE DEF bad
<1> QED
  BY <1>1, <1>2, MinIs

LEMMA GenerateFirst ==
  ASSUME program \in Seq(Statements), NEW i \in DOMAIN program, GenerateFaults(i) # {},
         \A j \in DOMAIN program : j < i => GenerateFaults(j) = {}
  PROVE  First(GenerateFaults) = GenerateFaults(i)
<1> DEFINE bad == {j \in DOMAIN program : GenerateFaults(j) # {}}
<1>1. bad \in SUBSET Nat /\ i \in bad /\ \A j \in bad : i <= j
  OBVIOUS
<1>2. First(GenerateFaults) = IF bad = {} THEN {} ELSE GenerateFaults(Min(bad))
  BY DEF First
<1> HIDE DEF bad
<1> QED
  BY <1>1, <1>2, MinIs

LEMMA NoFaults ==
  /\ (\A j \in DOMAIN program : DeclareFaults(j) = {}) => First(DeclareFaults) = {}
  /\ (\A j \in DOMAIN program : GenerateFaults(j) = {}) => First(GenerateFaults) = {}
<1> DEFINE late == {j \in DOMAIN program : DeclareFaults(j) # {}}
           bad == {j \in DOMAIN program : GenerateFaults(j) # {}}
<1>1. /\ First(DeclareFaults) = IF late = {} THEN {} ELSE DeclareFaults(Min(late))
      /\ First(GenerateFaults) = IF bad = {} THEN {} ELSE GenerateFaults(Min(bad))
  BY DEF First
<1>2. /\ (\A j \in DOMAIN program : DeclareFaults(j) = {}) => late = {}
      /\ (\A j \in DOMAIN program : GenerateFaults(j) = {}) => bad = {}
  OBVIOUS
<1> HIDE DEF late, bad
<1> QED
  BY <1>1, <1>2

(* The invariant: no statement that a pass has left behind has a fault.    *)
Faultless ==
  /\ pass = "declare" => errors = FALSE /\ \A i \in DOMAIN program : i < at => DeclareFaults(i) = {}
  /\ pass \in {"check", "generate"} /\ mode = "Run" =>
       \A i \in DOMAIN program : DeclareFaults(i) = {}
  /\ pass = "check" => (errors <=> \E i \in DOMAIN program : i < at /\ BadMain(i))
  /\ pass = "generate" /\ mode = "Run" => CheckFaults = {}
  /\ pass = "generate" => \A i \in DOMAIN program : i < at => GenerateFaults(i) = {}

(* A function that has been created has known types. *)
KnownFunctions ==
  \A i \in functions :
    pass # "parse" /\ \A type \in Written(program[i].proto) : \A n \in Asks(type) : KnownToGenerate(n, i)

OInv ==
  /\ outcome = "running" => Faultless
  /\ KnownFunctions
  /\ OutcomeAsDeclared

LEMMA SameVerdicts ==
  ASSUME UNCHANGED source
  PROVE  /\ Expected' = Expected /\ CheckFaults' = CheckFaults
         /\ \A i : DeclareFaults(i)' = DeclareFaults(i)
         /\ \A i : GenerateFaults(i)' = GenerateFaults(i)
         /\ \A n, i : KnownToGenerate(n, i)' = KnownToGenerate(n, i)
         /\ \A i : BadMain(i)' = BadMain(i)
<1> USE DEF source
<1>1. \A n : Definitions(n)' = Definitions(n) /\ Outside(Definitions(n))' = Outside(Definitions(n))
  BY SameText
<1>2. \A n, i : KnownToGenerate(n, i)' = KnownToGenerate(n, i)
  BY <1>1 DEF KnownToGenerate, Above
<1>3. \A n, i : KnownToDeclare(n, i)' = KnownToDeclare(n, i)
  BY <1>1 DEF KnownToDeclare, Above
<1>4. \A n : Min(Definitions(n))' = Min(Definitions(n))
  BY <1>1 DEF Min
<1>5. \A type, i : Stored(type, i)' = Stored(type, i)
  <2>1. \A n : HeldBy(n)' = HeldBy(n)
    BY <1>4 DEF HeldBy, FieldsOf, Holds, Names, Range
  <2>2. \A n, i : Endless(n, i)' = Endless(n, i)
    BY <1>1, <2>1 DEF Endless, Above
  <2> QED
    BY <2>2 DEF Stored, Holds, Names
<1>10. \A i : Cyclic(i)' = Cyclic(i)
  <2>1. \A n : HeldBy(n)' = HeldBy(n)
    BY <1>4 DEF HeldBy, FieldsOf, Holds, Names, Range
  <2> QED
    BY <1>1, <2>1 DEF Cyclic, Above
<1>6. \A i : DeclareFaults(i)' = DeclareFaults(i)
  BY <1>3 DEF DeclareFaults, Written, Asks, Names, Range
<1>7. \A i : TypesAt(i)' = TypesAt(i) /\ StoredAt(i)' = StoredAt(i)
  BY <1>4 DEF TypesAt, StoredAt, Written, Range
<1>8. \A i : GenerateFaults(i)' = GenerateFaults(i)
  BY <1>2, <1>4, <1>5, <1>7, <1>10 DEF GenerateFaults, Asks, Names, Range, TypeOf
<1>9. CheckFaults' = CheckFaults /\ \A i : BadMain(i)' = BadMain(i)
  BY DEF CheckFaults, BadMain, IsMain, IsInt, IsSlice, IsFunction, TypeOf
<1>11. /\ First(DeclareFaults)' = First(DeclareFaults)
       /\ First(GenerateFaults)' = First(GenerateFaults)
  <2> DEFINE late == {j \in DOMAIN program : DeclareFaults(j) # {}}
             bad == {j \in DOMAIN program : GenerateFaults(j) # {}}
  <2>1. /\ First(DeclareFaults) = IF late = {} THEN {} ELSE DeclareFaults(Min(late))
        /\ First(GenerateFaults) = IF bad = {} THEN {} ELSE GenerateFaults(Min(bad))
    BY DEF First
  <2>2. /\ First(DeclareFaults)' = IF late' = {} THEN {} ELSE DeclareFaults(Min(late))'
        /\ First(GenerateFaults)' = IF bad' = {} THEN {} ELSE GenerateFaults(Min(bad))'
    BY DEF First
  <2>3. late' = late /\ bad' = bad
    BY <1>6, <1>8
  <2>4. Min(late)' = Min(late) /\ Min(bad)' = Min(bad)
    BY <2>3 DEF Min
  <2> HIDE DEF late, bad
  <2>5. DeclareFaults(Min(late))' = DeclareFaults(Min(late))
    BY <1>6, <2>4
  <2>6. GenerateFaults(Min(bad))' = GenerateFaults(Min(bad))
    BY <1>8, <2>4
  <2> QED
    BY <2>1, <2>2, <2>3, <2>5, <2>6
<1>12. Expected' = Expected
  BY <1>9, <1>11 DEF Expected
<1> QED
  BY <1>2, <1>6, <1>8, <1>9, <1>12

LEMMA OutcomeInit == Init => OInv
  BY DEF Init, OInv, Faultless, KnownFunctions, OutcomeAsDeclared

(* A fault of the declaration pass decides a run; one of the generator     *)
(* decides a compilation that has got there.                               *)
LEMMA DeclareDecides ==
  ASSUME LInv, OInv, outcome = "running", pass = "declare", at \in DOMAIN program,
         DeclareFaults(at) # {}
  PROVE  Expected = DeclareFaults(at)
<1>1. First(DeclareFaults) = DeclareFaults(at)
  BY DeclareFirst DEF LInv, Typed, OInv, Faultless
<1> QED
  BY <1>1 DEF Expected, LInv, Typed

LEMMA GenerateDecides ==
  ASSUME LInv, OInv, outcome = "running", pass = "generate", at \in DOMAIN program,
         GenerateFaults(at) # {}
  PROVE  Expected = GenerateFaults(at)
<1>1. First(GenerateFaults) = GenerateFaults(at)
  BY GenerateFirst DEF LInv, Typed, OInv, Faultless
<1>2. mode = "Run" => First(DeclareFaults) = {} /\ CheckFaults = {}
  BY NoFaults DEF OInv, Faultless
<1> QED
  BY <1>1, <1>2 DEF Expected

(* The visit of a statement without a fault. *)
LEMMA Goes ==
  ASSUME LInv, OInv, outcome = "running", pass = "generate", at \in DOMAIN program,
         GenerateFaults(at) = {}, at' = at + 1, UNCHANGED <<program, mode, pass>>
  PROVE  Faultless'
<1>1. UNCHANGED source /\ at \in Nat
  BY DEF source, LInv, Typed
<1>2. ASSUME NEW i \in DOMAIN program, i < at + 1 PROVE GenerateFaults(i) = {}
  <2>1. i < at \/ i = at
    BY <1>1, <1>2 DEF LInv, Typed
  <2> QED
    BY <2>1 DEF OInv, Faultless
<1> QED
  BY <1>1, <1>2, SameVerdicts DEF OInv, Faultless

LEMMA SameKnown ==
  ASSUME UNCHANGED source, KnownFunctions, pass = "parse" \/ pass' # "parse",
         functions' = functions
  PROVE  KnownFunctions'
<1>1. ASSUME NEW i \in functions
      PROVE  /\ pass' # "parse"
             /\ \A type \in Written(program'[i].proto) : \A n \in Asks(type) : KnownToGenerate(n, i)'
  BY <1>1, SameVerdicts DEF KnownFunctions, source
<1> QED
  BY <1>1 DEF KnownFunctions, Asks, Names, Written, Range

LEMMA OutcomeNext == LInv /\ OInv /\ [Next]_vars => OInv'
<1> SUFFICES ASSUME LInv, OInv, [Next]_vars PROVE OInv'
  OBVIOUS
<1>0. /\ program \in Seq(Statements)
      /\ at \in 1..(Len(program) + 1) /\ DOMAIN program = 1..Len(program)
  BY DEF LInv, Typed
<1>1. ASSUME NEW s \in Statements, Parse(s) PROVE OInv'
  <2>1. functions = {} /\ outcome = "running"
    BY <1>1 DEF Parse, OInv, KnownFunctions, LInv, Layout
  <2> QED
    BY <1>1, <2>1 DEF Parse, OInv, Faultless, KnownFunctions, OutcomeAsDeclared
<1>2. CASE StartRun \/ StartBuild
  <2>1. /\ pass = "parse" /\ at = 1 /\ outcome = "running" /\ errors = FALSE
        /\ UNCHANGED <<program, at, functions, errors, outcome>>
        /\ pass' = "declare" \/ (pass' = "generate" /\ mode' = "Build")
    BY <1>2 DEF StartRun, StartBuild, Start, LInv, Layout
  <2>2. functions = {}
    BY <2>1 DEF OInv, KnownFunctions
  <2>3. \A i \in DOMAIN program : ~ (i < 1)
    BY <1>0
  <2> QED
    BY <2>1, <2>2, <2>3 DEF OInv, Faultless, KnownFunctions, OutcomeAsDeclared
<1>3. CASE DeclareStruct \/ DeclareNothing
  <2>1. /\ pass = "declare" /\ outcome = "running" /\ at \in DOMAIN program
        /\ at' = at + 1 /\ UNCHANGED <<source, program, mode, pass, outcome, functions, errors>>
        /\ program[at].kind # "func"
    BY <1>3 DEF DeclareStruct, DeclareNothing, Visits, Visited, Statement, source
  <2>2. DeclareFaults(at) = {}
    BY <2>1 DEF DeclareFaults
  <2>3. \A i \in DOMAIN program : i < at + 1 => DeclareFaults(i) = {}
    BY <1>0, <2>1, <2>2 DEF OInv, Faultless
  <2>4. Faultless'
    BY <2>1, <2>3, SameVerdicts DEF OInv, Faultless
  <2> QED
    BY <2>1, <2>4, SameKnown DEF OInv, OutcomeAsDeclared
<1>4. CASE DeclareFunction
  <2>1. /\ pass = "declare" /\ outcome = "running" /\ at \in DOMAIN program
        /\ UNCHANGED <<source, program, mode, pass, errors>>
        /\ program[at].kind = "func" /\ mode = "Run"
    BY <1>4 DEF DeclareFunction, Creates, Visits, Visited, Ends, Statement, source, LInv, Typed
  <2> DEFINE types == Written(program[at].proto)
  <2>2. types \subseteq Type
    BY <2>1, <1>0, StatementTypes, WrittenTypes
  <2>3. ASSUME NEW type \in types
        PROVE  Undefined(type) <=> \E n \in Asks(type) : ~KnownToDeclare(n, at)
    BY <2>1, <2>2, DeclareKnows
  <2>4. DeclareFaults(at) = IF \E type \in types : Undefined(type) THEN {"threw"} ELSE {}
    BY <2>1, <2>3 DEF DeclareFaults
  <2>5. CASE \E type \in types : Undefined(type)
    <3>1. outcome' = "threw" /\ UNCHANGED functions
      BY <1>4, <2>5 DEF DeclareFunction, Creates, Ends, Statement
    <3>2. Expected' = {"threw"}
      BY <2>1, <2>4, <2>5, DeclareDecides, SameVerdicts
    <3> QED
      BY <2>1, <3>1, <3>2, SameKnown DEF OInv, OutcomeAsDeclared
  <2>6. CASE ~ \E type \in types : Undefined(type)
    <3>1. at' = at + 1 /\ UNCHANGED <<errors, outcome>> /\ functions' = functions \cup {at}
      BY <1>4, <2>6 DEF DeclareFunction, Creates, Visited, Statement
    <3>2. \A i \in DOMAIN program : i < at + 1 => DeclareFaults(i) = {}
      BY <1>0, <2>1, <2>4, <2>6 DEF OInv, Faultless
    <3>3. Faultless'
      BY <2>1, <3>1, <3>2, SameVerdicts DEF OInv, Faultless
    <3>4. ASSUME NEW type \in types, NEW n \in Asks(type) PROVE KnownToGenerate(n, at)
      <4>1. KnownToDeclare(n, at)
        BY <2>3, <2>6, <3>4
      <4> QED
        BY <2>1, <4>1 DEF KnownToDeclare, KnownToGenerate, Above
    <3>5. ASSUME NEW i \in functions \cup {at}
          PROVE  \A type \in Written(program[i].proto) : \A n \in Asks(type) : KnownToGenerate(n, i)
      BY <3>4 DEF OInv, KnownFunctions
    <3>6. KnownFunctions'
      BY <2>1, <3>1, <3>5, SameVerdicts DEF KnownFunctions, Written, Asks, Names, Range
    <3> QED
      BY <2>1, <3>1, <3>3, <3>6 DEF OInv, OutcomeAsDeclared
  <2> QED
    BY <2>5, <2>6
<1>5. CASE EndDeclare
  <2>1. /\ pass = "declare" /\ outcome = "running" /\ pass' = "check" /\ at' = 1
        /\ at = Len(program) + 1
        /\ UNCHANGED <<source, program, mode, functions, errors, outcome>>
    BY <1>0, <1>5 DEF EndDeclare, Passes, source
  <2>2. \A i \in DOMAIN program : DeclareFaults(i) = {} /\ ~ (i < 1)
    BY <1>0, <2>1 DEF OInv, Faultless
  <2>3. errors = FALSE
    BY <2>1 DEF OInv, Faultless
  <2>4. Faultless'
    BY <2>1, <2>2, <2>3, SameVerdicts DEF Faultless
  <2> QED
    BY <2>1, <2>4, SameKnown DEF OInv, OutcomeAsDeclared
<1>6. CASE Check
  <2>1. /\ pass = "check" /\ outcome = "running" /\ at \in DOMAIN program /\ at' = at + 1
        /\ UNCHANGED <<source, program, mode, pass, functions, outcome>>
    BY <1>6 DEF Check, Visits, Visited, source
  <2>2. errors' <=> errors \/ BadMain(at)
    <3>1. IsFunction(program[at]) => program[at].proto \in Prototype
      BY <1>0, <2>1, StatementTypes DEF IsFunction
    <3>2. IsFunction(program[at]) => (MainFails(program[at].proto) <=> ~ IsMain(program[at].proto))
      BY <3>1, MainIsMain
    <3> QED
      BY <1>6, <3>2, Zenon DEF Check, BadMain, Statement
  <2>3. errors' <=> \E i \in DOMAIN program : i < at + 1 /\ BadMain(i)
    <3>1. ASSUME NEW i \in DOMAIN program PROVE i < at + 1 <=> i < at \/ i = at
      BY <1>0, <2>1
    <3>2. errors <=> \E i \in DOMAIN program : i < at /\ BadMain(i)
      BY <2>1 DEF OInv, Faultless
    <3> QED
      BY <2>1, <2>2, <3>1, <3>2
  <2>4. Faultless'
    <3>1. errors' <=> \E i \in DOMAIN program' : i < at' /\ BadMain(i)'
      BY <2>1, <2>3, SameVerdicts
    <3> QED
      BY <2>1, <3>1, SameVerdicts DEF OInv, Faultless
  <2> QED
    BY <2>1, <2>4, SameKnown DEF OInv, OutcomeAsDeclared
<1>7. CASE EndCheck \/ Reject
  <2>1. /\ pass = "check" /\ outcome = "running" /\ mode = "Run" /\ at = Len(program) + 1
        /\ UNCHANGED <<source, program, mode, functions, errors>>
    BY <1>0, <1>7 DEF EndCheck, Reject, Passes, Ends, source, LInv, Typed
  <2>2. errors <=> CheckFaults # {}
    BY <1>0, <2>1 DEF OInv, Faultless, CheckFaults, BadMain
  <2>3. \A i \in DOMAIN program : DeclareFaults(i) = {} /\ ~ (i < 1)
    BY <1>0, <2>1 DEF OInv, Faultless
  <2>4. CASE EndCheck
    <3>1. pass' = "generate" /\ at' = 1 /\ outcome' = outcome /\ ~ errors
      BY <2>4 DEF EndCheck, Passes
    <3>2. Faultless'
      BY <2>1, <2>2, <2>3, <3>1, SameVerdicts DEF Faultless
    <3> QED
      BY <2>1, <3>1, <3>2, SameKnown DEF OInv, OutcomeAsDeclared
  <2>5. CASE Reject
    <3>1. outcome' = "rejected" /\ pass' = pass /\ errors
      BY <2>5 DEF Reject, Ends
    <3>2. CheckFaults = {"rejected"} /\ First(DeclareFaults) = {}
      BY <2>2, <2>3, <3>1, NoFaults DEF CheckFaults
    <3>3. Expected = {"rejected"}
      BY <2>1, <3>2 DEF Expected
    <3> QED
      BY <2>1, <3>1, <3>3, SameKnown, SameVerdicts DEF OInv, OutcomeAsDeclared
  <2> QED
    BY <1>7, <2>4, <2>5
<1>8. CASE GenerateStruct
  <2> DEFINE name == program[at].name
             fields == program[at].fields
             refused == \E type \in Range(fields) : \/ type.base # name /\ Undefined(type)
                                                    \/ type = TypeOf(<<>>, name)
             types == [k \in DOMAIN fields |-> Evaluated(fields[k])]
             ends == structs[name].is # "defined" /\ (refused \/ Recursive(name, types))
  <2>1. /\ at \in DOMAIN program /\ pass = "generate" /\ outcome = "running"
        /\ program[at].kind = "struct"
        /\ UNCHANGED <<source, program, mode, pass, functions>>
    BY <1>8 DEF GenerateStruct, Visits, Visited, Ends, source, Statement
  <2>2. IF ends THEN outcome' = IF refused THEN "threw" ELSE "undefined"
        ELSE at' = at + 1 /\ UNCHANGED outcome
    BY <1>8 DEF GenerateStruct, Visited, Ends, Statement
  <2>3. GenerateFaults(at) = IF ends THEN IF refused THEN {"threw"} ELSE {"undefined"} ELSE {}
    <3>1. \A j \in DOMAIN program : j < at => GenerateFaults(j) = {}
      BY <2>1 DEF OInv, Faultless
    <3> QED
      BY <2>1, <3>1, StructVerdict
  <2> HIDE DEF refused, ends
  <2>4. CASE ends
    <3>1. GenerateFaults(at) = {outcome'} /\ outcome' # "running"
      BY <2>2, <2>3, <2>4
    <3>2. Expected' = {outcome'}
      <4>1. GenerateFaults(at) # {}
        BY <3>1
      <4>2. Expected' = GenerateFaults(at)
        BY <2>1, <4>1, GenerateDecides, SameVerdicts
      <4> QED
        BY <3>1, <4>2
    <3> QED
      BY <2>1, <3>1, <3>2, SameKnown DEF OInv, OutcomeAsDeclared
  <2>5. CASE ~ ends
    <3>1. GenerateFaults(at) = {} /\ at' = at + 1 /\ UNCHANGED outcome
      BY <2>2, <2>3, <2>5
    <3>2. Faultless'
      BY <2>1, <3>1, Goes
    <3> QED
      BY <2>1, <3>1, <3>2, SameKnown DEF OInv, OutcomeAsDeclared
  <2> QED
    BY <2>4, <2>5
<1>9. CASE GeneratePrototype
  <2> DEFINE types == Written(program[at].proto)
  <2>1. /\ at \in DOMAIN program /\ pass = "generate" /\ outcome = "running"
        /\ program[at].kind = "func"
        /\ UNCHANGED <<source, program, mode, pass, at, errors>>
    BY <1>9 DEF GeneratePrototype, Visits, Ends, source, Statement
  <2>2. types \subseteq Type
    BY <2>1, FunctionVerdict, WrittenTypes
  <2>3. CASE \E type \in types : Undefined(type)
    <3>1. outcome' = "threw" /\ UNCHANGED functions
      BY <1>9, <2>3 DEF GeneratePrototype, Ends, Statement
    <3>2. GenerateFaults(at) = {"threw"}
      BY <2>1, <2>3, FunctionVerdict
    <3>3. Expected' = {"threw"}
      BY <2>1, <3>2, GenerateDecides, SameVerdicts
    <3> QED
      BY <2>1, <3>1, <3>3, SameKnown DEF OInv, OutcomeAsDeclared
  <2>4. CASE ~ \E type \in types : Undefined(type)
    <3>1. UNCHANGED outcome /\ functions' = functions \cup {at}
      BY <1>9, <2>4 DEF GeneratePrototype, Statement
    <3>2. ASSUME NEW type \in types, NEW n \in Asks(type) PROVE KnownToGenerate(n, at)
      BY <2>1, <2>2, <2>4, <3>2, GenerateKnows
    <3>3. ASSUME NEW i \in functions \cup {at}
          PROVE  \A type \in Written(program[i].proto) : \A n \in Asks(type) : KnownToGenerate(n, i)
      BY <3>2 DEF OInv, KnownFunctions
    <3>4. KnownFunctions'
      BY <2>1, <3>1, <3>3, SameVerdicts DEF KnownFunctions, Written, Asks, Names, Range
    <3>5. Faultless'
      BY <2>1, <3>1, SameVerdicts DEF OInv, Faultless
    <3> QED
      BY <2>1, <3>1, <3>4, <3>5 DEF OInv, OutcomeAsDeclared
  <2> QED
    BY <2>3, <2>4
<1>10. CASE GenerateFunction
  <2> DEFINE types == Written(program[at].proto)
  <2>1. /\ at \in DOMAIN program /\ pass = "generate" /\ outcome = "running"
        /\ program[at].kind = "func" /\ at \in functions
        /\ UNCHANGED <<source, program, mode, pass, functions>>
    BY <1>10 DEF GenerateFunction, Visits, Visited, Ends, source, Statement
  <2>2. types \subseteq Type
    BY <2>1, FunctionVerdict, WrittenTypes
  <2>3. ASSUME NEW type \in types PROVE ~ Undefined(type)
    <3>1. \A n \in Asks(type) : KnownToGenerate(n, at)
      BY <2>1 DEF OInv, KnownFunctions
    <3> QED
      BY <2>1, <2>2, <3>1, GenerateKnows
  <2>4. GenerateFaults(at) = IF \A type \in types : IsSized(type) THEN {} ELSE {"undefined"}
    BY <2>1, <2>3, FunctionVerdict
  <2>5. IF \A type \in types : IsSized(type) THEN at' = at + 1 /\ UNCHANGED outcome
        ELSE outcome' = "undefined"
    BY <1>10 DEF GenerateFunction, Visited, Ends, Statement
  <2>6. CASE \A type \in types : IsSized(type)
    <3>1. Faultless'
      BY <2>1, <2>4, <2>5, <2>6, Goes
    <3> QED
      BY <2>1, <2>5, <2>6, <3>1, SameKnown DEF OInv, OutcomeAsDeclared
  <2>7. CASE ~ \A type \in types : IsSized(type)
    <3>1. GenerateFaults(at) = {"undefined"} /\ outcome' = "undefined"
      BY <2>4, <2>5, <2>7
    <3>2. Expected' = {"undefined"}
      BY <2>1, <3>1, GenerateDecides, SameVerdicts
    <3> QED
      BY <2>1, <3>1, <3>2, SameKnown DEF OInv, OutcomeAsDeclared
  <2> QED
    BY <2>6, <2>7
<1>11. CASE GenerateVariable
  <2> DEFINE type == program[at].type
             unsized == program[at].inside /\ ~IsSized(type)
  <2>1. /\ at \in DOMAIN program /\ pass = "generate" /\ outcome = "running"
        /\ program[at].kind = "let"
        /\ UNCHANGED <<source, program, mode, pass, functions>>
    BY <1>11 DEF GenerateVariable, Visits, Visited, Ends, source, Statement
  <2>2. GenerateFaults(at) =
          IF Undefined(type) THEN {"threw"} ELSE IF unsized THEN {"undefined"} ELSE {}
    BY <2>1, VariableVerdict
  <2>3. IF Undefined(type) THEN outcome' = "threw"
        ELSE IF unsized THEN outcome' = "undefined"
        ELSE at' = at + 1 /\ UNCHANGED outcome
    BY <1>11 DEF GenerateVariable, Visited, Ends, Statement
  <2> HIDE DEF unsized
  <2>4. CASE Undefined(type) \/ unsized
    <3>1. GenerateFaults(at) = {outcome'} /\ outcome' # "running"
      BY <2>2, <2>3, <2>4
    <3>2. Expected' = {outcome'}
      <4>1. GenerateFaults(at) # {}
        BY <3>1
      <4>2. Expected' = GenerateFaults(at)
        BY <2>1, <4>1, GenerateDecides, SameVerdicts
      <4> QED
        BY <3>1, <4>2
    <3> QED
      BY <2>1, <3>1, <3>2, SameKnown DEF OInv, OutcomeAsDeclared
  <2>5. CASE ~ (Undefined(type) \/ unsized)
    <3>1. GenerateFaults(at) = {} /\ at' = at + 1 /\ UNCHANGED outcome
      BY <2>2, <2>3, <2>5
    <3>2. Faultless'
      BY <2>1, <3>1, Goes
    <3> QED
      BY <2>1, <3>1, <3>2, SameKnown DEF OInv, OutcomeAsDeclared
  <2> QED
    BY <2>4, <2>5
<1>12. CASE Finish
  <2>1. /\ pass = "generate" /\ outcome = "running" /\ at = Len(program) + 1
        /\ UNCHANGED <<source, program, mode, pass, functions>>
    BY <1>0, <1>12 DEF Finish, Ends, source
  <2>3. outcome' = "generated"
    BY <1>12 DEF Finish, Ends
  <2>4. First(GenerateFaults) = {}
    <3>1. \A i \in DOMAIN program : GenerateFaults(i) = {}
      BY <1>0, <2>1 DEF OInv, Faultless
    <3> QED
      BY <3>1, NoFaults
  <2>5. mode = "Run" => First(DeclareFaults) = {} /\ CheckFaults = {}
    BY <2>1, NoFaults DEF OInv, Faultless
  <2>6. Expected = {outcome'}
    BY <2>3, <2>4, <2>5 DEF Expected
  <2>7. Expected' = {outcome'} /\ outcome' # "running"
    BY <2>1, <2>3, <2>6, SameVerdicts
  <2> QED
    BY <2>1, <2>7, SameKnown DEF OInv, OutcomeAsDeclared
<1>13. CASE UNCHANGED vars
  <2>1. UNCHANGED source
    BY <1>13 DEF vars, source
  <2> QED
    BY <1>13, <2>1, SameVerdicts, SameKnown DEF vars, OInv, Faultless, OutcomeAsDeclared
<1> QED
  BY <1>1, <1>2, <1>3, <1>4, <1>5, <1>6, <1>7, <1>8, <1>9, <1>10, <1>11, <1>12, <1>13 DEF Next

LEMMA OutcomeAlways == Spec => []OInv
<1>1. Init => OInv
  BY OutcomeInit
<1>2. LInv /\ OInv /\ [Next]_vars => OInv'
  BY OutcomeNext
<1> QED
  BY LInvAlways, <1>1, <1>2, PTL DEF Spec

(* How a compilation ends is what the text of the program says: the first  *)
(* statement that a pass must stop at decides.  LLVM refuses the body that *)
(* closes a circle of structs, and what has a size is in no endless set.   *)
THEOREM OutcomeDeclared == Spec => []OutcomeAsDeclared
<1>1. OInv => OutcomeAsDeclared
  BY DEF OInv
<1> QED
  BY OutcomeAlways, <1>1, PTL

(* No statement of a generated program has a fault. *)
LEMMA AllFaultless ==
  ASSUME program \in Seq(Statements), Expected = {"generated"}
  PROVE  \A j \in DOMAIN program : GenerateFaults(j) = {}
<1> DEFINE bad == {j \in DOMAIN program : GenerateFaults(j) # {}}
<1>1. \A j : "generated" \notin GenerateFaults(j)
  BY DEF GenerateFaults
<1>2. \A j : "generated" \notin DeclareFaults(j)
  BY DEF DeclareFaults
<1>3. "generated" \notin First(DeclareFaults) /\ "generated" \notin CheckFaults
  BY <1>2 DEF First, CheckFaults
<1>4. First(GenerateFaults) = {}
  <2>1. "generated" \notin First(GenerateFaults)
    BY <1>1 DEF First
  <2> QED
    BY <1>3, <2>1 DEF Expected
<1>5. First(GenerateFaults) = IF bad = {} THEN {} ELSE GenerateFaults(Min(bad))
  BY DEF First
<1>6. ASSUME bad # {} PROVE Min(bad) \in bad
  <2>1. bad \in SUBSET Nat
    OBVIOUS
  <2> HIDE DEF bad
  <2> QED
    BY <1>6, <2>1, MinIsLeast
<1> QED
  BY <1>4, <1>5, <1>6

(* What a struct holds has a definition where its own had no fault. *)
LEMMA HeldAreDefined ==
  ASSUME program \in Seq(Statements), NEW m \in StructNames, Definitions(m) # {},
         \A j \in DOMAIN program : GenerateFaults(j) = {},
         NEW h \in HeldBy(m)
  PROVE  Definitions(h) # {}
<1> DEFINE d == Min(Definitions(m))
           unknown == UNION {{n \in Asks(type) : ~KnownToGenerate(n, d)} : type \in TypesAt(d)}
<1>1. d \in DOMAIN program /\ program[d].kind = "struct" /\ program[d].name = m
  BY Positions, MinIsLeast DEF Definitions, Defines
<1>2. PICK type \in Range(FieldsOf(m)) : h \in Holds(type)
  BY DEF HeldBy
<1>3. TypesAt(d) = Range(FieldsOf(m))
  BY <1>1 DEF TypesAt, FieldsOf
<1>4. h \in Asks(type)
  BY <1>2 DEF Holds, Asks
<1>5. unknown \ {m} = {}
  <2>1. GenerateFaults(d) = {}
    BY <1>1
  <2> QED
    BY <1>1, <2>1 DEF GenerateFaults
<1>6. CASE h = m
  BY <1>6
<1>7. CASE h # m
  <2>1. KnownToGenerate(h, d)
    BY <1>2, <1>3, <1>4, <1>5, <1>7
  <2> QED
    BY <2>1 DEF KnownToGenerate, Above, Outside
<1> QED
  BY <1>6, <1>7

(* In a generated program every struct has the fields of its first         *)
(* definition, and a size: whatever passes have been over the program, in  *)
(* whatever order the structs are defined and used.                        *)
THEOREM StructsLaidOut == Spec => []LayoutsAsWritten
<1>1. LInv /\ OInv => LayoutsAsWritten
  <2> SUFFICES ASSUME LInv, OInv, outcome = "generated", NEW n \in StructNames
               PROVE  IF Definitions(n) = {} THEN structs[n] = Unknown
                      ELSE structs[n] = LaidOut(n) /\ n \in Sized[Rounds]
    BY DEF LayoutsAsWritten, LaidOut, Rounds
  <2> DEFINE end == Len(program) + 1
  <2>1. program \in Seq(Statements) /\ structs = [m \in StructNames |-> Laid(m, end)]
    BY DEF LInv, Typed, Layout, Now
  <2>2. \A m : /\ Above(Definitions(m), end) = Definitions(m)
               /\ Outside(Definitions(m)) \subseteq Definitions(m)
    BY <2>1, Positions
  <2>3. structs[n] = IF Definitions(n) = {} THEN Unknown ELSE LaidOut(n)
    BY <2>1, <2>2 DEF Laid, Declared
  <2>4. \A j \in DOMAIN program : GenerateFaults(j) = {}
    BY <2>1, AllFaultless DEF OInv, OutcomeAsDeclared
  <2>5. ASSUME NEW m \in StructNames, Definitions(m) # {}, NEW h \in HeldBy(m)
        PROVE  Definitions(h) # {}
    BY <2>1, <2>4, <2>5, HeldAreDefined
  <2>6. ASSUME Definitions(n) # {}, n \notin Sized[Rounds] PROVE FALSE
    <3>1. PICK among \in SUBSET StructNames :
            /\ n \in among
            /\ \A m \in among : Above(Definitions(m), end) = {} \/ HeldBy(m) \cap among # {}
      BY <2>1, <2>6, UnsizedIsEndless DEF Endless
    <3> DEFINE circle == {m \in among : Definitions(m) # {}}
    <3>2. circle \in SUBSET StructNames /\ circle # {}
      BY <2>6, <3>1
    <3>3. ASSUME NEW m \in circle
          PROVE  Above(Definitions(m), end) # {} /\ HeldBy(m) \cap circle # {}
      <4>1. Above(Definitions(m), end) # {} /\ HeldBy(m) \cap among # {}
        BY <2>2, <3>1, <3>3
      <4> QED
        BY <2>5, <3>2, <4>1
    <3>4. end \in Nat
      BY <2>1
    <3> HIDE DEF circle, end
    <3> QED
      BY <2>1, <2>4, <3>2, <3>3, <3>4, NoCircle
  <2> QED
    BY <2>3, <2>6
<1> QED
  BY LInvAlways, OutcomeAlways, <1>1, PTL
=============================================================================
