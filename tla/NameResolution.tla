--------------------------- MODULE NameResolution ---------------------------
(***************************************************************************)
(* One compilation, from the tree the parser builds to the end of code     *)
(* generation: the passes of SwaCompiler::Run and ::Build over the same    *)
(* nodes, and the declaration each pass resolves each name to.  The tables *)
(* are the scopes of LexicalScope, which SymbolTable implements.  Types    *)
(* are left out: every variable and every function is an int.              *)
(***************************************************************************)
EXTENDS Naturals, Sequences, FiniteSets

CONSTANTS
  Names,          \* the identifiers of the source program
  NoName,         \* stands for a missing parameter or name
  Statements,     \* the statements programs are made of
  MaxStatements   \* bound: statements in a program, closing braces apart

(***************************************************************************)
(* A statement.  What an initialiser, a print and a return evaluate is a   *)
(* literal, an identifier or a call without arguments.                     *)
(***************************************************************************)
Literal == [kind |-> "literal", name |-> NoName]
Uses == {Literal} \cup [kind : {"id", "call"}, name : Names]
Statement ==
  [kind : {"let"}, name : Names, use : Uses]
    \cup [kind : {"func"}, name : Names, param : Names \cup {NoName}]
    \cup [kind : {"print", "return"}, use : Uses]
    \cup {[kind |-> "block"]}
Close == [kind |-> "close"]

ASSUME StatementsAssumption ==
  /\ NoName \notin Names
  /\ MaxStatements \in Nat
  /\ Statements \subseteq Statement

VARIABLES
  program,        \* the statements, in source order
  mode,           \* which entry point of SwaCompiler compiles it
  phase,          \* the pass at work, or how the compilation ended
  next,           \* the node the pass visits next
  visits,         \* the blocks and functions the pass is inside
  scopes,         \* the open scopes
  functions,      \* the functions of the checker's root table
  module,         \* the names of the LLVM module
  InsideFunction, \* a function is being generated
  errors,         \* the checker has reported an error
  checked,        \* checked[i]: what the checker resolved the use in i to
  generated       \* generated[i]: what the generator resolved it to

vars == <<program, mode, phase, next, visits, scopes, functions, module,
          InsideFunction, errors, checked, generated>>
source == <<program, mode>>

(***************************************************************************)
(* The tables.  A declaration is known by the position of its node.        *)
(***************************************************************************)
Positions == 1..Len(program)
Tables(ss) == INSTANCE LexicalScope WITH
  Ids <- 1..(2 * MaxStatements), scopes <- ss, functions <- functions, answer <- checked

Absent == [kind |-> "Absent", id |-> 0]
NoEntries == [n \in Names |-> Absent]
EmptyScope == [swa |-> NoEntries, llvm |-> NoEntries]
Entries == [kind : {"Variable", "Function", "Value"}, id : Positions] \cup {Absent}

Found(ss, map, g, n) ==
  CHOOSE e \in Entries : Tables(ss)!Innermost(n, map, g, e)

Declared(ss, map, n, e) == [ss EXCEPT ![Len(ss)][map][n] = e]
Popped(s, k) == SubSeq(s, 1, Len(s) - k)

(* What a pass has not resolved. *)
Unseen == [kind |-> "Unseen", id |-> 0]
NothingSeen == [i \in Positions |-> Unseen]

(***************************************************************************)
(* The parser: any well nested sequence of statements.                     *)
(***************************************************************************)
Opens(s) == s.kind \in {"block", "func"}
StatementCount == Len(SelectSeq(program, LAMBDA s : s # Close))

Init ==
  /\ program = <<>>
  /\ mode = "none"
  /\ phase = "parse"
  /\ next = 1
  /\ visits = <<>>
  /\ scopes = <<>>
  /\ functions = NoEntries
  /\ module = [n \in Names |-> [kind |-> "free", id |-> 0]]
  /\ InsideFunction = FALSE
  /\ errors = FALSE
  /\ checked = <<>>
  /\ generated = <<>>

ParseStatement(s) ==
  /\ phase = "parse"
  /\ StatementCount < MaxStatements
  /\ program' = Append(program, s)
  /\ visits' = IF Opens(s) THEN Append(visits, Len(program) + 1) ELSE visits
  /\ UNCHANGED <<mode, phase, next, scopes, functions, module, InsideFunction,
                 errors, checked, generated>>

ParseClose ==
  /\ phase = "parse"
  /\ visits # <<>>
  /\ program' = Append(program, Close)
  /\ visits' = Popped(visits, 1)
  /\ UNCHANGED <<mode, phase, next, scopes, functions, module, InsideFunction,
                 errors, checked, generated>>

(* A pass begins in a child of the root: the program is a block. *)
BeginPass(p) ==
  /\ phase' = p
  /\ next' = 1
  /\ visits' = <<>>
  /\ scopes' = <<EmptyScope>>

(* Run declares, checks and generates; Build only generates. *)
StartRun ==
  /\ phase = "parse" /\ visits = <<>> /\ program # <<>>
  /\ mode' = "Run"
  /\ checked' = NothingSeen /\ generated' = NothingSeen
  /\ BeginPass("declare")
  /\ UNCHANGED <<program, functions, module, InsideFunction, errors>>

StartBuild ==
  /\ phase = "parse" /\ visits = <<>> /\ program # <<>>
  /\ mode' = "Build"
  /\ checked' = NothingSeen /\ generated' = NothingSeen
  /\ BeginPass("generate")
  /\ UNCHANGED <<program, functions, module, InsideFunction, errors>>

(***************************************************************************)
(* What every pass does.                                                   *)
(***************************************************************************)
Visiting(p, kinds) ==
  /\ phase = p
  /\ next \in Positions
  /\ program[next].kind \in kinds

Finished(p) == phase = p /\ next > Len(program)

Enter == visits' = Append(visits, next) /\ next' = next + 1
Leave == visits' = Popped(visits, 1) /\ next' = next + 1
Innermost == program[visits[Len(visits)]]

(* The position after the brace that closes the node at i. *)
After(i) ==
  LET balanced(j) ==
        Cardinality({k \in i..j : Opens(program[k])}) =
          Cardinality({k \in i..j : program[k] = Close})
  IN  1 + CHOOSE j \in i..Len(program) :
            balanced(j) /\ \A k \in i..(j - 1) : ~balanced(k)

(* llvm::Function::Create renames a function whose name is taken, so that  *)
(* getFunction goes on answering with the first.                           *)
NamedFunction(m, n, i) ==
  IF m[n].kind = "free" THEN [m EXCEPT ![n] = [kind |-> "function", id |-> i]]
  ELSE m

(***************************************************************************)
(* DeclarationVisitor: functions of the program and of its blocks.  The    *)
(* body of a function is not visited.                                      *)
(***************************************************************************)
(* Mutant: the first function of a name stays in the table. *)
DeclareFunctionOnce ==
  /\ Visiting("declare", {"func"})
  /\ LET n == program[next].name IN
       /\ module' = NamedFunction(module, n, next)
       /\ functions' = IF functions[n] # Absent THEN functions
                       ELSE [functions EXCEPT ![n] = [kind |-> "Function", id |-> next]]
  /\ next' = After(next)
  /\ UNCHANGED <<source, phase, visits, scopes, InsideFunction, errors, checked,
                 generated>>

DeclareFunction ==
  /\ Visiting("declare", {"func"})
  /\ LET n == program[next].name IN
       /\ module' = NamedFunction(module, n, next)
       /\ functions' = [functions EXCEPT ![n] = [kind |-> "Function", id |-> next]]
  /\ next' = After(next)
  /\ UNCHANGED <<source, phase, visits, scopes, InsideFunction, errors, checked,
                 generated>>

(* Mutant: the functions of a block are not declared. *)
DeclareBlockNot ==
  /\ Visiting("declare", {"block"})
  /\ next' = After(next)
  /\ UNCHANGED <<source, phase, visits, scopes, functions, module,
                 InsideFunction, errors, checked, generated>>

DeclareBlock ==
  /\ Visiting("declare", {"block"})
  /\ Enter
  /\ scopes' = Append(scopes, EmptyScope)
  /\ UNCHANGED <<source, phase, functions, module, InsideFunction, errors,
                 checked, generated>>

DeclareClose ==
  /\ Visiting("declare", {"close"})
  /\ Leave
  /\ scopes' = Popped(scopes, 1)
  /\ UNCHANGED <<source, phase, functions, module, InsideFunction, errors,
                 checked, generated>>

DeclareSkip ==
  /\ Visiting("declare", {"let", "print", "return"})
  /\ next' = next + 1
  /\ UNCHANGED <<source, phase, visits, scopes, functions, module,
                 InsideFunction, errors, checked, generated>>

DeclareEnd ==
  /\ Finished("declare")
  /\ BeginPass("check")
  /\ UNCHANGED <<source, functions, module, InsideFunction, errors, checked,
                 generated>>

(***************************************************************************)
(* TypeCheckVisitor.  An unknown name is reported.  A call looks its name  *)
(* up as an identifier and again as a function: what is not a function     *)
(* leaves a dirty type and no error.                                       *)
(***************************************************************************)
(* Mutant: an unknown name is not reported. *)
CheckSilently(ss, u) ==
  LET e == Found(ss, "swa", functions, u.name) IN
    IF u = Literal THEN UNCHANGED <<errors, checked>>
    ELSE /\ checked' = [checked EXCEPT ![next] = e]
         /\ errors' = errors

Check(ss, u) ==
  LET e == Found(ss, "swa", functions, u.name) IN
    IF u = Literal THEN UNCHANGED <<errors, checked>>
    ELSE /\ checked' = [checked EXCEPT ![next] = e]
         /\ errors' = (errors \/ e = Absent)

(* The variable is declared before its initialiser is visited. *)
CheckLet ==
  /\ Visiting("check", {"let"})
  /\ LET ss == Declared(scopes, "swa", program[next].name,
                        [kind |-> "Variable", id |-> next])
     IN  scopes' = ss /\ Check(ss, program[next].use)
  /\ next' = next + 1
  /\ UNCHANGED <<source, phase, visits, functions, module, InsideFunction,
                 generated>>

CheckPrint ==
  /\ Visiting("check", {"print"})
  /\ Check(scopes, program[next].use)
  /\ next' = next + 1
  /\ UNCHANGED <<source, phase, visits, scopes, functions, module,
                 InsideFunction, generated>>

(* The value of a return is not visited. *)
CheckReturn ==
  /\ Visiting("check", {"return"})
  /\ next' = next + 1
  /\ UNCHANGED <<source, phase, visits, scopes, functions, module,
                 InsideFunction, errors, checked, generated>>

(* The parameters of a function are not declared. *)
CheckFunction ==
  /\ Visiting("check", {"func"})
  /\ functions' = [functions EXCEPT
       ![program[next].name] = [kind |-> "Function", id |-> next]]
  /\ Enter
  /\ scopes' = Append(scopes, EmptyScope)
  /\ UNCHANGED <<source, phase, module, InsideFunction, errors, checked, generated>>

CheckBlock ==
  /\ Visiting("check", {"block"})
  /\ Enter
  /\ scopes' = Append(scopes, EmptyScope)
  /\ UNCHANGED <<source, phase, functions, module, InsideFunction, errors,
                 checked, generated>>

(* Mutant: the table of a block stays the current one. *)
CheckCloseInside ==
  /\ Visiting("check", {"close"})
  /\ Leave
  /\ UNCHANGED <<source, phase, scopes, functions, module, InsideFunction,
                 errors, checked, generated>>

CheckClose ==
  /\ Visiting("check", {"close"})
  /\ Leave
  /\ scopes' = Popped(scopes, 1)
  /\ UNCHANGED <<source, phase, functions, module, InsideFunction, errors,
                 checked, generated>>

CheckErrors ==
  /\ Finished("check") /\ errors
  /\ phase' = "rejected"
  /\ UNCHANGED <<source, next, visits, scopes, functions, module,
                 InsideFunction, errors, checked, generated>>

CheckEnd ==
  /\ Finished("check") /\ ~errors
  /\ BeginPass("generate")
  /\ UNCHANGED <<source, functions, module, InsideFunction, errors, checked,
                 generated>>

(***************************************************************************)
(* CodeGenVisitor.  Identifiers are looked up in the tables, functions in  *)
(* the module.                                                             *)
(***************************************************************************)
Resolution(u) ==
  CASE u.kind = "literal" -> Unseen
    [] u.kind = "id" -> Found(scopes, "llvm", NoEntries, u.name)
    [] u.kind = "call" ->
         IF module[u.name].kind = "function"
         THEN [kind |-> "Function", id |-> module[u.name].id] ELSE Absent

Evaluate(u) ==
  /\ Resolution(u) # Absent
  /\ generated' = [generated EXCEPT ![next] = Resolution(u)]

(* The builder has a block from the first function on.                     *)
Positioned == \E i \in 1..(next - 1) : program[i].kind = "func"

(* A print asks for the type the checker gave its value: to visit a dirty  *)
(* one throws.                                                             *)
PrintsDirty(u) == u.kind = "call" /\ checked[next].kind # "Function"

(* The generator dereferences a pointer that is null, or reads past the    *)
(* parameters of the second of two functions of a name.                    *)
Undefined(s) ==
  \/ /\ s.kind = "let" /\ Resolution(s.use) # Absent /\ ~InsideFunction
     /\ module[s.name].kind = "function" \/ (s.use.kind = "call" /\ ~Positioned)
  \/ /\ s.kind = "print" /\ Resolution(s.use) # Absent
     /\ mode = "Build" \/ (~Positioned /\ ~PrintsDirty(s.use))
  \/ s.kind = "return" /\ ~InsideFunction
  \/ s.kind = "close" /\ Innermost.kind = "func" /\ ~InsideFunction
  \/ /\ s.kind = "func" /\ s.param = NoName
     /\ module[s.name].kind = "function"
     /\ program[module[s.name].id].param # NoName

Generating(kinds) ==
  Visiting("generate", kinds) /\ ~Undefined(program[next])

GenerateUndefined ==
  /\ Visiting("generate", {"let", "print", "return", "func", "close"})
  /\ Undefined(program[next])
  /\ phase' = "undefined"
  /\ UNCHANGED <<source, next, visits, scopes, functions, module,
                 InsideFunction, errors, checked, generated>>

(* An identifier without a value throws runtime_error, which nothing       *)
(* catches; a function that does not exist throws CodeGenException, which  *)
(* Run reports.                                                            *)
GenerateThrow ==
  /\ Generating({"let", "print", "return"})
  /\ Resolution(program[next].use) = Absent
  /\ phase' = IF program[next].use.kind = "call" /\ mode = "Run" THEN "refused"
              ELSE "aborted"
  /\ UNCHANGED <<source, next, visits, scopes, functions, module,
                 InsideFunction, errors, checked, generated>>

(* The variable is declared after its initialiser has been evaluated; one  *)
(* that is not in a function is a global of the module as well.            *)
GenerateLet ==
  /\ Generating({"let"})
  /\ Evaluate(program[next].use)
  /\ LET n == program[next].name IN
       /\ scopes' = Declared(scopes, "llvm", n, [kind |-> "Value", id |-> next])
       /\ module' = IF ~InsideFunction /\ module[n].kind = "free"
                    THEN [module EXCEPT ![n] = [kind |-> "global", id |-> next]]
                    ELSE module
  /\ next' = next + 1
  /\ UNCHANGED <<source, phase, visits, functions, InsideFunction, errors,
                 checked>>

GeneratePrint ==
  /\ Generating({"print"})
  /\ Evaluate(program[next].use)
  /\ IF PrintsDirty(program[next].use)
     THEN phase' = "aborted" /\ next' = next
     ELSE phase' = phase /\ next' = next + 1
  /\ UNCHANGED <<source, visits, scopes, functions, module, InsideFunction,
                 errors, checked>>

GenerateReturn ==
  /\ Generating({"return"})
  /\ Evaluate(program[next].use)
  /\ next' = next + 1
  /\ UNCHANGED <<source, phase, visits, scopes, functions, module,
                 InsideFunction, errors, checked>>

(* The body goes to the first function of its name, and so do as many of   *)
(* the names of the parameters as that function has arguments.             *)
GenerateFunction ==
  /\ Generating({"func"})
  /\ LET s == program[next]
         f == IF module[s.name].kind = "function" THEN module[s.name].id ELSE next
         parameters ==
           IF program[f].param = NoName THEN EmptyScope
           ELSE [EmptyScope EXCEPT
                   !.llvm[s.param] = [kind |-> "Value", id |-> next]]
     IN  /\ module' = NamedFunction(module, s.name, next)
         /\ scopes' = scopes \o <<parameters, EmptyScope>>
  /\ InsideFunction' = TRUE
  /\ Enter
  /\ UNCHANGED <<source, phase, functions, errors, checked, generated>>

GenerateBlock ==
  /\ Generating({"block"})
  /\ Enter
  /\ scopes' = Append(scopes, EmptyScope)
  /\ UNCHANGED <<source, phase, functions, module, InsideFunction, errors,
                 checked, generated>>

(* Mutant: the end of any block is taken for the end of the function. *)
GenerateAnyClose ==
  /\ Generating({"close"})
  /\ Leave
  /\ scopes' = Popped(scopes, IF Innermost.kind = "func" THEN 2 ELSE 1)
  /\ InsideFunction' = FALSE
  /\ UNCHANGED <<source, phase, functions, module, errors, checked, generated>>

(* Mutant: the table of the parameters stays the current one. *)
GenerateCloseBody ==
  /\ Generating({"close"})
  /\ Leave
  /\ scopes' = Popped(scopes, 1)
  /\ InsideFunction' = (Innermost.kind # "func" /\ InsideFunction)
  /\ UNCHANGED <<source, phase, functions, module, errors, checked, generated>>

GenerateClose ==
  /\ Generating({"close"})
  /\ Leave
  /\ IF Innermost.kind = "func"
     THEN scopes' = Popped(scopes, 2) /\ InsideFunction' = FALSE
     ELSE scopes' = Popped(scopes, 1) /\ InsideFunction' = InsideFunction
  /\ UNCHANGED <<source, phase, functions, module, errors, checked, generated>>

GenerateEnd ==
  /\ Finished("generate")
  /\ phase' = "generated"
  /\ UNCHANGED <<source, next, visits, scopes, functions, module,
                 InsideFunction, errors, checked, generated>>

Next ==
  \/ \E s \in Statements : ParseStatement(s)
  \/ ParseClose \/ StartRun \/ StartBuild
  \/ DeclareFunction \/ DeclareBlock \/ DeclareClose \/ DeclareSkip \/ DeclareEnd
  \/ CheckLet \/ CheckPrint \/ CheckReturn \/ CheckFunction \/ CheckBlock
  \/ CheckClose \/ CheckErrors \/ CheckEnd
  \/ GenerateUndefined \/ GenerateThrow \/ GenerateLet \/ GeneratePrint
  \/ GenerateReturn \/ GenerateFunction \/ GenerateBlock \/ GenerateClose
  \/ GenerateEnd

Spec == Init /\ [][Next]_vars

(***************************************************************************)
(* Properties.                                                             *)
(***************************************************************************)
Passes == {"declare", "check", "generate"}
Outcomes == {"rejected", "refused", "aborted", "undefined", "generated"}
Binding(kinds) == [kind : kinds, id : Positions] \cup {Absent, Unseen}
FunctionVisits == Cardinality({i \in 1..Len(visits) : program[visits[i]].kind = "func"})

(* The variables have their types, and a pass has exactly the scopes open  *)
(* that belong to the nodes it is inside: two for a function that is being *)
(* generated, one for anything else.                                       *)
TypeOK ==
  /\ program \in Seq(Statements \cup {Close})
  /\ mode \in {"none", "Run", "Build"}
  /\ phase \in {"parse"} \cup Passes \cup Outcomes
  /\ next \in 1..(Len(program) + 1)
  /\ visits \in Seq(Positions)
  /\ functions \in [Names -> [kind : {"Function"}, id : Positions] \cup {Absent}]
  /\ module \in [Names -> [kind : {"free", "function", "global"}, id : 0..Len(program)]]
  /\ InsideFunction \in BOOLEAN /\ errors \in BOOLEAN
  /\ mode # "none" =>
       /\ checked \in [Positions -> Binding({"Variable", "Function"})]
       /\ generated \in [Positions -> Binding({"Value", "Function"})]
       /\ Len(scopes) = 1 + Len(visits) +
            (IF mode = "Build" \/ phase \in {"generate", "refused", "aborted",
                                             "undefined", "generated"}
             THEN FunctionVisits ELSE 0)

Use(i) ==
  IF program[i].kind \in {"let", "print", "return"} THEN program[i].use ELSE Literal
Bound(i, kind) == Use(i).kind = kind /\ generated[i] # Unseen

(* The checker and the generator take a variable for the same declaration, *)
(* with two exceptions: the initialiser of a variable of the same name,    *)
(* which the checker takes for the new variable, and a use below a         *)
(* parameter, which the checker cannot see.                                *)
VariableUsesAgree ==
  \A i \in DOMAIN checked :
    Bound(i, "id") /\ checked[i].kind = "Variable" =>
      \/ generated[i] = [kind |-> "Value", id |-> checked[i].id]
      \/ checked[i].id = i
      \/ program[generated[i].id].kind = "func" /\ checked[i].id < generated[i].id

(* A program the checker accepts runs out of names in generation only at a *)
(* return, which it does not visit, at a variable initialised with itself, *)
(* at a function used as a variable and at a variable used as a function.  *)
AcceptedNamesResolve ==
  phase = "aborted" /\ mode = "Run" =>
    \/ program[next].kind = "return"
    \/ program[next].use.kind = "id" /\ checked[next].id = next
    \/ program[next].use.kind = "id" /\ checked[next].kind = "Function"
    \/ program[next].use.kind = "call" /\ checked[next].kind = "Variable"

Encloses(i, j) == Opens(program[i]) /\ i < j /\ j < After(i)
IsFunction(i, n) == program[i].kind = "func" /\ program[i].name = n
TopLevel(i) == ~\E j \in Positions : program[j].kind = "func" /\ Encloses(j, i)

(* In Run, a function that is not inside another one can be called from    *)
(* everywhere, above its declaration too.                                  *)
FunctionsCallable ==
  phase = "refused" =>
    ~\E i \in Positions : IsFunction(i, program[next].use.name) /\ TopLevel(i)

(* The two passes tell functions of one name apart in opposite ways: the   *)
(* checker types a call by the last one declared above the call, or the    *)
(* last of the program, the generator calls the first.  They agree on a    *)
(* name that is declared once.                                             *)
CallsBindAsDeclared ==
  \A i \in DOMAIN checked :
    Bound(i, "call") /\ checked[i].kind = "Function" =>
      LET all == {j \in Positions : IsFunction(j, Use(i).name)}
          top == {j \in all : TopLevel(j)}
          above == {j \in all : j < i}
          IsFirst(j, S) == j \in S /\ \A k \in S : j <= k
          IsLast(j, S) == j \in S /\ \A k \in S : k <= j
      IN  /\ IsFirst(generated[i].id, IF top # {} THEN top ELSE all)
          /\ IsLast(checked[i].id, IF above # {} THEN above ELSE top)

(* Without a function inside another one, a function that shares its name, *)
(* a return outside of functions and a print or a call above all of them,  *)
(* Run never dereferences null.                                            *)
Misplaced(i) ==
  \/ program[i].kind = "return" /\ TopLevel(i)
  \/ /\ program[i].kind = "print" \/ Use(i).kind = "call"
     /\ \A j \in 1..i : program[j].kind # "func"
NoNullDereference ==
  phase = "undefined" /\ mode = "Run" =>
    \/ Misplaced(next)
    \/ \E i, j \in Positions :
         /\ i # j
         /\ program[i].kind = "func"
         /\ \/ program[j].kind = "func" /\ Encloses(i, j)
            \/ program[j].kind \in {"func", "let"} /\ program[j].name = program[i].name

(***************************************************************************)
(* What the tests say of the language, and the code does not do.           *)
(***************************************************************************)
(* "Tests if the compiler resolves the type of a variable correctly within *)
(* a nested scope" (tests/compiler_tests.cpp, line 1196): the variable of  *)
(* an outer block an initialiser is generated from is the one it is        *)
(* checked with.                                                           *)
InitialisersAgree ==
  \A i \in DOMAIN checked :
    /\ program[i].kind = "let" /\ Bound(i, "id") /\ checked[i].kind = "Variable"
    /\ \E j \in Positions : Encloses(j, i) /\ ~Encloses(j, generated[i].id)
    => generated[i].id = checked[i].id

(* "Ensures the compiler detects name collisions between scopes and        *)
(* function tables" (tests/typecher_tests.cpp, line 258): a call whose     *)
(* name is that of a variable is rejected, whatever function it shadows.   *)
VariablesAreNotCalled ==
  phase = "generated" =>
    \A i \in DOMAIN checked : Use(i).kind = "call" => checked[i].kind # "Variable"
=============================================================================
