--------------------------- MODULE FunctionEmission ---------------------------
(***************************************************************************)
(* CodeGenVisitor at work on the bodies of functions and tests: the basic  *)
(* blocks it creates, where the builder inserts, the return of a function  *)
(* through its exit block, and the memory a function allocates and frees;  *)
(* then the verdict of the verifier and the execution of what it passes.   *)
(* Names are resolved as in NameResolution: functions have different names *)
(* here.  Tests may share one.                                             *)
(***************************************************************************)
EXTENDS Naturals, SequencesExt

CONSTANTS
  Vocabularies,   \* bound: the sets of statements programs are made of
  TestNames,      \* the names of tests, mangled
  MaxStatements   \* bound: statements in a program, closing braces apart

(* A let of a number, of a string, of a call, and of more than             *)
(* STACK_LIMIT_BYTES; a print, an assert_equal, another assertion, a       *)
(* return; an if, whose parts nobody visits; and what has a body.          *)
Leaves ==
  {"let", "let string", "let call", "let large", "print", "assert", "assert other",
   "return", "if"}
Bodies == {"func", "block", "test"}

FunctionNames == {"main", "function"}

ASSUME KindsAssumption ==
  /\ \A kinds \in Vocabularies : kinds \subseteq Leaves \cup Bodies
  /\ TestNames \cap FunctionNames = {}
  /\ MaxStatements \in Nat

VARIABLES
  program,        \* the statements visited, in the order of the visits
  visits,         \* the open bodies, each with what it restores
  phase,
  tables,         \* the symbol tables: their children and resourcesToFree
  currentSymbols,
  functions,      \* the name and the entry block of each function and test
  blocks,         \* the basic blocks: their function and their instructions
  insert,         \* the block the builder inserts into; 0: none
  InsideFunction,
  exit,           \* currentExitBlock and currentReturnStorage; 0: null
  pc,             \* the execution: the block, the instruction in it,
  heap,           \* the memory allocated and freed,
  result          \* and what the return storage holds

tree == <<program, visits>>
scopes == <<tables, currentSymbols>>
code == <<functions, blocks, insert>>
context == <<InsideFunction, exit>>
execution == <<pc, heap, result>>
vars == <<tree, phase, scopes, code, context, execution>>

Instruction(op, arg) == [op |-> op, arg |-> arg]
Other == Instruction("other", {})
Br(b) == Instruction("br", {b})
Ret == Instruction("ret", {})
Terminators == {"br", "ret"}

NewTable == [children |-> <<>>, resources |-> <<>>]
NewBlock(f) == [function |-> f, code |-> <<>>]
Uninitialised == {0}

Init ==
  /\ program = <<>> /\ visits = <<>>
  /\ phase = "program"
  (* the table of the driver, and the one of the program's block *)
  /\ tables = <<[NewTable EXCEPT !.children = <<2>>], NewTable>>
  /\ currentSymbols = 2
  /\ functions = <<>> /\ blocks = <<>>
  /\ insert = 0
  /\ InsideFunction = FALSE /\ exit = 0
  /\ pc = [block |-> 0, next |-> 1]
  /\ heap = [live |-> {}, freed |-> {}]
  /\ result = Uninitialised

(***************************************************************************)
(* Visiting a node.  Tests are set aside by the parser and visited after   *)
(* the program, when the compiler runs them.                               *)
(***************************************************************************)
StatementCount == Len(SelectSeq(program, LAMBDA k : k # "close"))
Visit(kind) ==
  /\ phase \in {"program", "tests"}
  /\ phase = "tests" => (kind = "test") = (visits = <<>>)
  /\ phase = "program" => kind # "test"
  /\ \E kinds \in Vocabularies : kind \in kinds /\ ToSet(program) \subseteq kinds \cup {"close"}
  /\ StatementCount < MaxStatements
  /\ program' = Append(program, kind)
Node == visits[Len(visits)]
Close(kind) ==
  /\ phase \in {"program", "tests"} /\ visits # <<>> /\ Node.kind = kind
  /\ program' = Append(program, "close")
  /\ visits' = SubSeq(visits, 1, Len(visits) - 1)
Open(kind) ==
  visits' = Append(visits, [kind |-> kind, old |-> currentSymbols,
                            own |-> Len(tables) + 1, oldInsert |-> insert])

(* Mutant: the program's table adopts every table. *)
EnterScopesOfProgram(n) ==
  /\ tables' = [tables EXCEPT ![2].children = Append(@, Len(tables) + 1)]
                 \o [k \in 1..n |-> NewTable]
  /\ currentSymbols' = Len(tables) + n

(* CreateChild, n times, each time of the table created before. *)
EnterScopes(n) ==
  LET first == Len(tables) + 1
      chain == [k \in 1..n |-> IF k = n THEN NewTable
                               ELSE [NewTable EXCEPT !.children = <<first + k>>]]
  IN  /\ tables' = [tables EXCEPT ![currentSymbols].children = Append(@, first)] \o chain
      /\ currentSymbols' = Len(tables) + n

Inserted(bs, b, is) == IF b = 0 THEN bs ELSE [bs EXCEPT ![b].code = @ \o is]
Emit(is) ==
  /\ blocks' = Inserted(blocks, insert, is)
  /\ UNCHANGED <<functions, insert>>

HasTerminator(b) == blocks[b].code # <<>> /\ Last(blocks[b].code).op \in Terminators

(***************************************************************************)
(* Statements.                                                             *)
(***************************************************************************)
(* A number outside of functions becomes a global: no instruction. *)
Let ==
  /\ Visit("let")
  /\ IF InsideFunction THEN Emit(<<Other>>) ELSE UNCHANGED code
  /\ UNCHANGED <<visits, phase, scopes, context, execution>>

(* A string is a global of its own, of the module of the builder's block.  *)
LetString ==
  /\ Visit("let string")
  /\ insert # 0
  /\ IF InsideFunction THEN Emit(<<Other>>) ELSE UNCHANGED code
  /\ UNCHANGED <<visits, phase, scopes, context, execution>>

(* Outside of functions what the call returns is stored in the global.     *)
LetCall ==
  /\ Visit("let call")
  /\ insert # 0
  /\ Emit(<<Other>>)
  /\ UNCHANGED <<visits, phase, scopes, context, execution>>

(* An allocation is known by the position of its statement. *)
LetLarge ==
  /\ Visit("let large")
  /\ LET v == Len(program) + 1 IN
       IF InsideFunction
       THEN /\ Emit(<<Instruction("malloc", {v})>>)
            /\ tables' = [tables EXCEPT ![currentSymbols].resources = Append(@, v)]
       ELSE UNCHANGED <<code, tables>>
  /\ UNCHANGED <<visits, phase, currentSymbols, context, execution>>

PrintValues ==
  /\ Visit("print")
  /\ insert # 0
  /\ Emit(<<Other>>)
  /\ UNCHANGED <<visits, phase, scopes, context, execution>>

(* Mutant: a failed assertion does not go on. *)
AssertStops ==
  /\ Visit("assert")
  /\ insert # 0
  /\ LET fail == Len(blocks) + 1
         cont == Len(blocks) + 2
         f == blocks[insert].function
     IN  /\ blocks' = Inserted(blocks, insert, <<Instruction("br", {fail, cont})>>)
                        \o <<[NewBlock(f) EXCEPT !.code = <<Other, Br(fail)>>], NewBlock(f)>>
         /\ insert' = cont
  /\ UNCHANGED <<visits, phase, scopes, functions, context, execution>>

AssertEqual ==
  /\ Visit("assert")
  /\ insert # 0
  /\ LET fail == Len(blocks) + 1
         cont == Len(blocks) + 2
         f == blocks[insert].function
     IN  /\ blocks' = Inserted(blocks, insert, <<Instruction("br", {fail, cont})>>)
                        \o <<[NewBlock(f) EXCEPT !.code = <<Other, Br(cont)>>], NewBlock(f)>>
         /\ insert' = cont
  /\ UNCHANGED <<visits, phase, scopes, functions, context, execution>>

(* The other assertions throw, and nobody catches. *)
AssertOther ==
  /\ Visit("assert other")
  /\ phase' = "threw"
  /\ UNCHANGED <<visits, scopes, code, context, execution>>

If ==
  /\ Visit("if")
  /\ UNCHANGED <<visits, phase, scopes, code, context, execution>>

(* What is returned: a literal, or a large variable of an open scope. *)
Visible ==
  UNION {ToSet(tables[t].resources) :
           t \in {currentSymbols} \cup {visits[k].old : k \in DOMAIN visits}}
Values == {{}} \cup {{v} : v \in Visible}

Return ==
  /\ Visit("return")
  /\ exit # 0
  /\ \E value \in Values : Emit(<<Instruction("store", value), Br(exit)>>)
  /\ UNCHANGED <<visits, phase, scopes, context, execution>>

(* The builder has no block to take the module from, or branches to null. *)
Undefined ==
  /\ \/ \E kind \in {"let string", "let call", "print", "assert"} : Visit(kind) /\ insert = 0
     \/ Visit("return") /\ exit = 0
     \/ phase \in {"program", "tests"} /\ visits # <<>> /\ Node.kind = "func"
          /\ exit = 0 /\ program' = Append(program, "close")
  /\ phase' = "undefined"
  /\ UNCHANGED <<visits, scopes, code, context, execution>>

(***************************************************************************)
(* Bodies.                                                                 *)
(***************************************************************************)
BeginBlock ==
  /\ Visit("block") /\ Open("block")
  /\ EnterScopes(1)
  /\ UNCHANGED <<phase, code, context, execution>>

EndBlock ==
  /\ Close("block")
  /\ currentSymbols' = Node.old
  /\ UNCHANGED <<phase, tables, code, context, execution>>

(* LLVM keeps names apart by a suffix: the first of a name goes without.   *)
Named(name) == {f \in DOMAIN functions : functions[f].name[1] = name}
Create(name, entry) ==
  functions' = Append(functions, [name |-> <<name, Cardinality(Named(name))>>, entry |-> entry])
getFunction(name) == {f \in Named(name) : functions[f].name[2] = 0}

BeginFunction ==
  /\ Visit("func") /\ Open("func")
  /\ EnterScopes(2)
  /\ LET f == Len(functions) + 1
         entry == Len(blocks) + 1
     IN  /\ \E name \in FunctionNames :
              (name = "main" => Named(name) = {}) /\ Create(name, entry)
         /\ blocks' = blocks \o <<NewBlock(f), NewBlock(f)>>
         /\ insert' = entry
         /\ exit' = entry + 1
  /\ InsideFunction' = TRUE
  /\ UNCHANGED <<phase, execution>>

Frees(t) == [k \in DOMAIN tables[t].resources |->
               Instruction("free", {tables[t].resources[k]})]

(* Mutant: the tables below a table are not cleaned up. *)
CleanupOfOne == [t \in DOMAIN tables |-> Frees(t)]

EmitCleanup ==
  LET cleanup[t \in DOMAIN tables] ==
        FoldLeft(LAMBDA is, child : is \o cleanup[child], Frees(t), tables[t].children)
  IN  cleanup

(* Mutant: the end of a body always branches to the exit block. *)
FallThroughAlways == Inserted(blocks, insert, <<Br(exit)>>)

(* The end of a body branches to the exit block unless it has returned. *)
FallThrough ==
  IF HasTerminator(insert) THEN blocks ELSE Inserted(blocks, insert, <<Br(exit)>>)

(* The exit block frees what the body has allocated, and returns. *)
EndFunction ==
  /\ Close("func")
  /\ exit # 0
  /\ LET children == tables[Node.own].children
         cleanup == FoldLeft(LAMBDA is, child : is \o EmitCleanup[child], <<>>,
                             Reverse(children))
     IN  blocks' = Inserted(FallThrough, exit, Append(cleanup, Ret))
  /\ insert' = exit
  /\ exit' = 0
  /\ InsideFunction' = FALSE
  /\ currentSymbols' = Node.old
  /\ UNCHANGED <<phase, tables, functions, execution>>

(* Mutant: the builder stays where it is. *)
BeginTestInPlace ==
  /\ Visit("test") /\ Open("test")
  /\ EnterScopes(1)
  /\ LET entry == Len(blocks) + 1 IN
       /\ \E name \in TestNames : Create(name, entry)
       /\ blocks' = Append(blocks, NewBlock(Len(functions) + 1))
       /\ insert' = IF insert = 0 THEN entry ELSE insert
  /\ UNCHANGED <<phase, context, execution>>

BeginTest ==
  /\ Visit("test") /\ Open("test")
  /\ EnterScopes(1)
  /\ LET entry == Len(blocks) + 1 IN
       /\ \E name \in TestNames : Create(name, entry)
       /\ blocks' = Append(blocks, NewBlock(Len(functions) + 1))
       /\ insert' = entry
  /\ UNCHANGED <<phase, context, execution>>

EndTest ==
  /\ Close("test")
  /\ blocks' = Inserted(blocks, insert, <<Ret>>)
  /\ insert' = IF Node.oldInsert # 0 THEN Node.oldInsert ELSE insert
  /\ currentSymbols' = Node.old
  /\ UNCHANGED <<phase, tables, functions, context, execution>>

(***************************************************************************)
(* The end of the program, of the tests, and the entry point that calls    *)
(* the tests; then the verifier.                                           *)
(***************************************************************************)
StartTests ==
  /\ phase = "program" /\ visits = <<>>
  /\ phase' = "tests"
  /\ currentSymbols' = 1
  /\ UNCHANGED <<tree, tables, code, context, execution>>

WellFormed(b) ==
  /\ HasTerminator(b)
  /\ \A k \in 1..(Len(blocks[b].code) - 1) : blocks[b].code[k].op \notin Terminators

verifyModule ==
  phase' = IF \A b \in DOMAIN blocks : WellFormed(b) THEN "verified" ELSE "malformed"

FinishProgram ==
  /\ phase = "program" /\ visits = <<>>
  /\ verifyModule
  /\ UNCHANGED <<tree, scopes, code, context, execution>>

(* The names of the tests, and the call of each by its name. *)
IsTest(f) == functions[f].name[1] \in TestNames
AsTest == [f \in DOMAIN functions |-> IF IsTest(f) THEN <<f>> ELSE <<>>]
Tests == FoldLeft(LAMBDA tests, f : tests \o AsTest[f], <<>>, [f \in DOMAIN functions |-> f])
testNames == [k \in DOMAIN Tests |-> functions[Tests[k]].name[1]]
Call(name) == Instruction("call", getFunction(name))
Entrypoint(names) == Append([k \in DOMAIN names |-> Call(names[k])], Ret)

(* Mutant: the entry point is created before the tests have their bodies. *)
FinishTestsUncalled ==
  /\ phase = "tests" /\ visits = <<>>
  /\ phase' = "entry"
  /\ Create("main", Len(blocks) + 1)
  /\ insert' = Len(blocks) + 1
  /\ blocks' = Append(blocks,
       [NewBlock(Len(functions) + 1) EXCEPT !.code = Entrypoint(<<>>)])
  /\ UNCHANGED <<tree, scopes, context, execution>>

(* generateTestEntrypoint.  The entry point is called main, or would be.   *)
FinishTests ==
  /\ phase = "tests" /\ visits = <<>>
  /\ phase' = "entry"
  /\ Create("main", Len(blocks) + 1)
  /\ insert' = Len(blocks) + 1
  /\ blocks' = Append(blocks,
       [NewBlock(Len(functions) + 1) EXCEPT !.code = Entrypoint(testNames)])
  /\ UNCHANGED <<tree, scopes, context, execution>>

VerifyTests ==
  /\ phase = "entry"
  /\ verifyModule
  /\ UNCHANGED <<tree, scopes, code, context, execution>>

(***************************************************************************)
(* The execution of one call of a function of the module; the functions it *)
(* calls in turn are left out.                                             *)
(***************************************************************************)
Execute ==
  /\ phase = "verified"
  /\ phase' = "running"
  /\ \E f \in DOMAIN functions : pc' = [block |-> functions[f].entry, next |-> 1]
  /\ UNCHANGED <<tree, scopes, code, context, heap, result>>

ExecuteNext == blocks[pc.block].code[pc.next]

Step ==
  /\ phase = "running"
  /\ LET i == ExecuteNext IN
       /\ heap' = CASE i.op = "malloc" -> [heap EXCEPT !.live = @ \cup i.arg]
                    [] i.op = "free" -> [live |-> heap.live \ i.arg,
                                         freed |-> heap.freed \cup i.arg]
                    [] OTHER -> heap
       /\ result' = IF i.op = "store" THEN i.arg ELSE result
       /\ phase' = IF i.op = "ret" THEN "returned" ELSE phase
       /\ \/ i.op = "br" /\ \E b \in i.arg : pc' = [block |-> b, next |-> 1]
          \/ i.op # "br" /\ pc' = [pc EXCEPT !.next = @ + 1]
  /\ UNCHANGED <<tree, scopes, code, context>>

Next ==
  \/ Let \/ LetString \/ LetCall \/ LetLarge \/ PrintValues \/ AssertEqual \/ AssertOther \/ If
  \/ Return \/ Undefined
  \/ BeginBlock \/ EndBlock \/ BeginFunction \/ EndFunction \/ BeginTest \/ EndTest
  \/ StartTests \/ FinishProgram \/ FinishTests \/ VerifyTests
  \/ Execute \/ Step

Spec == Init /\ [][Next]_vars

(* A thread that executes code takes its next step. *)
FairSpec == Spec /\ WF_vars(Step)

(***************************************************************************)
(* Properties.                                                             *)
(***************************************************************************)
Positions == 1..Len(program)
Opened(i, j) == Cardinality({k \in i..j : program[k] \in Bodies})
Closed(i, j) == Cardinality({k \in i..j : program[k] = "close"})
Inside(i, j) == i < j /\ \A k \in i..(j - 1) : Opened(i, k) > Closed(i, k)

(* The function or test a statement is written in; 0: none. *)
Owner(j) ==
  LET owners == {i \in Positions : program[i] \in {"func", "test"} /\ Inside(i, j)}
  IN  IF owners = {} THEN 0 ELSE CHOOSE i \in owners : \A k \in owners : k <= i
OwnedBy(j, kind) == Owner(j) # 0 /\ program[Owner(j)] = kind

(* The variables have their types; the tables are a tree, numbered from    *)
(* the root, and every block belongs to a function.                        *)
TypeOK ==
  /\ program \in Seq(Leaves \cup Bodies \cup {"close"})
  /\ currentSymbols \in DOMAIN tables
  /\ \A t \in DOMAIN tables \ {1} :
       Cardinality({p \in 1..(t - 1) : t \in ToSet(tables[p].children)}) = 1
  /\ \A k \in DOMAIN visits : visits[k].own \in ToSet(tables[visits[k].old].children)
  /\ insert \in {0} \cup DOMAIN blocks /\ exit \in {0} \cup DOMAIN blocks
  /\ (exit # 0) = InsideFunction
  /\ \A b \in DOMAIN blocks : blocks[b].function \in DOMAIN functions
  /\ \A f \in DOMAIN functions : blocks[functions[f].entry].function = f
  /\ phase \in {"running", "returned"} => pc.block \in DOMAIN blocks

(* The code of a body goes to blocks of its own function, whatever         *)
(* assertions and blocks it has, unless a function was declared inside.    *)
NestedIn(kind) == \E j \in Positions : program[j] = "func" /\ OwnedBy(j, kind)
StaysInFunction ==
  /\ phase \in {"program", "tests"} /\ ~NestedIn("func") /\ ~NestedIn("test")
  /\ \E k \in DOMAIN visits : visits[k].kind \in {"func", "test"}
  => insert # 0 /\ blocks[insert].function = Len(functions)

(* The entry point of the tests calls each test once, in the order of the  *)
(* tests, unless an earlier one has its name when mangled: that one is     *)
(* called in its place.                                                    *)
Called(f) ==
  LET is == blocks[functions[f].entry].code IN
  [k \in {m \in DOMAIN is : is[m].op = "call"} |-> is[k].arg]
HasEntrypoint ==
  phase = "verified" /\ functions # <<>> /\ Last(functions).entry = insert
EntryCallsTests ==
  HasEntrypoint =>
    LET called == Called(Len(functions)) IN
    /\ DOMAIN called = 1..Cardinality({j \in Positions : program[j] = "test"})
    /\ \A k \in DOMAIN called :
         IF \E i \in 1..(k - 1) : testNames[i] = testNames[k]
         THEN called[k] \in {called[i] : i \in 1..(k - 1)}
         ELSE called[k] = {Tests[k]}

(* "if (driver->TestMode) { funcName = "user_main"; }", says the generator *)
(* in a comment (src/codegen_visitor.cpp, line 385): the function that     *)
(* Test runs as main calls the tests.                                      *)
TestsAreRun ==
  HasEntrypoint =>
    \A f \in getFunction("main") :
      \A name \in ToSet(testNames) : getFunction(name) \in ToSet(Called(f))

(* What the compilation comes to, from the text alone.  A function inside  *)
(* a function, a return outside of every function, and what needs a block  *)
(* above the first function (strings, calls, prints, assertions) make the  *)
(* generator use a null pointer; code outside of functions below one, a    *)
(* function inside a test, and a statement after a return make a module    *)
(* the verifier refuses; every other program passes but for an assertion   *)
(* that throws.  What an if holds makes no difference.                     *)
EmitsCode(j) ==
  \/ program[j] \in {"let call", "print", "assert", "return"}
  \/ program[j] \in {"let", "let string", "let large"} /\ OwnedBy(j, "func")
TextUndefined ==
  \/ NestedIn("func")
  \/ \E j \in Positions : program[j] = "return" /\ ~OwnedBy(j, "func")
  \/ \E j \in Positions :
       /\ program[j] \in {"let string", "let call", "print", "assert"} /\ Owner(j) = 0
       /\ \A i \in 1..(j - 1) : program[i] # "func"
TextMalformed ==
  \/ NestedIn("test")
  \/ \E j \in Positions : EmitsCode(j) /\ Owner(j) = 0
  \/ \E i, j \in Positions :
       i < j /\ program[i] = "return" /\ Owner(i) = Owner(j) /\ EmitsCode(j)
OutcomeAsWritten ==
  phase \in {"verified", "malformed", "undefined", "threw"} =>
    phase = IF \E j \in Positions : program[j] = "assert other" THEN "threw"
            ELSE IF TextUndefined THEN "undefined"
            ELSE IF TextMalformed THEN "malformed" ELSE "verified"

(* On every path through a function that the verifier passes, memory is    *)
(* freed only if it is allocated and has not been freed, and none is left  *)
(* when the function returns: whichever scope allocates, however deep and  *)
(* wherever the function returns from.                                     *)
HeapFreedOnce ==
  /\ phase = "running" /\ ExecuteNext.op = "free" => ExecuteNext.arg \subseteq heap.live
  /\ phase = "returned" => heap.live = {}

(* Every function and test that the verifier passes returns when called,   *)
(* the failures of its assertions included.                                *)
CallsReturn == phase = "running" ~> phase = "returned"

(* "we need this in order to not free values that are used in return       *)
(* statements" (src/ast/symboltable.cpp, line 95): the memory a function   *)
(* returns has not been freed.                                             *)
ReturnedIsNotFreed == phase = "returned" => result \cap heap.freed = {}
===============================================================================
