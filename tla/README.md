# A formal model of the swa compiler

swa is a small imperative language whose keywords exist in several human
languages. `src/src` is its compiler: a lexer, a recursive-descent parser, three
visitors over one syntax tree (declarations, type checker, LLVM code generator)
and a driver. This directory holds TLA+ modules translated from that code, the
TLC configurations that check them, and proofs for TLAPS. Paths below are
relative to `src/`, the root of the repository.

1. [Inventory](#inventory)
2. [Modules](#modules)
3. [Runs](#runs)
4. [Fairness](#fairness)
5. [Proofs](#proofs)
6. [Findings](#findings)
7. [What is not modelled](#what-is-not-modelled)
8. [Plan](#plan)

## Inventory

The compiler is one process with one thread. It keeps nothing from one
compilation to the next and talks to nobody. What is hard in it is not
concurrency: it is **state that several recursive visits share and hand on**.
Three passes over the same nodes each save and restore a current table; the
checker leaves types in nodes that the generator reads; the generator leaves
values in `lastValue`, a builder position, an exit block and a return slot that
later visits take for granted. One visit that forgets to restore, returns early
or leaves a field unset is felt by another visit, in another pass, much later.

| component | source | state | operations | model |
|---|---|---|---|---|
| symbol tables | `src/ast/symboltable.cpp`, `include/ast/symboltable.h` | a tree of tables with `Parent`, `Children`, checker symbols, generator values, resources to free | `CreateChild`, `define`, `defineSwaSymbol`, `lookup`, `lookupSwaSymbol`, `lookupSwaFunc`, `registerForCleanup` | `SymbolTable`, `LexicalScope`; cleanup in `FunctionEmission` |
| driver of the passes | `src/compiler.cpp` | the passes done | `Run` (declare, check, generate, verify), `Build` (generate only), `Test` (generate, then the tests) | `NameResolution`, `TypeDeclarations`, `FunctionEmission` |
| declaration visitor | `src/declaration_visitor.cpp` | functions of the checker's root table and of the LLVM module, structs of the LLVM context | `FuncExpr`, `ProtoExpr`, `BlockExpr`, `StructDefExpr`, and the types | `NameResolution`, `TypeDeclarations`, and `ExpressionTypes` for the types of calls |
| type checker | `src/compiler/typechecker.cpp`, `include/ast/type.h` | datatypes in the nodes, symbols, the list of errors | one `Visit` per node, `Validate*` | `NameResolution` (names), `ExpressionTypes` (types), `TypeDeclarations` (`main`) |
| code generator: names | `src/codegen_visitor.cpp` | values of the tables, functions and globals of the LLVM module, `InsideFunction` | declarations, identifiers, calls, functions, blocks | `NameResolution` |
| code generator: bodies | `src/codegen_visitor.cpp` | basic blocks, insertion point, `currentExitBlock`, `currentReturnStorage`, resources to free | functions, blocks, returns, tests, assertions, the test entry point, `EmitCleanup` | `FunctionEmission` |
| code generator: expressions and types | `src/codegen_visitor.cpp`, `include/compiler/codegen.h` | `lastValue`, the datatypes it reads, the structs of the LLVM context | one `Visit` per expression and per type, `evaluate`, `evaluate_bin_expr`, and the loads of each consumer | `ExpressionTypes`, `TypeDeclarations` |
| expression parser | `src/parser.cpp`, `include/parser/parser.h` | the position in the tokens, the C++ stack | `parseExpression`, `parsePrimary`, `parseFunctionCall`, `parseArrayAccess`, `parseArrayInitExpr` | `ExpressionParser`, `ExpressionGrammar` |
| statement parser | `src/parser.cpp` | the position, the list of tests | `parseProgram`, `parseStatement` and one function per statement and type | `StatementParser`, `StatementGrammar` |
| lexer | `src/lexer.cpp`, `include/lexer/*.h` | the position, the keywords of one dialect | `tokenize`, `peek`, `get` | `Lexer`, `LexicalGrammar` |
| diagnostics | `src/exception.cpp`, `include/lexer/lexer.h` | the offsets of the lines | `getLineCol`, `getLineSnippet`, `emitDiagnostic` | `Diagnostics`; the wording is left out |
| object file, linker, `main` | `src/compiler.cpp`, `src/swa.cpp` | none | calls of LLVM and of the system linker | no |
| syntax tree | `include/ast/*.h` | the nodes | constructors, `Accept` | its nodes are data of the other modules |

How they interact: the lexer gives a vector of tokens to the parser, the parser
a tree to the driver, and the driver hands the tree to each visitor in turn with
a shared `SwaCompilerDriver` that holds the current table, the LLVM module and
the builder. Errors travel in four ways: the lexer makes an `UNKNOWN` token of what
it does not know; the parser throws; the checker collects errors and goes on with
*dirty* types; the generator throws, and only some of what it throws is caught.

### What makes each part correct

- **Symbol tables.** A lookup answers with the innermost open declaration of a
  name; functions are global and outlive the block that declares them; a walk over `Parent` ends.
- **Passes.** A use of a name means the same declaration to the checker and to
  the generator. A program the checker accepts does not stop in the generator.
  Functions can be called above their declaration.
- **Types.** The checker accepts a statement only with the types its text gives
  it and rejects it only for an error in it, in spite of types left unset, dirty
  types and visits left early. The generator computes with values where the text
  means values and with addresses where it means addresses.
- **Bodies.** Every path through a function ends in its exit block and every
  block has one terminator; code goes to the function it is written in; large
  variables are freed once; tests return whatever their assertions find.
- **Struct types.** Whether a use of a struct is accepted depends on the order of
  the text in a way one can state; a struct has the fields of its definition; a
  type that needs a size has one.
- **Parsers.** The tree of an expression is the one that precedence and
  association to the left give; the program and the tests are those the grammar
  reads in the text, in one way only; an exception is thrown only where no program
  can be; no loop waits for a token that never comes.
- **Lexer and diagnostics.** The tokens are the longest lexemes of the source, in
  order, with nothing lost but what is to be skipped; scanning ends; the position a
  diagnostic gives is the one its token has.

`PROJECT.json` lists the hazards of the code, each at its line, with the
properties that answer to it.

## Modules

A definition that has a counterpart in the code carries its name
(`defineSwaSymbol`, `getPrecedence`, `EmitCleanup`, `currentSymbols`); `map` in
`PROJECT.json` gives the lines each one stands for. Definitions marked *Mutant*
are wrong variants of the definition that follows them; no behaviour of a
specification uses them.

### `LexicalScope` and `SymbolTable`

`SymbolTable` has the tree of tables (`Parent`, `SwaSymbols`, `Symbols`), the
driver's `currentSymbols` and the `oldTable` locals of the visits in progress
(`oldTables`). A table call is a record that walks: `lookupSwaSymbol` and its kin
take one step per frame of their recursion over `Parent`, and `defineSwaSymbol`
climbs in the same way with a function. Visits open and close scopes only between
calls, since the compiler has one thread. A declaration is known by a number, so
that two declarations of one name can be told apart.

`LexicalScope` says what the tables promise without tables: a stack of scopes, a
global map of functions, and lookups that answer with the innermost declaration.
`SymbolTable!ImplementsLexicalScope` is the refinement; the mapping takes the
scopes to be the tables of the chain from the current table to the root.

### `NameResolution`

One compilation, from the tree to the end of code generation. The parser draws
any well nested program of `let`, `func`, `print`, `return` and blocks, each inside
functions and outside of them, since `parseStatement` does not ask; then `Run`
or `Build` is chosen, and each pass visits the nodes in order with its own
handlers: what it looks up, what it defines, what it skips (the declaration
visitor skips the bodies of functions, the checker skips parameters and returned
values), when it defines a variable (the checker before the initialiser, the
generator after it). Scopes are those of `LexicalScope`, of which the module uses
the innermost-declaration operator. `checked` and `generated` record the
declaration each pass resolved each use to. Types are left out: everything is an
integer. A null pointer the generator would use ends the compilation as
*undefined*: an exit block that is not there, the global that has the name of a
function, or the block of the builder, which has none above the first function
(`Positioned`).

### `Syntax`, `ExpressionParser`, `ExpressionMeaning` and `ExpressionGrammar`

The functions of the expression parser as a stack of frames, one per C++ call
that has not returned. A frame remembers where in its function it waits and what
it has parsed. Tokens are drawn as the parser reads them, so a behaviour is one
token stream; the constant `Lookahead` limits which. Trees are known by the
positions of their tokens; `Syntax` has the nodes, the token types and
`getPrecedence`. `ExpressionMeaning` says, without the parser, what tokens mean:
a text is split at its loosest operator outside the brackets, the last one of
those of one precedence, or at its last bracket; a recursive function gives the meaning
of a piece by those of the smaller ones. `Begun` is whether some expression begins with a text.
`ExpressionGrammar` holds the properties that compare the two.

### `StatementParser` and `StatementGrammar`

`StatementParser` gives each statement function as the sequence of its steps
(`parseDeclaration == <<"LET", "IDENTIFIER", "type", "initialiser", "SEMICOLON">>`):
a token it expects, a call, or a decision on the next token, which puts other
steps in its place. `calls` is the C++ stack. A step *expression* runs
`ExpressionParser`, instantiated on the same tokens, to its end. Dialects leave no
node and tests go to `tests`. A source without a token may crash in `previous()`.

`StatementGrammar` is a context-free grammar that tries every alternative on every
sequence, so that ambiguity would show. Its readings can be cut short: that is the
viable prefix an exception must not have.

### `Lexer`, `LexicalGrammar` and `Diagnostics`

`Lexer` is `tokenize`, one character per step, with `peek` as the variable
`ahead`, for any alphabet and any table of keywords. `LexicalGrammar` has the
kinds of lexemes as predicates on pieces of a text, and the tokens as the longest
lexemes from left to right. Which characters of a string are hidden by a backslash
it says by counting backslashes, where the code goes through the string. `Diagnostics` has the functions of `SourceManager`
that turn an offset into a line, a column and the text shown.

### `TypeDeclarations` and `DeclarationOrder`

The types of a program through declare, check and generate: struct definitions,
prototypes, variables and the signature of `main`. The LLVM context has one
table of structs, unknown, opaque or with a body, which two passes fill. A body by
which a struct would hold itself is refused by `StructType::setBody` of LLVM 21,
the version `CMakeLists.txt:13` asks for (`Recursive`, external: every set of structs that
is closed under the bodies and has what the fields hold has the struct). Nothing handles
that failure, and it ends in *undefined*; so does a type
that LLVM is asked for the size of and that has none yet.
`DeclarationOrder` says what must come of it from the order of the text only,
without passes: which definitions are above a use, and which one closes a circle
(`Cyclic`).

### `TokenSources`

Which sources the runs of the parsers and the lexer read: all short ones, and all
that differ from a list of seeds by a few tokens replaced, inserted or left out.

### `FunctionEmission`

The generator at work on bodies: which basic block every handler adds to, where
the builder is left, exit block, return storage, the children and resources of
the tables. Instructions are reduced to branches, stores into the return slot,
allocations, releases, returns, calls of tests and *other*. What is emitted while the
builder has no block ends in *undefined*, for LLVM looks into the block for the
module or the data layout (`Undefined`). Functions have the
names LLVM gives them, unique ones, so that a test may be called by the name of
another. After generation the verifier accepts
the module or does not, and an accepted module is executed, one instruction at a
time, one call of one function, with both branches of each assertion.

### `ExpressionTypes`

One statement with one expression, through the checker and the generator. The
nodes of the expression are drawn in post-order; each pass is a machine with a
frame per `Visit`. The checker writes the datatype of each node it visits,
including what it does wrong on the way: nodes it never visits, first elements it
visits twice, dirty types, types it forgets to set, reads of types that are not
set. The generator yields for each node a value, the address of a local
(*alloca*, or *heap* if its type has more than `STACK_LIMIT_BYTES`), the address of
an element (*gep*) or what an earlier statement left in
`lastValue`; LLVM refuses what it asserts or verifies. `Meaning` is the reference:
the type of each node from the text alone, a function defined from the operands up.
It knows that the datatype of an operand is a copy, and that the copy of a slice is
a pointer. What names stand for is a constant,
since `NameResolution` is about that; `Vocabularies` lists what statements are made
of. Functions have the prototypes of the declaration pass, arrays of ten elements
included.

### MC modules

The modules whose names begin with `MC` give the constants their values: names,
statements, token types, seeds.

## Runs

Deadlock is not checked in any of them: a compilation ends, and then nothing
happens. Every specification but that of `TypeDeclarations`, whose variables have
their types by the shape of its actions, has its type invariant checked.

| run | bounds | what it shows |
|---|---|---|
| `symbol_table` | 2 names, 4 tables, 2 declarations | `ScopeChain`: the saved tables are the ancestors of the current one. `FunctionsAtRoot`: functions and only functions are at the root. `WalkSkipsNothing`: a walk has not passed a table with its name. `ImplementsLexicalScope`: refinement. `CallsReturn`: every call ends. |
| `names` | 4 statements, in functions and outside, 2 names that may each be a variable, a parameter and a function | `VariableUsesAgree`: checker and generator take a variable for the same declaration but in two named cases. `AcceptedNamesResolve`: the ways an accepted program can run out of names in generation, and no other. `NoNullDereference`: what leads to null. `FunctionsCallable`: a function outside of functions can be called from everywhere. `CallsBindAsDeclared`: which function of several of one name each pass means. |
| `expressions` | every stream of 5 tokens of 14 types; two seeds of 17 and 18 tokens with 2 edits | `ParsesAsWritten`: precedence, unary operators, subscripts, calls, array literals and missing commas, in every order. `RejectsOnlyMalformed`: what was read with the token the parser stopped at begins no expression. |
| `statements` | every source of 3 tokens of 28 types; four seeds of 20 to 28 tokens with 1 edit, nine of 6 to 10 with 2 | `ProgramAsWritten`: the program is the only reading of the source. `TestsAsWritten`: no test is lost or kept twice, and in which order they are. `RejectsOnlyMalformed`. `ParseEnds`. |
| `emission` | 5 statements: of 8 kinds with large variables and blocks, of 7 with ifs, calls and assertions that throw, or of 5 with strings and calls; 2 names of tests | `HeapFreedOnce` on every path; `OutcomeAsWritten`: which programs verify, from their text alone; `StaysInFunction`; `EntryCallsTests`: which tests the entry point calls; `CallsReturn`. |
| `types` | 5 nodes of arithmetic, subscripts and arrays; 4 nodes of calls, comparisons and logic; 4 nodes with a local of 80000 bytes; arity 2 | `AcceptedIsTyped`, `RejectedIsWrong`: the checker against the text. `AddressesOfNamesAreStored`: where an address is stored or printed in place of a value. `SupportedIsCompiled`: the expressions every part of the generator agrees on. `NullOnlyIfUntyped`: the causes of a missing type being read. `ValuesHaveTheirTypes`. `CallsOfArraysRefused`: which arrays can be passed. |
| `structs` | 3 statements over 2 structs | `OutcomeAsDeclared`: how `Run` and `Build` end, from the order of the text. `LayoutsAsWritten`: a struct has the fields of its first definition, and a size. |
| `tokens` | every text of 3 characters of 13; a seed of 23 with 1 edit, three of 6 with 2 | `TokensAsWritten`: the longest lexemes. `DiagnosticsPointAtTokens`: line, column, the line shown and the carets. `ScanEnds`. |
| `name_initialisers`, `name_shadowed`, `emission_returned`, `emission_tests` | 4, 4, 3, 3 statements | The findings below. |

**Why the bounds are enough.** Four tables hold two nested blocks beside one that
has been left, the smallest tree in which a wrong parent, a wrong restored table
and a leftover sibling differ. The safety properties of the runs `symbol_table`,
`names`, `types` and `structs` are also proved, for all bounds.
Four statements hold a function with a parameter, a block in it, and a variable
that hides the parameter, declared and used; or two functions of one name, one of
them in a block, and a call. Five statements of `emission` hold a function with two
nested blocks, a large variable in each and a return, or two tests of one name
beside a function with an assertion. Five nodes hold a negated subscript of an
array literal, a subscript by a function in a sum, and an array of two arrays; four hold a negated call with an argument,
a comparison of a call, and a large array handed to a function, subscripted or put into another. Three statements hold two structs that hold each other
and a use of one. Structs are exchangeable, and so are names, which makes the
symmetry of these runs sound: neither checks liveness.

A parser or a lexer decides on what it has opened and on the next token. Short
sources contain each pair of a state and a wrong token, but not the long programs
in which state piles up; the seeds are such programs, with every kind of statement,
operator and bracket, and the edits put every token in every place of them. The
sources may end anywhere. `TokenSources` draws a token only if the source can still
become one of these, so no behaviour outside of the bounds is begun.

Every mutant of the code listed in `PROJECT.json` is found within these bounds, and
the longest run takes about two minutes.

**Descriptions that are stronger than they look.** Some properties say *exactly*
when something odd happens. They pass, and they are the documentation of it:

- A call of a function below it works in `Run` because of the declaration pass,
  and not in `Build` or `Test`, which skip the declaration and the check.
- A function declared in a block can be called from outside of the block.
- `let x: int = y;` and `return y;` with a local `y`, or with a subscript, store
  the address of the variable or element. `y + 0` stores the value.
- Comparisons have no type, so a variable cannot be initialised with one in
  checked code; a `!` in a declaration or a print reads a type that is not set.
- A subscript or an array literal in a return, in an argument of a call or in
  `print_f` reads a type that is not set, since the checker does not look there.
- The visits of orderings (`<`, `<=`, `>`, `>=`) leave `lastValue` alone, and the
  value of the expression is what an earlier statement left.
- Copies of a slice type are pointer types, so a slice cannot initialise a slice.
- A call with the name of an array is refused by LLVM in `Run`, after it is
  accepted by the checker, unless the array has ten elements: prototypes are
  declared with ten, whatever is written.
- A local above 64 KB is nowhere loaded: `print x`, `x + x` and a call with `x` are given
  the pointer that malloc returned, and the initialiser of such a local is dropped.
- A statement after a `return`, or code outside of functions below one, makes a module
  that the verifier refuses. Above the first function, a string literal, a call that
  initialises a variable, a print and an assertion use a block that is not there; a
  `return` outside of functions always does.
- A subscript by the name of a function has no type, as one by a variable without an
  initialiser has none: `let x: int = a[f];` reads a type that is not set.
- An `if` is parsed and nothing is compiled for it: no pass visits its condition
  or its branches. The assertions other than `assert_equal` throw.
- Of tests that share a name once spaces are replaced, the entry point calls the
  first once for each.
- A struct may be used above its definition only in fields, in global variables
  and behind pointers in `Run`, and only behind pointers in `Build`. A slice needs
  the struct it is of, though it is a pointer. Of two definitions of a
  name the first counts, and the fields of the second are ignored.
- Two structs that hold each other, or one that holds an array of itself, are
  reported by no pass; LLVM refuses the body that closes the circle.
- A single `|` and a `..` are dropped without a token.
- An expression without a terminator goes on in the statement below it if that
  begins with an operator or a bracket. Commas between arguments, elements, fields
  and printed values may be missing.
- The keyword of the string type and a string literal are one type of token: each
  is accepted where the other is meant.
- Tests written inside blocks, functions and tests are taken out of them, in the
  order in which they end.

## Fairness

Four specifications have weak fairness, each of the step a running thread takes
next: `SymbolTable!FairSpec` of the frames of a walk (a C++ call that has been
made runs on), `StatementParser!FairSpec` of the next step of the parser,
`Lexer!FairSpec` of the next step of the scan, and `FunctionEmission!FairSpec` of
the next instruction of an executing function. Nothing competes with these steps:
there is one thread, and it never blocks. No fairness is assumed of the programs
written, of the visits, or of which function is executed. Sources are finite by
`Lookahead`; what the two liveness properties about them say is that no loop turns
without reading. The branch an assertion takes is not fair either: a test returns
whichever way each assertion goes.

## Proofs

Eight modules hold proofs. The theorems are about the specifications the runs
check, for every value of their constants: programs, expressions and sources of
any size, any number of names, tables, structs and functions.

| module | about | theorems |
|---|---|---|
| `SymbolTableProofs` | `SymbolTable` | `TypeCorrect`, `ChainCorrect`, `HoistingCorrect`, `WalkCorrect`; `ScopingCorrect`, the refinement of `LexicalScope` |
| `LexerProofs` | `Lexer`, `LexicalGrammar`, `Diagnostics` | `TypeCorrect`, `TokensAreWritten`, `DiagnosticsPoint` |
| `DeclarationProofs` | `TypeDeclarations` | `StructsLaidOut`, `OutcomeDeclared` |
| `NameProofs` | `NameResolution` | `ScopesBalanced`; `NullNeverDereferenced`, `TopFunctionsCallable`, `CallsBoundAsDeclared`, `UsesAgree`, `AcceptedNamesAreResolved` |
| `TypeProofs` | `ExpressionTypes` | `VisitsNest`, `AcceptedStatementsAreTyped`, `RejectionsHaveReasons`; `NullPointersHaveReasons`, `GeneratedValuesAreTyped`, `AddressesAreStored`, `ArrayCallsAreRefused`, `SupportedStatementsCompile` |
| `ParserProofs` | `ExpressionParser`, `ExpressionGrammar` | `TypeCorrect`, `ExpressionsParseAsWritten`, `ExpressionsAreAccepted` |
| `EmissionProofs` | `FunctionEmission` | `MemoryIsFreedOnce`, `TypeCorrect` |
| `OutcomeProofs` | `FunctionEmission` | `CodeStaysInFunction`, `EveryTestIsCalled`, `ProgramsComeOutAsWritten` |

Nothing is assumed but the named assumptions on the constants, each in the module
that declares them and evaluated by every run of it: `BoundsAssumption` (the bounds
are natural numbers and there can be a table), `StatementsAssumption` (programs
are made of statements, and what has no name is known by none), `CharactersAssumption` (the end of the source is not a character,
no letter is a space, a digit or a quote, operators do not begin with letters, and
neither keywords nor operators have the type of the end of file),
`TypesAssumption` (a struct does not have the name of another type) and
`EntriesAssumption` (names stand for variables and functions with types one can
write).

**Symbol tables.**

    IInv == TypeOK /\ ScopeChain /\ FunctionsAtRoot /\ WalkSkipsNothing

is inductive. No conjunct is inductive alone. That functions are at the root only
needs that a table without a parent is the root, which is part of `ScopeChain`,
and that a function is being defined from a table of the chain, which is part of
`WalkSkipsNothing`; this in turn holds across a step to `Parent[call.table]`
because the chain says that this is the next table out; and to leave a scope
keeps the chain because the table restored is the last saved one. There is a
lemma per action and conjunct that the action can disturb.

`ScopingCorrect == Spec => ImplementsLexicalScope`, in the second part of the
module: the initial states correspond, visits open and close scopes, a definition
stutters until it stores and then declares, and a lookup stutters until it answers.
The step where a lookup answers is the heart: `WalkSkipsNothing` says that all
tables inside the one found lack the name, which is the definition of the innermost
declaration; a lookup that fails at the root has by the same invariant passed all
of them.

**Lexer.** `TypeOK` says more than types: tokens are pieces of the source in its
order, disjoint, none of them empty but the end of file, which closes the list
exactly when the scan is over. The inductive `IInv` says of every token, not of the
last only, that it does not end the file while the scan is at work, and bounds the
tokens by the beginning of the one at work. `Ends` is the lemma of all steps that
add a token and `Inside` of those that read within one, so each group of actions is
one instance.

`TokensAreWritten` is `TokensAsWritten`: a scanner that looks one character ahead
against a grammar that looks for the longest lexeme in the whole text. The invariant
`Scanned` is about all texts `w` that begin with what has been read and go on with the
character `ahead` (`Extends`): for each of them the tokens so far, followed by those the
grammar has in the rest of `w` (`Rest`), are the tokens of `w`; and what has been
read of the token at work is, in `w`, what the mode says (`PartRead`). It has to be said
of every such text, because which lexeme is the longest depends on what follows, of
which the scanner knows one character. A token ends where that is enough, one lemma
for each kind: behind a number or a word, no longer piece is a lexeme of its kind, and
no piece is of two kinds (`Kinds`, `NumberEnds`, `WordEnds`); every beginning of an
operator is an operator or one of the texts dropped (`Beginning`), so an operator that
cannot be continued is not the beginning of a longer one (`Continuing`, `OperatorEnds`); the
first quote that is not hidden closes a string, and there is none if the source ends first
(`StringCloses`, `StringIsOpen`). That backslashes are counted as they are read is
`HiddenNext`, and that the value grows with them `CharsNext`. At the end the only
text left is the source.

`DiagnosticsPoint` is `DiagnosticsPointAtTokens`. It adds the invariant `Visible`: no
token begins with a space, and the end of the file is at the end. The rest is about the
functions: the offsets of the lines are those of the newlines, in order (`Offsets`), the
lines that begin at or before an offset are the first ones (`LineOf`), and a
character that is no newline is in the text shown for its line, at its column
(`Pointed`).

**Expressions.** `Typed` is the type invariant: the frames are a stack of which only
the innermost is at work (`Stacked`), and as many of them wait for a bracket to close
(`Opened`) as there are brackets open in the tokens (`Depth`). What a step does to the
stack is to replace a frame near its end (`Replaces`) or to put a call above it
(`Pushes`), and the lemma of each action says which, with the record the frame becomes.

`ExpressionsParseAsWritten` is `ParsesAsWritten`: a parser that goes from left to right
by minimum precedences against a definition that splits the whole text from outside.
The invariant is `Planning`. A frame knows neither where its call began nor where its
bracket opened; a *plan* has both, and there is one that `Fits`: what a frame has parsed
so far is the piece from there (`Works`, `Waits`). Of a piece it says (`Expr`) that it is
balanced, that its node is its meaning, and with `Binds` that no operator in it is
looser than the frame allows, nor than the one that comes next; `Primary` is what a
bracket may follow. Of an open list it says (`Listed`) that the parts parsed are
those the definition finds in the list as if it ended here, and (`Begins`) that the next one will be
a part of its own. All of this is said of every text that begins with the tokens read, because the
parts of a list are told apart by the token after them. For each construct there is one lemma
about the meaning alone (`ExprLeaf`, `ExprUnary`, `ExprBinary`, `ExprGroup`,
`ExprAccess`, `ExprCall`, `ExprArray`, and `NothingListed`, `PartAdds`, `CommaAdds` for
lists): from the meanings of its parts it has that of the whole, and what follows from the
brackets' depths about which operators, commas and brackets are outside. `ExprBinary`
is where precedence comes in: what is left of the operator binds as tight and what is right of
it tighter, so it is the root.

`ExpressionsAreAccepted` is `RejectsOnlyMalformed`, the other direction, and needs the
converse of each of those lemmas: what a piece with a meaning is made of (`PieceIsMade`), by
induction over its length. Any operator outside its brackets, not only the root,
cuts it into two pieces (`Cut`), every bracket opened in it closes in it around
what belongs there (`BracketsClose`), and where a part of a list begins there is a piece, followed
by the closing bracket, a comma or, in a call, the next argument (`PartFollows`). With these
every call has a `Goal`: the piece it is there to read, with no operator looser than its minimum
precedence and not continued behind it. The outermost call has the whole text for a
goal; `WaitsDescend` gives, by the construct a frame waits in, the goal of the call above it;
and a call neither reads beyond its goal nor stops before its end (`Reach`). So in tokens that
have a meaning none of the conditions of `Throw` holds (`MeaningfulIsRead`). It is
applied to the tokens read, and to each text that would complete them and the
token the parser stopped at.

**Struct types.** `LInv` gives the table of structs in closed form: what a struct
is when a pass comes to a statement is a function of the pass, the position and the
text (`Now`), so that the table never depends on the way taken to it.
`OInv` adds that no statement left
behind has a fault, by pass (`Faultless`), and that a function that has been
created has known types; a step that stops does so at a fault, and the first one.
That LLVM refuses a body exactly where the text closes a circle (`RecursiveIsCyclic`)
needs that no circle is closed above: `NoCircle` finds the last definition of one, which
would have been a fault. `StructsLaidOut` is the closed form at the end, and with
`NoCircle` every struct has a size there.
Whether a type has a size is the limit of as many rounds as there are structs; that
the rounds settle is proved by counting (`DeclarationProofs`, the lemmas about
`Grown`).

**Names.** `Types == Walk /\ Tabled /\ Counted`. The walk of a pass is a stack of
the open nodes, the outermost first. `Depth` counts what is opened and closed
before a position, `OpenIn` says that a node is open there, and `Stack` that the
visits are the open nodes. What a step does to the walk is one of six things
(`Stays`, `Skips`, `Enters`, `Leaves`, `Jumps`, `Begins`), and each action is
assigned to one of them in one lemma, so that facts about the walk are proved six
times and not twenty. `Counted` says how many scopes that makes: one for a block
and, in the generator, two for a function. The second part of `NameProofs` adds, on top of `Types`,

- `Inside`: the generator knows whether it is inside a function, and the module has
  functions of the program by their own names. From it `NullNeverDereferenced`.
- `Callable`: the table of functions and the module in closed form, by the pass and
  the position: a table has the last function declared so far, the module the
  first. From it `TopFunctionsCallable` and `CallsBoundAsDeclared`.
- `Bindings`: each scope of the checker and of the generator in closed form. The
  variable of a name in the scope of depth `k` is the last of the visible
  declarations there (`VisibleAt`), and the table of a function's parameters lies
  below its body. From it `UsesAgree` and `AcceptedNamesAreResolved`: the two passes
  find the same variable because they look up the last of the same set, but for the
  position itself and for parameters.

**Types.** `Known == Tree /\ Nested /\ Filled /\ Checking`, and with `Settled` and
`Generating` it is the invariant `Inv` of `TypeProofs`.

- `Tree`: nodes come after their operands, no operand has two parents, and the open
  nodes are the roots of what is drawn. Without it a node could be typed by one
  visit and changed by another.
- `Nested`: the frames are a path in that tree, each at the operand the frame above
  is to visit next.
- `Filled`: which nodes have fields at all, and that what the checker stores is its
  own copy.
- `Checking`: a node the checker is done with has a type, or is one of those it
  leaves without; and if there has been no error, the type is the one the text
  gives, `TypedAs`, everywhere below. The elements of an array that have been compared have the type
  of the first one. If there has been an error, something visited is wrong.
- `Settled`: what is left to the generator, or rejected, is that.
- `Generating`: the value of a node has the type of its meaning and the form of its
  kind (`Made`); values that are to be used are there (`Present`); a stop of the
  generator has one of its reasons.

The steps are grouped by what they do to the machine (a visit begins, returns with
a type or a value, stops, completes) and one lemma proves the invariant for all
steps of a group; each handler is then shown to be in its group, with the type or
value it returns.

**Bodies.** `Inv == Typed /\ Coded /\ Scoped /\ Executing`.

- `Coded` is about the blocks, and its memory part about modules the verifier may
  still accept: a block with code after a terminator will be refused (`Broken`), and
  what it frees does not matter. Without that way out nothing is inductive, for the
  code does go on after a `return`. Otherwise a branch leads forward, to a block
  before which nothing more is allocated, or to the exit block, after which
  only code without allocations may still come (`Follows`); only a function
  allocates and only exit blocks free (`Allowed`); and an exit block that has
  been written frees what its function allocates, each piece by one instruction
  (`CleansUp`).
- `Scoped` is about the tables: they are a forest in which every open body has its
  own, a variable is registered once, and the tables below that of the function being
  generated hold what its blocks have allocated so far (`Owned`). That is what
  `EmitCleanup` relies on when it walks the tables to free.
- `Executing` gives the live memory in closed form: what the blocks before this one
  and the instructions before this one have allocated, or in an exit block what is
  not freed yet (`Held`). Paths that skip a block agree with it because nothing is
  allocated in what they skip.

`MemoryIsFreedOnce` is `Held` at the return. Steps that add code are proved by what
they add (`Writes`, `Quiet`): a lemma for each way of emitting, another for each
conjunct it can disturb, and the action is one instance of them.

`CodeStaysInFunction` relates the builder to the text (`Texted`): every frame of the
generator is a statement of the text that is still open, counted by the bodies opened
and closed since. From this it follows that, unless a function is declared inside, one
body that owns code is open, the builder is in its function, and what is emitted
belongs to it.

`EveryTestIsCalled` is about what `FinishTests` finds. `Recorded` says that the list
of tests has one entry for each `test` of the text, in order, and that the function
found by a name is the one of the first test with it; so two tests of one name are
two calls of one function. The calls stay what they are because outside of functions the
builder is in no entry block of the program (`Outside`), and while tests are called only
a call can be added to that of the entry point (`Calling`).

`ProgramsComeOutAsWritten` is `OutcomeAsWritten`: phase and text, related at the end of
a compilation. Its invariant is about every step before. `Framed` sharpens `Texted`:
the open statements of the text are those of the frames, one for one, so the body the
next statement is in (`Here`) is that of the last frame that owns code. `Arranged` has
the frames: a test is the outermost or there is none, one function is open unless one
was declared in another, and that one can never be closed. `Accepted` says that what
makes the generator stop at once has not been read. `Verdict` says what the blocks show
of the rest: once the text is to be refused (`Refusable`) something the verifier refuses
is there and stays (`Bad`: an instruction after a terminator, or a block left without one to which the builder cannot come back); until then (`Clean`) all
blocks but those still at work end in a terminator, and the one of the builder does
exactly if the body has returned. That a block left behind stays as it is, and that a
nested function is what leaves one behind, is where the text and the builder meet.
`Entering` carries the verdict from the end of the tests over the entry point to the
verifier.

**Recursion.** The two functions `Meaning` (of the type checker's module and of the
parser's), `Under`, `CheckedUnder` and the rounds of `Grown` are recursive functions. That such a function exists, and so has the equation of its
definition, is proved by a least counterexample: `Least` says that a set of natural
numbers that has a member has a least one, which needs no operator as a parameter. The same lemma
does every induction there is, over depths and over nodes, so that the theorems hold for
expressions of every shape.

**Model-checked only.**

- `CallsReturn` of `SymbolTable` and of `FunctionEmission`, `ParseEnds` and
  `ScanEnds`: liveness is out of the prover's reach.
- `ProgramAsWritten`, `TestsAsWritten` and `RejectsOnlyMalformed` of the statement
  parser: the grammar is a recursive operator, for which the prover has no SMT backend.
- `TypeOK` of `StatementParser`.

## Findings

- `InitialisersAgree` (run `name_initialisers`). The checker defines a variable
  before it visits the initialiser (`src/compiler/typechecker.cpp:81`, 88), the
  generator after (`src/codegen_visitor.cpp:195`, 228). In
  `let x; { let x := x; }` the second `x` is typed as itself and generated from
  the outer one. `tests/compiler_tests.cpp:1196` is about resolving the type of a
  variable correctly within a nested scope.
- `VariablesAreNotCalled` (run `name_shadowed`). A call whose name is that of a
  variable gives no error (`src/compiler/typechecker.cpp:262`) and is compiled to
  a call of the function the variable hides. `tests/typecher_tests.cpp:258`, a
  disabled test, asks for a name collision to be detected.
- `ReturnedIsNotFreed` (run `emission_returned`). `src/ast/symboltable.cpp:95`
  says that values used in a return statement must not be freed; the name is
  ignored and the exit block frees every resource (`src/codegen_visitor.cpp:800`),
  the returned one too.
- `TestsAreRun` (run `emission_tests`). `Test` runs the function `main`
  (`src/compiler.cpp:139`). A comment at `src/codegen_visitor.cpp:385` has the
  `main` of the program renamed in test mode, in code that is commented out; so
  the entry point of the tests, which is created second, gets another name, and
  the program's `main` is run in its place.

Two more disagreements are between a text and the code and need no run to be seen; the
properties concerned name them where they describe what the code does:

- A comment at `src/exception.cpp:20` says that the carets are "underneath the exact
  bytes". The end of a span is exclusive and the loop (26) goes on to it, so every
  diagnostic has one caret more. `DiagnosticsPointAtTokens` asks for carets under all of
  the token, and only admits one more.
- The diagnostics at `src/compiler/typechecker.cpp:170` and 181 say that the second and
  third parameter of `main` should be a "slice of strings". The code asks for a slice of
  anything (165, 176), and so does `OutcomeAsDeclared`, in whose definition of a `main` (`IsMain`)
  this is noted; the run `structs` has a `main` with a slice of integers.

## What is not modelled

- The wording, labels and colours of diagnostics, and the spans of nodes: output
  without state. The line and column counters of the lexer reach no token.
- `emitObjectFile`, `link` and `main`: calls of LLVM and of the system.
- Optimisation and code emission by LLVM. The verifier is modelled by what it
  asks of blocks; LLVM's assertions by the operand types it asks for and the sizes
  it is asked for.
- Number conversion (`stoi`, `stod`), floating-point and overflow at run time.
- Which words a dialect has: the keywords are a constant. The `dialect` statement
  is parsed and has no effect, for the driver gives the lexer the English table
  always (`src/compiler.cpp:42`, 102, 121).
- What `isdigit` answers for a byte above 127 within a number
  (`src/lexer.cpp:86`, where it is not made unsigned) is left to the C library; the
  vertical tab, for which TLA+ has no character, is missing from `Spaces`.
- Variables of struct types as initialisers, and the values of structs and bytes.
- `ValidateComparison`, `lookupType` and `getParent`: they have no caller.

## Plan

Done, in this order: `LexicalScope` and `SymbolTable` with their proofs, because
every pass rests on the tables; `NameResolution`, which composes the passes over
the tables' abstract specification; `ExpressionParser` with its reference grammar;
`FunctionEmission`; `ExpressionTypes`; then `StatementParser` over the expression
parser, `Lexer` with `Diagnostics`, the entry point of the tests in
`FunctionEmission`, the prototypes in `ExpressionTypes`, and `TypeDeclarations`;
then the proofs: `Lexer`, `TypeDeclarations`, `NameResolution`,
`ExpressionTypes`, `FunctionEmission` (its memory, where it emits, the entry
point of the tests, and which programs it makes a module of), and
`ExpressionParser` against the meaning of expressions, in both directions.

No module is planned: what is left of the code is listed above.

Left to prove: `TypeOK` of `StatementParser`, with the nesting of blocks and calls. Its
grammar cannot be reasoned about as long as it is a recursive operator.
