---------------------------- MODULE StatementParser ----------------------------
(***************************************************************************)
(* Parser::parseProgram and the functions that parse statements, blocks    *)
(* and types.  Each is a sequence of steps: a token it expects, a call, or *)
(* a decision it takes on the next token.  A step "expression" runs the    *)
(* expression parser on the same tokens.  Spans are left out.              *)
(***************************************************************************)
EXTENDS Syntax

CONSTANTS
  Tokens,        \* the token types of the sources
  Lookahead(_)   \* bound: the types that may follow some tokens

VARIABLES
  tokens, current,          \* the tokens consumed, and the next one
  frames, outcome, tree,    \* the expression parser; outcome may be "crash"
  calls,                    \* the statement functions at work, innermost last
  program,                  \* what parseProgram returned
  tests                     \* Parser::tests

vars == <<tokens, current, frames, outcome, tree, calls, program, tests>>

Expression == INSTANCE ExpressionParser

(* The tokens whose text becomes part of the tree. *)
Valued == {"IDENTIFIER", "STRING", "NUMBER"}

(***************************************************************************)
(* The functions, by the token that parseStatement or parseType looks at.  *)
(***************************************************************************)
parseFunction ==
  <<"FUNCTION", "IDENTIFIER", "OPEN_PAREN", "parameters", "CLOSE_PAREN", "type", "block">>
parseMain == <<"MAIN", "OPEN_PAREN", "parameters", "CLOSE_PAREN", "type", "block">>
parseStruct == <<"STRUCT", "IDENTIFIER", "OPEN_CURLY", "fields", "CLOSE_CURLY">>
parsePrintFormatted == <<"PRINT_F", "OPEN_PAREN", "values", "CLOSE_PAREN", "SEMICOLON">>
parsePrint == <<"PRINT", "OPEN_PAREN", "values", "CLOSE_PAREN", "SEMICOLON">>
parseDeclaration == <<"LET", "IDENTIFIER", "type", "initialiser", "SEMICOLON">>
parseReturn == <<"RETURN", "expression", "SEMICOLON">>
parseDialect == <<"DIALECT", "COLON", "IDENTIFIER", "SEMICOLON">>
parseIf == <<"IF", "expression", "block", "otherwise">>
parseTest == <<"TEST", "STRING", "block">>

(* Mutant: a block leaves its closing brace to the block around it. *)
parseBlockOpen == <<"OPEN_CURLY", "statements">>
parseBlock == <<"OPEN_CURLY", "statements", "CLOSE_CURLY">>

AssertsOne == {"TEST_ASSERT_TRUE", "TEST_ASSERT_FALSE"}
AssertsTwo ==
  {"TEST_ASSERT_EQUAL", "TEST_ASSERT_NOT_EQUAL", "TEST_ASSERT_LESS_THAN",
   "TEST_ASSERT_GREATER_THAN", "TEST_ASSERT_LESS_THAN_OR_EQUALS",
   "TEST_ASSERT_GREATER_THAN_OR_EQUALS"}
parseAsserts(type) ==
  IF type \in AssertsOne THEN <<type, "expression", "SEMICOLON">>
  ELSE <<type, "expression", "COMMA", "expression", "SEMICOLON">>

Keywords ==
  {"FUNCTION", "MAIN", "STRUCT", "PRINT_F", "PRINT", "LET", "RETURN", "DIALECT",
   "IF", "TEST", "OPEN_CURLY"} \cup AssertsOne \cup AssertsTwo
parseStatement(type) ==
  CASE type = "FUNCTION" -> parseFunction
    [] type = "MAIN" -> parseMain
    [] type = "STRUCT" -> parseStruct
    [] type = "PRINT_F" -> parsePrintFormatted
    [] type = "PRINT" -> parsePrint
    [] type = "LET" -> parseDeclaration
    [] type = "RETURN" -> parseReturn
    [] type = "DIALECT" -> parseDialect
    [] type = "IF" -> parseIf
    [] type = "TEST" -> parseTest
    [] type = "OPEN_CURLY" -> parseBlock
    [] OTHER -> parseAsserts(type)

NamedTypes == {"INT", "FLOAT", "STRING", "BOOL", "BYTE", "IDENTIFIER"}
TypeTokens == NamedTypes \cup {"OPEN_BRACKET", "MULTIPLY"}
parseType(type) ==
  CASE type \in NamedTypes -> <<type>>
    [] type = "OPEN_BRACKET" -> <<type, "size", "CLOSE_BRACKET", "type">>
    [] type = "MULTIPLY" -> <<type, "type">>

(***************************************************************************)
(* The decisions: the steps that follow, by the next token.                *)
(***************************************************************************)
If(next, steps) == IF next THEN steps ELSE <<>>
Until(ends, steps) == If(current \notin ends, steps)

statements == Until({"CLOSE_CURLY", "END_OF_FILE"}, <<"statement", "statements">>)

(* Mutant: the comma after a field or a value must be there. *)
CommaBetween == Until({"CLOSE_CURLY", "CLOSE_PAREN"}, <<"COMMA">>)
comma == If(current = "COMMA", <<"COMMA">>)
fields == Until({"CLOSE_CURLY", "END_OF_FILE"}, <<"IDENTIFIER", "type", "comma", "fields">>)
values == Until({"CLOSE_PAREN", "END_OF_FILE"}, <<"expression", "comma", "values">>)

(* A comma between two parameters must be followed by the second. *)
parameters == Until({"CLOSE_PAREN"}, <<"parameter">>)
parameter == <<"IDENTIFIER", "type", "another">>
another == If(current = "COMMA", <<"COMMA", "parameter">>)

initialiser == Until({"SEMICOLON"}, <<"ASSIGNMENT", "expression">>)
size == If(current = "NUMBER", <<"NUMBER">>)

(* Mutant: what follows else is a statement after the if. *)
OtherwiseApart == If(current = "ELSE", <<"ELSE">>)
otherwise == If(current = "ELSE", <<"ELSE", "block">>)

Decisions ==
  {"statements", "comma", "fields", "values", "parameters", "parameter", "another",
   "initialiser", "size", "otherwise", "program"}
Decide(step) ==
  CASE step = "program" -> Until({"END_OF_FILE"}, <<"statement", "program">>)
    [] step = "statements" -> statements
    [] step = "comma" -> comma
    [] step = "fields" -> fields
    [] step = "values" -> values
    [] step = "parameters" -> parameters
    [] step = "parameter" -> parameter
    [] step = "another" -> another
    [] step = "initialiser" -> initialiser
    [] step = "size" -> size
    [] step = "otherwise" -> otherwise

(***************************************************************************)
(* A call: the node it builds, the steps it has left and the parts of the  *)
(* node so far.  A statement without a keyword is an expression.           *)
(***************************************************************************)
Call(node, todo) == [node |-> node, todo |-> todo, parts |-> <<>>]
Top == calls[Len(calls)]
Handling == calls # <<>> /\ outcome = "done" /\ tree = NoExpr
Step == Head(Top.todo)
AtStep(steps) == Handling /\ Top.todo # <<>> /\ Step \in steps
AtEnd == Handling /\ Top.todo = <<>>

Rest == [Top EXCEPT !.todo = Tail(@)]
Becomes(call) == calls' = [calls EXCEPT ![Len(calls)] = call]
Calls(call) == calls' = Append([calls EXCEPT ![Len(calls)] = Rest], call)

Init ==
  /\ tokens = <<>>
  /\ current \in Expression!Follow(<<>>)
  /\ frames = <<>> /\ outcome = "done" /\ tree = NoExpr
  /\ calls = <<Call("PROGRAM", <<"program">>)>>
  /\ program = NoExpr
  /\ tests = <<>>

Expect ==
  /\ AtStep(TokenTypes)
  /\ Expression!expect({Step})
  /\ Becomes(IF current \in Valued
             THEN [Rest EXCEPT !.parts = Append(@, Leaf(Expression!Here))]
             ELSE Rest)
  /\ UNCHANGED <<frames, outcome, tree, program, tests>>

TakeDecision ==
  /\ AtStep(Decisions)
  /\ Becomes([Rest EXCEPT !.todo = Decide(Step) \o @])
  /\ UNCHANGED <<tokens, current, frames, outcome, tree, program, tests>>

CallStatement ==
  /\ AtStep({"statement"}) /\ current \in Keywords
  /\ Calls(Call(current, parseStatement(current)))
  /\ UNCHANGED <<tokens, current, frames, outcome, tree, program, tests>>

CallBlock ==
  /\ AtStep({"block"})
  /\ Calls(Call("OPEN_CURLY", parseBlock))
  /\ UNCHANGED <<tokens, current, frames, outcome, tree, program, tests>>

CallType ==
  /\ AtStep({"type"}) /\ current \in TypeTokens
  /\ Calls(Call(current, parseType(current)))
  /\ UNCHANGED <<tokens, current, frames, outcome, tree, program, tests>>

(* Mutant: a semicolon alone is a statement, and nobody reads it. *)
CallExpressionOrNone ==
  /\ \/ AtStep({"expression"})
     \/ AtStep({"statement"}) /\ current \notin Keywords
  /\ IF Step = "statement" /\ current = "SEMICOLON"
     THEN UNCHANGED <<frames, outcome>>
     ELSE frames' = <<Expression!Operand(0)>> /\ outcome' = "parsing"
  /\ Becomes(Rest)
  /\ UNCHANGED <<tokens, current, tree, program, tests>>

CallExpression ==
  /\ \/ AtStep({"expression"})
     \/ AtStep({"statement"}) /\ current \notin Keywords
  /\ frames' = <<Expression!Operand(0)>>
  /\ outcome' = "parsing"
  /\ Becomes(Rest)
  /\ UNCHANGED <<tokens, current, tree, program, tests>>

ParseExpression ==
  /\ outcome = "parsing"
  /\ Expression!Next
  /\ calls' = IF outcome' = "error" THEN <<>> ELSE calls
  /\ UNCHANGED <<program, tests>>

TakeExpression ==
  /\ calls # <<>> /\ outcome = "done" /\ tree # NoExpr
  /\ Becomes([Top EXCEPT !.parts = Append(@, tree)])
  /\ tree' = NoExpr
  /\ UNCHANGED <<tokens, current, frames, outcome, program, tests>>

(* A print needs a value, and print_f one that begins with a string. *)
Rejected ==
  \/ Top.node \in {"PRINT", "PRINT_F"} /\ Top.parts = <<>>
  \/ Top.node = "PRINT_F" /\ Top.parts # <<>>
       /\ Head(Top.parts) \notin {Leaf(i) : i \in {j \in DOMAIN tokens : tokens[j] = "STRING"}}

(* Mutant: a test comes before the tests in its body. *)
ReturnTestFirst ==
  LET node == <<Top.node>> \o Top.parts  caller == Len(calls) - 1 IN
  /\ AtEnd /\ ~Rejected /\ caller > 0
  /\ calls' = [SubSeq(calls, 1, caller) EXCEPT ![caller].parts =
                  IF Top.node \in {"DIALECT", "TEST"} THEN @ ELSE Append(@, node)]
  /\ tests' = IF Top.node = "TEST" THEN <<node>> \o tests ELSE tests
  /\ UNCHANGED <<tokens, current, frames, outcome, tree, program>>

Return ==
  LET node == <<Top.node>> \o Top.parts  caller == Len(calls) - 1 IN
  /\ AtEnd /\ ~Rejected /\ caller > 0
  /\ calls' = [SubSeq(calls, 1, caller) EXCEPT ![caller].parts =
                  IF Top.node \in {"DIALECT", "TEST"} THEN @ ELSE Append(@, node)]
  /\ tests' = IF Top.node = "TEST" THEN Append(tests, node) ELSE tests
  /\ UNCHANGED <<tokens, current, frames, outcome, tree, program>>

(* previous() of a source without tokens reads before the first one. *)
ReturnProgram ==
  /\ AtEnd /\ Len(calls) = 1
  /\ calls' = <<>>
  /\ program' = <<"PROGRAM">> \o Top.parts
  /\ outcome' \in IF tokens = <<>> THEN {"done", "crash"} ELSE {"done"}
  /\ UNCHANGED <<tokens, current, frames, tree, tests>>

Throw ==
  /\ \/ AtStep(TokenTypes \ {current})
     \/ AtStep({"type"}) /\ current \notin TypeTokens
     \/ AtEnd /\ Rejected
  /\ outcome' = "error"
  /\ calls' = <<>>
  /\ UNCHANGED <<tokens, current, frames, tree, program, tests>>

Next ==
  \/ Expect \/ TakeDecision
  \/ CallStatement \/ CallBlock \/ CallType
  \/ CallExpression \/ ParseExpression \/ TakeExpression
  \/ Return \/ ReturnProgram \/ Throw

Spec == Init /\ [][Next]_vars

(* One thread parses: it takes its next step. *)
FairSpec == Spec /\ WF_vars(Next)

Count(s, Test(_)) == Len(SelectSeq(s, Test))
Owes(call) == \E k \in DOMAIN call.todo : call.todo[k] = "CLOSE_CURLY"
Opened(call) == Owes(call) /\ Head(call.todo) # "OPEN_CURLY"
                  /\ call.todo # parseStruct /\ call.todo # Tail(parseStruct)

(* The variables have their types, and the calls nest as the braces do:    *)
(* the program is the outermost, an expression is at work above the        *)
(* statements, and every open brace is owed by one call.                   *)
TypeOK ==
  /\ tokens \in Seq(Tokens)
  /\ current \in Tokens \cup {"END_OF_FILE"}
  /\ outcome \in {"parsing", "done", "error", "crash"}
  /\ (outcome = "parsing") = (frames # <<>>)
  /\ outcome # "done" => tree = NoExpr
  /\ (calls = <<>>) = (program # NoExpr \/ outcome = "error")
  /\ \A k \in DOMAIN calls : (calls[k].node = "PROGRAM") = (k = 1)
  /\ calls # <<>> =>
       Count(calls, Opened) = Count(tokens, LAMBDA t : t = "OPEN_CURLY")
                               - Count(tokens, LAMBDA t : t = "CLOSE_CURLY")

(* Whatever the tokens, the parser returns, throws or crashes.             *)
ParseEnds == <>(calls = <<>>)
===============================================================================
