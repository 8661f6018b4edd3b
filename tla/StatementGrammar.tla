---------------------------- MODULE StatementGrammar ----------------------------
(***************************************************************************)
(* The programs, without a parser: the rules of a context-free grammar,    *)
(* every alternative of which is tried on every sequence of tokens.        *)
(***************************************************************************)
EXTENDS StatementParser, ExpressionMeaning

(* The rules that build no node of their own, with their alternatives.     *)
Fields == {<<"IDENTIFIER", "type">>, <<"IDENTIFIER", "type", "COMMA">>}
Alternatives ==
  [body |-> {<<>>, <<"statement", "body">>},
   list |-> {<<"expression">>, <<"expression", "COMMA">>, <<"expression", "list">>,
             <<"expression", "COMMA", "list">>},
   formatted |-> {<<"format">>, <<"format", "COMMA">>, <<"format", "list">>,
                  <<"format", "COMMA", "list">>},
   members |-> {<<>>} \cup {field \o <<"members">> : field \in Fields},
   signature |-> {<<"OPEN_PAREN", "CLOSE_PAREN", "type">>,
                  <<"OPEN_PAREN", "arguments", "CLOSE_PAREN", "type">>},
   arguments |-> {<<"IDENTIFIER", "type">>, <<"IDENTIFIER", "type", "COMMA", "arguments">>}]

(* The rules whose alternatives each build a node, named by its first token. *)
Nodes ==
  [type |->
     {<<t>> : t \in {"INT", "FLOAT", "STRING", "BOOL", "BYTE", "IDENTIFIER"}} \cup
     {<<"MULTIPLY", "type">>, <<"OPEN_BRACKET", "CLOSE_BRACKET", "type">>,
      <<"OPEN_BRACKET", "NUMBER", "CLOSE_BRACKET", "type">>},
   block |-> {<<"OPEN_CURLY", "body", "CLOSE_CURLY">>},
   statement |->
     {<<"OPEN_CURLY", "body", "CLOSE_CURLY">>,
      <<"FUNCTION", "IDENTIFIER", "signature", "block">>,
      <<"MAIN", "signature", "block">>,
      <<"STRUCT", "IDENTIFIER", "OPEN_CURLY", "members", "CLOSE_CURLY">>,
      <<"LET", "IDENTIFIER", "type", "SEMICOLON">>,
      <<"LET", "IDENTIFIER", "type", "ASSIGNMENT", "expression", "SEMICOLON">>,
      <<"RETURN", "expression", "SEMICOLON">>,
      <<"IF", "expression", "block">>,
      <<"IF", "expression", "block", "ELSE", "block">>,
      <<"PRINT", "OPEN_PAREN", "list", "CLOSE_PAREN", "SEMICOLON">>,
      <<"PRINT_F", "OPEN_PAREN", "formatted", "CLOSE_PAREN", "SEMICOLON">>,
      <<"DIALECT", "COLON", "IDENTIFIER", "SEMICOLON">>,
      <<"TEST", "STRING", "block">>} \cup
     {<<a, "expression", "SEMICOLON">> : a \in AssertsOne} \cup
     {<<a, "expression", "COMMA", "expression", "SEMICOLON">> : a \in AssertsTwo}]

(* An expression ends where the next token cannot extend it.               *)
Extends(t) == IsOperator(t) \/ t \in Openers
Ends(w, i) ==
  {j \in i..Len(w) : /\ \A k \in i..j : OfExpressions(w[k])
                     /\ j = Len(w) \/ ~Extends(w[j + 1])
                     /\ Meaning(w, i, j) # Malformed}

(***************************************************************************)
(* A reading of w from position i: the nodes, the tests in the order in    *)
(* which they end, and the position after.  If w may be cut short, all     *)
(* that is missing after its last token is still to come.                  *)
(***************************************************************************)
Reading(nodes, found, next) == [nodes |-> nodes, tests |-> found, next |-> next]

RECURSIVE Readings(_, _, _, _), ReadingsOf(_, _, _, _)

Node(alternative, r) ==
  LET node == <<Head(alternative)>> \o r.nodes IN
  CASE Head(alternative) = "DIALECT" -> Reading(<<>>, r.tests, r.next)
    [] Head(alternative) = "TEST" -> Reading(<<>>, Append(r.tests, node), r.next)
    [] OTHER -> Reading(<<node>>, r.tests, r.next)

ReadingsOf(symbol, w, i, cut) ==
  CASE cut /\ i > Len(w) -> {Reading(<<>>, <<>>, i)}
    [] symbol \in TokenTypes ->
         IF i > Len(w) \/ w[i] # symbol THEN {}
         ELSE {Reading(IF symbol \in Valued THEN <<Leaf(i)>> ELSE <<>>, <<>>, i + 1)}
    [] symbol \in DOMAIN Alternatives ->
         UNION {Readings(a, w, i, cut) : a \in Alternatives[symbol]}
    [] symbol = "expression" ->
         {Reading(<<Meaning(w, i, j)>>, <<>>, j + 1) : j \in Ends(w, i)} \cup
         (IF cut /\ Begun(SubSeq(w, i, Len(w))) THEN {Reading(<<>>, <<>>, Len(w) + 1)} ELSE {})
    [] symbol = "format" ->
         {r \in ReadingsOf("expression", w, i, cut) :
            r.nodes = <<>> \/ \E k \in i..Len(w) : w[k] = "STRING" /\ r.nodes = <<Leaf(k)>>}
    [] symbol \in DOMAIN Nodes ->
         UNION {{Node(a, r) : r \in Readings(a, w, i, cut)} :
                a \in {b \in Nodes[symbol] : i <= Len(w) /\ Head(b) = w[i]}}
           \cup IF symbol = "statement" THEN ReadingsOf("expression", w, i, cut) ELSE {}

Readings(symbols, w, i, cut) ==
  IF symbols = <<>> THEN {Reading(<<>>, <<>>, i)}
  ELSE UNION {{Reading(r.nodes \o s.nodes, r.tests \o s.tests, s.next) :
               s \in Readings(Tail(symbols), w, r.next, cut)} :
              r \in ReadingsOf(Head(symbols), w, i, cut)}

Whole(w, cut) == {r \in Readings(<<"body">>, w, 1, cut) : r.next = Len(w) + 1}
Programs(w) == Whole(w, FALSE)
BeginsProgram(w) == Whole(w, TRUE) # {}

(* The statements of the program the parser returns are those the grammar  *)
(* finds in the whole source, which it can read in one way only: one token *)
(* of lookahead takes every decision right.                                *)
ProgramAsWritten ==
  program # NoExpr =>
    {<<"PROGRAM">> \o r.nodes : r \in Programs(tokens)} = {program}

(* No test is lost and none is kept twice, however the tests are nested in *)
(* blocks, functions and other tests: they run in the order they end.      *)
TestsAsWritten ==
  program # NoExpr => {r.tests : r \in Programs(tokens)} = {tests}

(* The parser throws only where no program can be: what it read with the  *)
(* token it stopped at begins none, or the source is none as it ends.      *)
RejectsOnlyMalformed ==
  outcome = "error" =>
    IF current = "END_OF_FILE" THEN Programs(tokens) = {}
    ELSE ~BeginsProgram(Append(tokens, current))
===============================================================================
