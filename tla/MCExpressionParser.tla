-------------------------- MODULE MCExpressionParser --------------------------
(* Token streams for TLC. *)
EXTENDS ExpressionGrammar

CONSTANTS MaxEdits, MaxShort

Sources == INSTANCE TokenSources WITH Alphabet <- Tokens
NearSeeds(read) == Sources!Following(read)

(* An operator of each precedence, the unary ones, brackets, lists and the *)
(* ends of statements.                                                     *)
ExpressionTokens ==
  {"IDENTIFIER", "MINUS", "NOT", "OR", "LESS_THAN", "AND", "MULTIPLY", "OPEN_PAREN",
   "CLOSE_PAREN", "OPEN_BRACKET", "CLOSE_BRACKET", "COMMA", "SEMICOLON", "CLOSE_CURLY"}

(* - a * a[a] < a || a && a - a - a *)
Operators ==
  <<"MINUS", "IDENTIFIER", "MULTIPLY", "IDENTIFIER", "OPEN_BRACKET", "IDENTIFIER",
    "CLOSE_BRACKET", "LESS_THAN", "IDENTIFIER", "OR", "IDENTIFIER", "AND", "IDENTIFIER",
    "MINUS", "IDENTIFIER", "MINUS", "IDENTIFIER">>

(* a(a[a], [a, - a] (a) a) *)
Brackets ==
  <<"IDENTIFIER", "OPEN_PAREN", "IDENTIFIER", "OPEN_BRACKET", "IDENTIFIER",
    "CLOSE_BRACKET", "COMMA", "OPEN_BRACKET", "IDENTIFIER", "COMMA", "MINUS",
    "IDENTIFIER", "CLOSE_BRACKET", "OPEN_PAREN", "IDENTIFIER", "CLOSE_PAREN",
    "IDENTIFIER", "CLOSE_PAREN">>

SeedExpressions == [s \in {Operators, Brackets} |-> 2]
===============================================================================
