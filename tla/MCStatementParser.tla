------------------------- MODULE MCStatementParser -------------------------
(* Sources for TLC. *)
EXTENDS StatementGrammar

CONSTANTS MaxEdits, MaxShort

Sources == INSTANCE TokenSources WITH Alphabet <- Tokens
NearSeeds(read) == Sources!Following(read)

StatementTokens ==
  {"FUNCTION", "MAIN", "STRUCT", "LET", "RETURN", "IF", "ELSE", "TEST", "PRINT",
   "PRINT_F", "DIALECT", "COLON", "TEST_ASSERT_TRUE", "TEST_ASSERT_EQUAL",
   "IDENTIFIER", "STRING", "INT", "OPEN_PAREN", "CLOSE_PAREN", "OPEN_CURLY",
   "CLOSE_CURLY", "COMMA", "SEMICOLON", "ASSIGNMENT", "OPEN_BRACKET",
   "CLOSE_BRACKET", "MULTIPLY", "NUMBER"}

(* A dialect and a main function with a variable of an array type. *)
MainProgram ==
  <<"DIALECT", "COLON", "IDENTIFIER", "SEMICOLON",
    "MAIN", "OPEN_PAREN", "CLOSE_PAREN", "INT", "OPEN_CURLY",
    "LET", "IDENTIFIER", "OPEN_BRACKET", "NUMBER", "CLOSE_BRACKET", "INT", "SEMICOLON",
    "RETURN", "NUMBER", "SEMICOLON", "CLOSE_CURLY">>

(* A struct, and a function of two parameters with a call. *)
Declarations ==
  <<"STRUCT", "IDENTIFIER", "OPEN_CURLY", "IDENTIFIER", "INT", "COMMA",
    "IDENTIFIER", "MULTIPLY", "IDENTIFIER", "CLOSE_CURLY",
    "FUNCTION", "IDENTIFIER", "OPEN_PAREN", "IDENTIFIER", "INT", "COMMA",
    "IDENTIFIER", "OPEN_BRACKET", "CLOSE_BRACKET", "INT", "CLOSE_PAREN", "IDENTIFIER",
    "OPEN_CURLY", "IDENTIFIER", "OPEN_PAREN", "IDENTIFIER", "CLOSE_PAREN", "CLOSE_CURLY">>

(* A test with another one in its body, and asserts. *)
NestedTests ==
  <<"TEST", "STRING", "OPEN_CURLY",
    "TEST", "STRING", "OPEN_CURLY", "TEST_ASSERT_TRUE", "IDENTIFIER", "SEMICOLON",
    "CLOSE_CURLY",
    "TEST_ASSERT_EQUAL", "IDENTIFIER", "COMMA", "NUMBER", "SEMICOLON", "CLOSE_CURLY",
    "TEST", "STRING", "OPEN_CURLY", "CLOSE_CURLY">>

(* Branches, and prints with and without the commas. *)
Branches ==
  <<"IF", "IDENTIFIER", "OPEN_CURLY",
    "PRINT_F", "OPEN_PAREN", "STRING", "COMMA", "IDENTIFIER", "CLOSE_PAREN", "SEMICOLON",
    "CLOSE_CURLY", "ELSE", "OPEN_CURLY",
    "PRINT", "OPEN_PAREN", "IDENTIFIER", "NUMBER", "CLOSE_PAREN", "SEMICOLON",
    "LET", "IDENTIFIER", "INT", "ASSIGNMENT", "NUMBER", "SEMICOLON", "CLOSE_CURLY">>

(* Shorter sources, one for each kind of statement.                        *)
Statements ==
  {<<"FUNCTION", "IDENTIFIER", "OPEN_PAREN", "IDENTIFIER", "INT", "CLOSE_PAREN", "INT",
     "OPEN_CURLY", "CLOSE_CURLY">>,
   <<"MAIN", "OPEN_PAREN", "CLOSE_PAREN", "INT", "OPEN_CURLY", "RETURN", "IDENTIFIER",
     "SEMICOLON", "CLOSE_CURLY">>,
   <<"STRUCT", "IDENTIFIER", "OPEN_CURLY", "IDENTIFIER", "INT", "COMMA", "IDENTIFIER",
     "STRING", "CLOSE_CURLY">>,
   <<"IF", "IDENTIFIER", "OPEN_CURLY", "CLOSE_CURLY", "ELSE", "OPEN_CURLY", "CLOSE_CURLY">>,
   <<"TEST", "STRING", "OPEN_CURLY", "TEST", "STRING", "OPEN_CURLY", "CLOSE_CURLY",
     "CLOSE_CURLY">>,
   <<"LET", "IDENTIFIER", "OPEN_BRACKET", "NUMBER", "CLOSE_BRACKET", "INT", "ASSIGNMENT",
     "IDENTIFIER", "SEMICOLON">>,
   <<"PRINT_F", "OPEN_PAREN", "STRING", "COMMA", "IDENTIFIER", "CLOSE_PAREN", "SEMICOLON">>,
   <<"PRINT", "OPEN_PAREN", "IDENTIFIER", "NUMBER", "CLOSE_PAREN", "SEMICOLON">>,
   <<"TEST_ASSERT_EQUAL", "IDENTIFIER", "COMMA", "NUMBER", "SEMICOLON">>}

SeedPrograms ==
  [s \in {MainProgram, Declarations, NestedTests, Branches} \cup Statements |->
     IF s \in Statements THEN 2 ELSE 1]
===============================================================================
