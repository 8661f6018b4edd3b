--------------------------------- MODULE Syntax ---------------------------------
(***************************************************************************)
(* The token types the parser looks at, and the nodes of expressions.      *)
(***************************************************************************)
EXTENDS Integers, Sequences

Literals == {"IDENTIFIER", "NUMBER", "NUMBER_FLOAT", "STRING", "TRUE", "FALSE"}
UnaryOperators == {"MINUS", "NOT"}
TokenTypes ==
  Literals \cup UnaryOperators
    \cup {"OR", "AND", "EQUALS", "LESS_THAN", "LESS_THAN_EQUALS", "GREATER_THAN",
          "GREATER_THAN_EQUALS", "PLUS", "MULTIPLY", "DIVIDE", "OPEN_PAREN",
          "CLOSE_PAREN", "OPEN_BRACKET", "CLOSE_BRACKET", "COMMA", "SEMICOLON",
          "OPEN_CURLY", "CLOSE_CURLY", "ASSIGNMENT", "COLON", "LET", "RETURN",
          "FUNCTION", "MAIN", "STRUCT", "PRINT", "PRINT_F", "IF", "ELSE", "DIALECT",
          "TEST", "INT", "FLOAT", "BOOL", "BYTE", "TEST_ASSERT_TRUE",
          "TEST_ASSERT_FALSE", "TEST_ASSERT_EQUAL", "TEST_ASSERT_NOT_EQUAL",
          "TEST_ASSERT_LESS_THAN", "TEST_ASSERT_LESS_THAN_OR_EQUALS",
          "TEST_ASSERT_GREATER_THAN", "TEST_ASSERT_GREATER_THAN_OR_EQUALS"}

(* getPrecedence.  AND and the comparisons share a precedence. *)
getPrecedence(type) ==
  CASE type = "OR" -> 5
    [] type \in {"AND", "EQUALS", "LESS_THAN", "LESS_THAN_EQUALS",
                 "GREATER_THAN", "GREATER_THAN_EQUALS"} -> 10
    [] type \in {"PLUS", "MINUS"} -> 20
    [] type \in {"MULTIPLY", "DIVIDE"} -> 30
    [] type \in {"OPEN_BRACKET", "OPEN_PAREN"} -> 40
    [] OTHER -> -1

(* The nodes.  A leaf and an operator are known by the position of their   *)
(* token; parentheses leave no node.                                       *)
NoExpr == <<>>
Leaf(i) == <<"leaf", i>>
UnaryNode(i, operand) == <<"unary", i, operand>>
createBinaryNode(i, left, right) == <<"binary", i, left, right>>
CallNode(callee, args) == <<"call", callee, args>>
AccessNode(array, index) == <<"access", array, index>>
ArrayNode(elements) == <<"array", elements>>
=================================================================================
