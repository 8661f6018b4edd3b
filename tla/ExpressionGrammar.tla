-------------------------- MODULE ExpressionGrammar --------------------------
(* The expression parser against the meaning of expressions.               *)
EXTENDS ExpressionParser, ExpressionMeaning

(* What the parser returns is the meaning of the tokens it has consumed,   *)
(* whatever the order in which its calls found the operators: precedence,  *)
(* association to the left, unary operators and postfixes.                 *)
ParsesAsWritten == outcome = "done" => tree = Meaning(tokens, 1, Len(tokens))

(* The parser throws only where no expression can be: what it has read is  *)
(* none, and with the token it stopped at it begins none.                  *)
RejectsOnlyMalformed ==
  outcome = "error" =>
    /\ Meaning(tokens, 1, Len(tokens)) = Malformed
    /\ ~Begun(Append(tokens, current))
==============================================================================
