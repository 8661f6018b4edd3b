--------------------------- MODULE ExpressionParser ---------------------------
(***************************************************************************)
(* Parser::parseExpression and the functions it is mutually recursive      *)
(* with, one frame per call that has not returned.  The parser looks one   *)
(* token ahead; the tokens are drawn as it reads them, so that a behaviour *)
(* is one token stream.  Spans are left out.                               *)
(***************************************************************************)
EXTENDS Syntax, FiniteSets

CONSTANTS
  Tokens,        \* the token types of the streams
  Lookahead(_)   \* bound: the types that may follow some tokens

ASSUME TokensAssumption == Tokens \subseteq TokenTypes

VARIABLES
  tokens,   \* the tokens consumed
  current,  \* the next one
  frames,   \* the calls that have not returned, the innermost last
  outcome,  \* "parsing", "done" or "error"
  tree      \* what the outermost call returned

vars == <<tokens, current, frames, outcome, tree>>

(***************************************************************************)
(* A frame is a call of parseExpression with its minimum precedence, left  *)
(* and what it waits for: itself ("operand" before left is known, "loop"   *)
(* after), or a call below it for the part of a construct.  op is the      *)
(* position of an operator, parts the arguments or elements parsed.        *)
(***************************************************************************)
Sites == {"operand", "loop", "unary", "binary", "group", "index", "call", "array"}
Operand(min) == [at |-> "operand", min |-> min, op |-> 0, left |-> NoExpr, parts |-> <<>>]

Top == frames[Len(frames)]
Caller == frames[Len(frames) - 1]
Below(n) == SubSeq(frames, 1, Len(frames) - n)
At(site) == outcome = "parsing" /\ Top.at = site

(* What becomes of the innermost frame, and of the one a return goes to. *)
Becomes(frame) == frames' = Append(Below(1), frame)
Calls(frame, min) == frames' = Below(1) \o <<frame, Operand(min)>>
ReturnsTo(frame) == frames' = Append(Below(2), frame)
Has(frame, left) == [frame EXCEPT !.at = "loop", !.left = left, !.parts = <<>>]

Follow(read) == (Tokens \cup {"END_OF_FILE"}) \cap Lookahead(read)

expect(types) ==
  /\ current \in types
  /\ tokens' = Append(tokens, current)
  /\ current' \in Follow(tokens')
Peek == UNCHANGED <<tokens, current>>
Here == Len(tokens) + 1

Init ==
  /\ tokens = <<>>
  /\ current \in Follow(<<>>)
  /\ frames = <<Operand(0)>>
  /\ outcome = "parsing"
  /\ tree = NoExpr

(***************************************************************************)
(* The operand an expression begins with.                                  *)
(***************************************************************************)
ReadUnary ==
  /\ At("operand")
  /\ expect(UnaryOperators)
  /\ Calls([Top EXCEPT !.at = "unary", !.op = Here], 40)
  /\ UNCHANGED <<outcome, tree>>

ReadLiteral ==
  /\ At("operand")
  /\ expect(Literals)
  /\ Becomes(Has(Top, Leaf(Here)))
  /\ UNCHANGED <<outcome, tree>>

OpenGroup ==
  /\ At("operand")
  /\ expect({"OPEN_PAREN"})
  /\ Calls([Top EXCEPT !.at = "group"], 0)
  /\ UNCHANGED <<outcome, tree>>

OpenArray ==
  /\ At("operand")
  /\ expect({"OPEN_BRACKET"})
  /\ Becomes([Top EXCEPT !.at = "array"])
  /\ UNCHANGED <<outcome, tree>>

BeginsOperand == UnaryOperators \cup Literals \cup {"OPEN_PAREN", "OPEN_BRACKET"}

(***************************************************************************)
(* The loop that extends left.                                             *)
(***************************************************************************)
Breaks ==
  \/ current \in {"SEMICOLON", "OPEN_CURLY", "CLOSE_PAREN", "COMMA"}
  \/ getPrecedence(current) < Top.min
Continues == At("loop") /\ ~Breaks
Returns == At("loop") /\ Breaks
ReturnsIn(site) == Returns /\ Len(frames) > 1 /\ Caller.at = site

OpenCall ==
  /\ Continues
  /\ expect({"OPEN_PAREN"})
  /\ Becomes([Top EXCEPT !.at = "call"])
  /\ UNCHANGED <<outcome, tree>>

OpenIndex ==
  /\ Continues
  /\ expect({"OPEN_BRACKET"})
  /\ Calls([Top EXCEPT !.at = "index"], 0)
  /\ UNCHANGED <<outcome, tree>>

(* Mutant: an operator of the same precedence goes to the right operand. *)
ReadOperatorRightwards ==
  /\ Continues
  /\ expect(TokenTypes \ {"OPEN_PAREN", "OPEN_BRACKET"})
  /\ Calls([Top EXCEPT !.at = "binary", !.op = Here], getPrecedence(current))
  /\ UNCHANGED <<outcome, tree>>

ReadOperator ==
  /\ Continues
  /\ expect(TokenTypes \ {"OPEN_PAREN", "OPEN_BRACKET"})
  /\ Calls([Top EXCEPT !.at = "binary", !.op = Here], getPrecedence(current) + 1)
  /\ UNCHANGED <<outcome, tree>>

Return ==
  /\ Returns /\ Len(frames) = 1
  /\ outcome' = "done"
  /\ tree' = Top.left
  /\ frames' = <<>>
  /\ Peek

EndUnary ==
  /\ ReturnsIn("unary")
  /\ ReturnsTo(Has(Caller, UnaryNode(Caller.op, Top.left)))
  /\ Peek
  /\ UNCHANGED <<outcome, tree>>

EndBinary ==
  /\ ReturnsIn("binary")
  /\ ReturnsTo(Has(Caller, createBinaryNode(Caller.op, Caller.left, Top.left)))
  /\ Peek
  /\ UNCHANGED <<outcome, tree>>

(* Mutant: the frame of the group is left behind. *)
EndGroupInside ==
  /\ ReturnsIn("group")
  /\ expect({"CLOSE_PAREN"})
  /\ Becomes(Has(Caller, Top.left))
  /\ UNCHANGED <<outcome, tree>>

EndGroup ==
  /\ ReturnsIn("group")
  /\ expect({"CLOSE_PAREN"})
  /\ ReturnsTo(Has(Caller, Top.left))
  /\ UNCHANGED <<outcome, tree>>

EndIndex ==
  /\ ReturnsIn("index")
  /\ expect({"CLOSE_BRACKET"})
  /\ ReturnsTo(Has(Caller, AccessNode(Caller.left, Top.left)))
  /\ UNCHANGED <<outcome, tree>>

(***************************************************************************)
(* The arguments of a call.  The commas between them may be missing.       *)
(***************************************************************************)
NoArgument == {"CLOSE_PAREN", "END_OF_FILE", "SEMICOLON", "CLOSE_CURLY"}

NextArgument ==
  /\ At("call") /\ current \notin NoArgument
  /\ frames' = Append(frames, Operand(0))
  /\ Peek
  /\ UNCHANGED <<outcome, tree>>

WithPart == [Caller EXCEPT !.parts = Append(@, Top.left)]

(* Mutant: another argument must follow a comma. *)
EndArgumentAnother ==
  /\ ReturnsIn("call")
  /\ IF current = "COMMA"
     THEN expect({"COMMA"}) /\ frames' = Below(2) \o <<WithPart, Operand(0)>>
     ELSE Peek /\ ReturnsTo(WithPart)
  /\ UNCHANGED <<outcome, tree>>

EndArgument ==
  /\ ReturnsIn("call")
  /\ ReturnsTo(WithPart)
  /\ IF current = "COMMA" THEN expect({"COMMA"}) ELSE Peek
  /\ UNCHANGED <<outcome, tree>>

EndCall ==
  /\ At("call")
  /\ expect({"CLOSE_PAREN"})
  /\ Becomes(Has(Top, CallNode(Top.left, Top.parts)))
  /\ UNCHANGED <<outcome, tree>>

(***************************************************************************)
(* The elements of an array.                                               *)
(***************************************************************************)
NoElement == {"CLOSE_BRACKET", "END_OF_FILE"}

NextElement ==
  /\ At("array") /\ current \notin NoElement
  /\ frames' = Append(frames, Operand(0))
  /\ Peek
  /\ UNCHANGED <<outcome, tree>>

EndElement ==
  /\ ReturnsIn("array")
  /\ ReturnsTo(WithPart)
  /\ expect({"COMMA"}) \/ (current = "CLOSE_BRACKET" /\ Peek)
  /\ UNCHANGED <<outcome, tree>>

EndArray ==
  /\ At("array")
  /\ expect({"CLOSE_BRACKET"})
  /\ Becomes(Has(Top, ArrayNode(Top.parts)))
  /\ UNCHANGED <<outcome, tree>>

(* Every ParserException: it leaves all the calls. *)
Throw ==
  /\ \/ At("operand") /\ current \notin BeginsOperand
     \/ ReturnsIn("group") /\ current # "CLOSE_PAREN"
     \/ ReturnsIn("index") /\ current # "CLOSE_BRACKET"
     \/ At("call") /\ current \in NoArgument \ {"CLOSE_PAREN"}
     \/ ReturnsIn("array") /\ current \notin {"COMMA", "CLOSE_BRACKET"}
     \/ At("array") /\ current = "END_OF_FILE"
  /\ outcome' = "error"
  /\ frames' = <<>>
  /\ UNCHANGED <<tokens, current, tree>>

Next ==
  \/ ReadUnary \/ ReadLiteral \/ OpenGroup \/ OpenArray
  \/ OpenCall \/ OpenIndex \/ ReadOperator
  \/ Return \/ EndUnary \/ EndBinary \/ EndGroup \/ EndIndex
  \/ NextArgument \/ EndArgument \/ EndCall
  \/ NextElement \/ EndElement \/ EndArray
  \/ Throw

Spec == Init /\ [][Next]_vars

Places(s, Test(_)) == {k \in DOMAIN s : Test(s[k])}
OpenBrackets ==
  Cardinality(Places(tokens, LAMBDA t : t \in {"OPEN_PAREN", "OPEN_BRACKET"})) -
    Cardinality(Places(tokens, LAMBDA t : t \in {"CLOSE_PAREN", "CLOSE_BRACKET"}))

(* The variables have their types, and the frames nest: the innermost one  *)
(* is at work, every other one waits for the call above it, and there is   *)
(* one for each bracket that is open.                                      *)
TypeOK ==
  /\ tokens \in Seq(Tokens)
  /\ current \in Tokens \cup {"END_OF_FILE"}
  /\ outcome \in {"parsing", "done", "error"}
  /\ (outcome = "parsing") = (frames # <<>>)
  /\ (outcome = "done") = (tree # NoExpr)
  /\ \A k \in 1..Len(frames) :
       /\ frames[k].at \in IF k = Len(frames) THEN {"operand", "loop", "call", "array"}
                           ELSE Sites \ {"operand", "loop"}
       /\ frames[k].min \in {0, 6, 11, 21, 31, 40}
       /\ frames[k].op \in 0..Len(tokens)
       /\ (frames[k].left = NoExpr) =
            (frames[k].at \in {"operand", "unary", "group", "array"})
  /\ outcome = "parsing" =>
       OpenBrackets =
         Cardinality(Places(frames, LAMBDA f : f.at \in {"group", "index", "call", "array"}))
===============================================================================
