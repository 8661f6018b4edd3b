-------------------------- MODULE ExpressionMeaning --------------------------
(***************************************************************************)
(* What an expression means, without a parser: the root of a sequence of   *)
(* tokens is its last operator of the loosest level that is outside every  *)
(* bracket; without one, a unary operator, a postfix or a leaf.            *)
(***************************************************************************)
EXTENDS Syntax, FiniteSetsExt

(* The binary operators, from the loosest to the tightest. *)
Levels ==
  <<{"OR"},
    {"AND", "EQUALS", "LESS_THAN", "LESS_THAN_EQUALS", "GREATER_THAN",
     "GREATER_THAN_EQUALS"},
    {"PLUS", "MINUS"},
    {"MULTIPLY", "DIVIDE"}>>
Level(t) == CHOOSE n \in DOMAIN Levels : t \in Levels[n]
IsOperator(t) == \E n \in DOMAIN Levels : t \in Levels[n]

Openers == {"OPEN_PAREN", "OPEN_BRACKET"}
Closers == {"CLOSE_PAREN", "CLOSE_BRACKET"}
Matches(o, c) == <<o, c>> \in {<<"OPEN_PAREN", "CLOSE_PAREN">>,
                               <<"OPEN_BRACKET", "CLOSE_BRACKET">>}

(* The positions of w from lo to hi that are outside every bracket. *)
Depth(w, lo, i) ==
  Cardinality({k \in lo..(i - 1) : w[k] \in Openers}) -
    Cardinality({k \in lo..(i - 1) : w[k] \in Closers})
Outside(w, lo, hi) == {i \in lo..hi : Depth(w, lo, i) = 0}

EndsOperand(t) == t \in Literals \cup Closers
IsBinary(w, lo, i) == i > lo /\ IsOperator(w[i]) /\ EndsOperand(w[i - 1])

(* The binary operators of a piece that are outside its brackets, and the  *)
(* root among them.                                                        *)
BinaryOperators(w, lo, hi) == {i \in Outside(w, lo, hi) : IsBinary(w, lo, i)}
IsRoot(w, lo, hi, i) ==
  /\ i \in BinaryOperators(w, lo, hi)
  /\ \A j \in BinaryOperators(w, lo, hi) :
       Level(w[i]) < Level(w[j]) \/ (Level(w[i]) = Level(w[j]) /\ j <= i)
Root(w, lo, hi) == CHOOSE i \in lo..hi : IsRoot(w, lo, hi, i)

(* The last bracket that opens outside the others. *)
OuterBrackets(w, lo, hi) == {i \in Outside(w, lo, hi) : w[i] \in Openers}
LastBracket(w, lo, hi) == Max(OuterBrackets(w, lo, hi))

(* Where the parts of a list begin: after a comma and, where commas may be *)
(* missing, at an operand right after another one.                         *)
Adjoins(w, lo, i) ==
  i > lo /\ EndsOperand(w[i - 1]) /\ w[i] \in Literals \cup {"NOT"}
Starts(w, lo, hi, commasMayMiss) ==
  ({lo} \cup {i + 1 : i \in {j \in Outside(w, lo, hi) : w[j] = "COMMA"}}
        \cup {i \in Outside(w, lo, hi) : commasMayMiss /\ Adjoins(w, lo, i)})
    \ {hi + 1}
Nth(S, k) == CHOOSE i \in S : Cardinality({j \in S : j <= i}) = k

Malformed == <<"malformed">>
Valid(parts, node) ==
  IF \E k \in DOMAIN parts : parts[k] = Malformed THEN Malformed ELSE node

(* A list and a piece, given the meanings of smaller pieces. *)
List(meaning, w, lo, hi, commasMayMiss) ==
  LET starts == Starts(w, lo, hi, commasMayMiss)
      n == Cardinality(starts)
      last(k) == IF k = n THEN hi ELSE Nth(starts, k + 1) - 1
  IN  [k \in 1..n |->
         meaning[<<Nth(starts, k), IF w[last(k)] = "COMMA" THEN last(k) - 1 ELSE last(k)>>]]

Composed(meaning, w, lo, hi) ==
  LET root == Root(w, lo, hi)
      opener == LastBracket(w, lo, hi)
      left == meaning[<<lo, root - 1>>]
      right == meaning[<<root + 1, hi>>]
      operand == meaning[<<lo + 1, hi>>]
      postfixed == meaning[<<lo, opener - 1>>]
      inside == meaning[<<opener + 1, hi - 1>>]
      parts == List(meaning, w, opener + 1, hi - 1, w[opener] = "OPEN_PAREN")
  IN  IF lo > hi THEN Malformed
      ELSE IF BinaryOperators(w, lo, hi) # {} THEN
        Valid(<<left, right>>, createBinaryNode(root, left, right))
      ELSE IF w[lo] \in UnaryOperators THEN Valid(<<operand>>, UnaryNode(lo, operand))
      ELSE IF lo = hi THEN IF w[lo] \in Literals THEN Leaf(lo) ELSE Malformed
      ELSE IF OuterBrackets(w, lo, hi) = {} \/ ~Matches(w[opener], w[hi]) THEN Malformed
      ELSE CASE opener = lo /\ w[opener] = "OPEN_PAREN" -> inside
             [] opener = lo /\ w[opener] # "OPEN_PAREN" -> Valid(parts, ArrayNode(parts))
             [] opener # lo /\ w[opener] = "OPEN_PAREN" ->
                  Valid(<<postfixed>> \o parts, CallNode(postfixed, parts))
             [] opener # lo /\ w[opener] # "OPEN_PAREN" ->
                  Valid(<<postfixed, inside>>, AccessNode(postfixed, inside))

Pieces(w) == (1..(Len(w) + 1)) \X (0..Len(w))
Smaller(w, lo, hi) == {q \in Pieces(w) : q[2] - q[1] < hi - lo}
Meaning(w, lo, hi) ==
  LET meaning[p \in Pieces(w)] ==
        Composed([q \in Smaller(w, p[1], p[2]) |-> meaning[q]], w, p[1], p[2])
  IN  meaning[<<lo, hi>>]

(***************************************************************************)
(* A beginning of an expression: with an operand, where one is missing,    *)
(* and the closers of its open brackets it is one.                         *)
(***************************************************************************)
OfExpressions(t) ==
  \/ t \in Literals \cup UnaryOperators \cup {"COMMA"}
  \/ t \in Openers \cup Closers \/ IsOperator(t)
Closing(w) ==
  LET open == {k \in DOMAIN w : /\ w[k] \in Openers
                               /\ \A m \in k..Len(w) : Depth(w, k, m + 1) > 0}
      n == Cardinality(open)
  IN  [k \in 1..n |-> CHOOSE c \in Closers : Matches(w[Nth(open, n - k + 1)], c)]
Begun(w) ==
  /\ \A k \in DOMAIN w : OfExpressions(w[k])
  /\ \E operand \in {<<>>, <<"IDENTIFIER">>} :
       LET whole == w \o operand \o Closing(w) IN Meaning(whole, 1, Len(whole)) # Malformed
==============================================================================
