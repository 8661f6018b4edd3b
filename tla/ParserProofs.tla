----------------------------- MODULE ParserProofs -----------------------------
(***************************************************************************)
(* Proofs about modules ExpressionParser and ExpressionMeaning: the calls  *)
(* of the parser nest, the tree it builds is the meaning of the tokens,    *)
(* and it refuses no tokens that have one, for any stream of tokens.       *)
(***************************************************************************)
EXTENDS ExpressionGrammar, FiniteSetTheorems, SequenceTheorems, NaturalsInduction,
        WellFoundedInduction, TLAPS

(***************************************************************************)
(* Numbers and sequences.                                                  *)
(***************************************************************************)
LEMMA Least ==
  ASSUME NEW S \in SUBSET Nat, S # {}
  PROVE  \E m \in S : \A k \in S : m <= k
<1> DEFINE less == {p \in Nat \X Nat : p[1] < p[2]}
<1>1. IsWellFoundedOn(less, Nat)
  BY NatLessThanWellFounded, Zenon DEF OpToRel
<1>2. PICK m \in S : \A k \in S : <<k, m>> \notin less
  <2> HIDE DEF less
  <2> QED  BY <1>1, WFMin
<1>3. ASSUME NEW k \in S PROVE m <= k
  <2>1. k \in Nat /\ m \in Nat
    OBVIOUS
  <2>2. <<k, m>> \notin less
    BY <1>2
  <2>3. ~ (k < m)
    BY <2>1, <2>2
  <2> QED  BY <2>1, <2>3
<1> QED  BY <1>3

LEMMA Elements ==
  ASSUME NEW S, NEW s \in Seq(S)
  PROVE  /\ Len(s) \in Nat /\ DOMAIN s = 1..Len(s)
         /\ \A k \in 1..Len(s) : s[k] \in S
<1> QED  BY LenProperties, ElementOfSeq

LEMMA Made ==
  ASSUME NEW S, NEW n \in Nat, NEW s, s = [k \in 1..n |-> s[k]], \A k \in 1..n : s[k] \in S
  PROVE  s \in Seq(S) /\ Len(s) = n
<1>1. s \in [1..n -> S]
  BY Zenon
<1>2. s \in Seq(S)
  BY <1>1, SeqDef
<1>3. DOMAIN s = 1..n
  BY Zenon
<1> QED  BY <1>2, <1>3, LenProperties


(***************************************************************************)
(* The depth of brackets.                                                  *)
(***************************************************************************)
Within(w, P, a, b) == {j \in a..(b - 1) : w[j] \in P}
Number(w, P, a, b) == Cardinality(Within(w, P, a, b))

LEMMA CountAdds ==
  ASSUME NEW w, NEW P, NEW lo \in Int, NEW m \in Int, NEW k \in Int, lo <= m, m <= k
  PROVE  /\ Number(w, P, lo, k) = Number(w, P, lo, m) + Number(w, P, m, k)
         /\ Number(w, P, lo, k) \in Nat /\ Number(w, P, lo, m) \in Nat
         /\ Number(w, P, m, k) \in Nat
<1> DEFINE A == Within(w, P, lo, m)
           B == Within(w, P, m, k)
<1>1. IsFiniteSet(A) /\ IsFiniteSet(B)
  <2>1. IsFiniteSet(lo..(m - 1)) /\ IsFiniteSet(m..(k - 1))
    BY FS_Interval
  <2>2. A \subseteq lo..(m - 1) /\ B \subseteq m..(k - 1)
    BY DEF Within
  <2> HIDE DEF A, B
  <2> QED  BY <2>1, <2>2, FS_Subset
<1>2. Within(w, P, lo, k) = A \cup B
  BY DEF Within
<1>3. A \cap B = {}
  BY DEF Within
<1> HIDE DEF A, B
<1>4. /\ Cardinality(A \cup B) = Cardinality(A) + Cardinality(B) - Cardinality(A \cap B)
      /\ IsFiniteSet(A \cup B)
  BY <1>1, FS_Union
<1>5. Cardinality(A \cap B) = 0
  BY <1>3, FS_EmptySet
<1>6. Cardinality(A) \in Nat /\ Cardinality(B) \in Nat
  BY <1>1, FS_CardinalityType
<1>7. Cardinality(A \cup B) = Cardinality(A) + Cardinality(B)
  BY <1>4, <1>5, <1>6
<1> QED  BY <1>2, <1>6, <1>7 DEF A, B, Number

LEMMA DepthIs ==
  ASSUME NEW w, NEW a, NEW b
  PROVE  Depth(w, a, b) = Number(w, Openers, a, b) - Number(w, Closers, a, b)
  BY DEF Depth, Number, Within

LEMMA DepthAdds ==
  ASSUME NEW w, NEW lo \in Int, NEW m \in Int, NEW k \in Int, lo <= m, m <= k
  PROVE  /\ Depth(w, lo, k) = Depth(w, lo, m) + Depth(w, m, k)
         /\ Depth(w, lo, k) \in Int /\ Depth(w, lo, m) \in Int /\ Depth(w, m, k) \in Int
<1>1. \A P : /\ Number(w, P, lo, k) = Number(w, P, lo, m) + Number(w, P, m, k)
             /\ Number(w, P, lo, k) \in Nat /\ Number(w, P, lo, m) \in Nat
             /\ Number(w, P, m, k) \in Nat
  BY CountAdds
<1> QED  BY <1>1, DepthIs

LEMMA DepthNone ==
  ASSUME NEW w, NEW i \in Int
  PROVE  Depth(w, i, i) = 0
<1>1. \A P : {j \in i..(i - 1) : w[j] \in P} = {}
  OBVIOUS
<1> QED  BY <1>1, FS_EmptySet DEF Depth

LEMMA DepthOne ==
  ASSUME NEW w, NEW i \in Int
  PROVE  Depth(w, i, i + 1) =
           IF w[i] \in Openers THEN 1 ELSE IF w[i] \in Closers THEN -1 ELSE 0
<1>1. \A P : {j \in i..(i + 1 - 1) : w[j] \in P} = IF w[i] \in P THEN {i} ELSE {}
  OBVIOUS
<1>2. Cardinality({i}) = 1 /\ Cardinality({}) = 0
  BY FS_Singleton, FS_EmptySet
<1>3. Openers \cap Closers = {}
  BY DEF Openers, Closers
<1>4. \A P : Cardinality({j \in i..(i + 1 - 1) : w[j] \in P}) = IF w[i] \in P THEN 1 ELSE 0
  BY <1>1, <1>2
<1>5. Depth(w, i, i + 1) = (IF w[i] \in Openers THEN 1 ELSE 0) - (IF w[i] \in Closers THEN 1 ELSE 0)
  BY <1>4 DEF Depth
<1>6. CASE w[i] \in Openers
  <2>1. w[i] \notin Closers
    BY <1>3, <1>6
  <2> QED  BY <1>5, <1>6, <2>1
<1>7. CASE w[i] \notin Openers
  BY <1>5, <1>7
<1> QED  BY <1>6, <1>7

Balanced(w, lo, hi) ==
  /\ \A i \in lo..(hi + 1) : Depth(w, lo, i) >= 0
  /\ Depth(w, lo, hi + 1) = 0

Splits(w, lo, m, hi) == Outside(w, lo, hi) = Outside(w, lo, m) \cup Outside(w, m + 1, hi)

LEMMA Joined ==
  ASSUME NEW w, NEW lo \in Int, NEW m \in Int, NEW hi \in Int, lo <= m + 1, m <= hi,
         Balanced(w, lo, m), Balanced(w, m + 1, hi)
  PROVE  Balanced(w, lo, hi) /\ Splits(w, lo, m, hi)
<1>1. ASSUME NEW i \in (m + 1)..(hi + 1) PROVE Depth(w, lo, i) = Depth(w, m + 1, i)
  <2>1. /\ Depth(w, lo, i) = Depth(w, lo, m + 1) + Depth(w, m + 1, i)
        /\ Depth(w, lo, m + 1) \in Int /\ Depth(w, m + 1, i) \in Int
    BY DepthAdds
  <2> QED  BY <2>1 DEF Balanced
<1>2. ASSUME NEW i \in lo..(hi + 1) PROVE Depth(w, lo, i) >= 0
  <2>1. CASE i \in lo..(m + 1)
    BY <2>1 DEF Balanced
  <2>2. CASE i \in (m + 1)..(hi + 1)
    BY <1>1, <2>2 DEF Balanced
  <2> QED  BY <2>1, <2>2
<1>3. Depth(w, lo, hi + 1) = 0
  BY <1>1 DEF Balanced
<1>4. lo..hi = (lo..m) \cup ((m + 1)..hi)
  OBVIOUS
<1>5. Outside(w, lo, hi) = Outside(w, lo, m) \cup Outside(w, m + 1, hi)
  BY <1>1, <1>4 DEF Outside
<1> QED  BY <1>2, <1>3, <1>5 DEF Balanced, Splits

LEMMA Alone ==
  ASSUME NEW w, NEW i \in Int, w[i] \notin Openers \cup Closers
  PROVE  Balanced(w, i, i) /\ Outside(w, i, i) = {i}
<1>1. Depth(w, i, i) = 0 /\ Depth(w, i, i + 1) = 0
  BY DepthNone, DepthOne
<1>2. i..(i + 1) = {i, i + 1} /\ i..i = {i}
  OBVIOUS
<1> QED  BY <1>1, <1>2 DEF Balanced, Outside

LEMMA Nothing ==
  ASSUME NEW w, NEW i \in Int
  PROVE  Balanced(w, i, i - 1) /\ Outside(w, i, i - 1) = {}
<1>1. Depth(w, i, i) = 0 /\ i - 1 + 1 = i /\ i..i = {i} /\ i..(i - 1) = {}
  BY DepthNone
<1> QED  BY <1>1 DEF Balanced, Outside

LEMMA Bracketed ==
  ASSUME NEW w, NEW lo \in Int, NEW hi \in Int, lo < hi,
         w[lo] \in Openers, w[hi] \in Closers, Balanced(w, lo + 1, hi - 1)
  PROVE  Balanced(w, lo, hi) /\ Outside(w, lo, hi) = {lo}
<1>1. Depth(w, lo, lo) = 0 /\ Depth(w, lo, lo + 1) = 1 /\ Depth(w, hi, hi + 1) = -1
  <2>1. w[hi] \notin Openers
    BY DEF Openers, Closers
  <2> QED  BY <2>1, DepthNone, DepthOne
<1>2. ASSUME NEW i \in (lo + 1)..hi PROVE Depth(w, lo, i) \in Int /\ Depth(w, lo, i) >= 1
  <2>1. /\ Depth(w, lo, i) = Depth(w, lo, lo + 1) + Depth(w, lo + 1, i)
        /\ Depth(w, lo, i) \in Int /\ Depth(w, lo + 1, i) \in Int
    BY DepthAdds
  <2>2. i \in (lo + 1)..(hi - 1 + 1)
    OBVIOUS
  <2> QED  BY <1>1, <2>1, <2>2 DEF Balanced
<1>3. Depth(w, lo, hi + 1) = 0
  <2>1. /\ Depth(w, lo, hi) = Depth(w, lo, lo + 1) + Depth(w, lo + 1, hi)
        /\ Depth(w, lo + 1, hi) \in Int /\ Depth(w, lo, hi) \in Int
    BY DepthAdds
  <2>2. Depth(w, lo, hi + 1) = Depth(w, lo, hi) + Depth(w, hi, hi + 1)
    BY DepthAdds
  <2>3. Depth(w, lo + 1, hi) = 0
    <3>1. hi - 1 + 1 = hi
      OBVIOUS
    <3> QED  BY <3>1 DEF Balanced
  <2> QED  BY <1>1, <2>1, <2>2, <2>3
<1>4. \A i \in lo..(hi + 1) : i = lo \/ i = hi + 1 \/ i \in (lo + 1)..hi
  OBVIOUS
<1>5. \A i \in lo..hi : i = lo \/ i \in (lo + 1)..hi
  OBVIOUS
<1>6. Balanced(w, lo, hi)
  BY <1>1, <1>2, <1>3, <1>4 DEF Balanced
<1>7. lo \in lo..hi
  OBVIOUS
<1> QED  BY <1>1, <1>2, <1>5, <1>6, <1>7 DEF Outside

(***************************************************************************)
(* The table of meanings: the meaning of a piece is composed of those of   *)
(* the smaller ones.                                                       *)
(***************************************************************************)
Tabled(w, f, p) == Composed([q \in Smaller(w, p[1], p[2]) |-> f[q]], w, p[1], p[2])
Upto(w, n) == {p \in Pieces(w) : p[2] - p[1] + Len(w) + 1 < n}
Filled(w, f, n) == f = [p \in Upto(w, n) |-> Tabled(w, f, p)]
Table(w) == CHOOSE f : f = [p \in Pieces(w) |-> Tabled(w, f, p)]

LEMMA TabledAgree ==
  ASSUME NEW w, NEW f, NEW g, NEW p, \A q \in Smaller(w, p[1], p[2]) : f[q] = g[q]
  PROVE  Tabled(w, f, p) = Tabled(w, g, p)
<1>1. [q \in Smaller(w, p[1], p[2]) |-> f[q]] = [q \in Smaller(w, p[1], p[2]) |-> g[q]]
  OBVIOUS
<1> QED  BY <1>1, Zenon DEF Tabled

LEMMA FilledNext ==
  ASSUME NEW w, Len(w) \in Nat, NEW n \in Nat, NEW g, Filled(w, g, n)
  PROVE  \E h : Filled(w, h, n + 1)
<1> DEFINE h == [p \in Upto(w, n + 1) |-> Tabled(w, g, p)]
<1>1. ASSUME NEW p \in Upto(w, n + 1), NEW q \in Smaller(w, p[1], p[2])
      PROVE  q \in Upto(w, n) /\ q \in Upto(w, n + 1)
  BY DEF Upto, Smaller, Pieces
<1>2. \A q \in Upto(w, n) : g[q] = Tabled(w, g, q)
  BY DEF Filled
<1>3. \A q \in Upto(w, n + 1) : h[q] = Tabled(w, g, q)
  OBVIOUS
<1>4. h = [p \in Upto(w, n + 1) |-> h[p]]
  OBVIOUS
<1> HIDE DEF h
<1>5. ASSUME NEW p \in Upto(w, n + 1) PROVE h[p] = Tabled(w, h, p)
  <2>1. \A q \in Smaller(w, p[1], p[2]) : g[q] = h[q]
    BY <1>1, <1>2, <1>3
  <2>2. Tabled(w, g, p) = Tabled(w, h, p)
    BY <2>1, TabledAgree
  <2> QED  BY <1>3, <2>2
<1>6. h = [p \in Upto(w, n + 1) |-> Tabled(w, h, p)]
  BY <1>4, <1>5, Zenon
<1> QED  BY <1>6 DEF Filled

LEMMA FilledExists ==
  ASSUME NEW w, Len(w) \in Nat, NEW n \in Nat
  PROVE  \E f : Filled(w, f, n)
<1> DEFINE bad == {m \in Nat : ~ \E f : Filled(w, f, m)}
<1> SUFFICES ASSUME bad # {} PROVE FALSE
  OBVIOUS
<1>1. PICK m \in bad : \A k \in bad : m <= k
  <2>1. bad \in SUBSET Nat
    OBVIOUS
  <2> HIDE DEF bad
  <2> QED  BY <2>1, Least
<1>2. CASE m = 0
  <2>1. Upto(w, 0) = {}
    BY DEF Upto, Pieces
  <2>2. Filled(w, [p \in Upto(w, 0) |-> 0], 0)
    BY <2>1 DEF Filled
  <2> QED  BY <1>1, <1>2, <2>2
<1>3. CASE m # 0
  <2>1. m \in Nat /\ m - 1 \in Nat /\ ~ (m <= m - 1) /\ m - 1 + 1 = m
    BY <1>1, <1>3
  <2>2. PICK g : Filled(w, g, m - 1)
    BY <1>1, <2>1
  <2>3. \E h : Filled(w, h, m - 1 + 1)
    BY <2>1, <2>2, FilledNext
  <2> QED  BY <1>1, <2>1, <2>3
<1> QED  BY <1>2, <1>3

LEMMA TableIs ==
  ASSUME NEW w, Len(w) \in Nat
  PROVE  Table(w) = [p \in Pieces(w) |-> Tabled(w, Table(w), p)]
<1>1. Upto(w, 2 * Len(w) + 1) = Pieces(w)
  BY DEF Upto, Pieces
<1>2. \E f : Filled(w, f, 2 * Len(w) + 1)
  BY FilledExists
<1>3. \E f : f = [p \in Pieces(w) |-> Tabled(w, f, p)]
  BY <1>1, <1>2 DEF Filled
<1> QED  BY <1>3, Zenon DEF Table

LEMMA MeaningIsTable ==
  ASSUME NEW w, NEW lo, NEW hi
  PROVE  Meaning(w, lo, hi) = Table(w)[<<lo, hi>>]
  BY DEF Meaning, Table, Tabled

Meanings(w, lo, hi) == [q \in Smaller(w, lo, hi) |-> Meaning(w, q[1], q[2])]

LEMMA MeaningIs ==
  ASSUME NEW w, Len(w) \in Nat, NEW lo \in 1..(Len(w) + 1), NEW hi \in 0..Len(w)
  PROVE  Meaning(w, lo, hi) = Composed(Meanings(w, lo, hi), w, lo, hi)
<1> DEFINE f == Table(w)
           e(p) == Tabled(w, Table(w), p)
<1>1. f = [p \in Pieces(w) |-> e(p)]
  BY TableIs
<1>2. <<lo, hi>> \in Pieces(w)
  BY DEF Pieces
<1> HIDE DEF f, e
<1>3. f[<<lo, hi>>] = e(<<lo, hi>>)
  BY <1>1, <1>2
<1>4. Meaning(w, lo, hi) = Tabled(w, Table(w), <<lo, hi>>)
  BY <1>3, MeaningIsTable DEF f, e
<1>5. \A q \in Smaller(w, lo, hi) : Table(w)[q] = Meaning(w, q[1], q[2])
  <2>1. ASSUME NEW q \in Smaller(w, lo, hi) PROVE Table(w)[q] = Meaning(w, q[1], q[2])
    <3>1. q = <<q[1], q[2]>>
      BY DEF Smaller, Pieces
    <3>2. Meaning(w, q[1], q[2]) = Table(w)[<<q[1], q[2]>>]
      BY MeaningIsTable
    <3> QED  BY <3>1, <3>2, Zenon
  <2> QED  BY <2>1
<1>6. [q \in Smaller(w, lo, hi) |-> Table(w)[q]] = Meanings(w, lo, hi)
  BY <1>5 DEF Meanings
<1>7. Tabled(w, Table(w), <<lo, hi>>) = Composed([q \in Smaller(w, lo, hi) |-> Table(w)[q]], w, lo, hi)
  BY DEF Tabled
<1> QED  BY <1>4, <1>6, <1>7, Zenon

LEMMA MeaningsAt ==
  ASSUME NEW w, Len(w) \in Nat, NEW lo \in Int, NEW hi \in Int,
         NEW a \in 1..(Len(w) + 1), NEW b \in 0..Len(w), b - a < hi - lo
  PROVE  Meanings(w, lo, hi)[<<a, b>>] = Meaning(w, a, b)
<1>1. <<a, b>> \in Smaller(w, lo, hi)
  BY DEF Smaller, Pieces
<1> QED  BY <1>1 DEF Meanings


(***************************************************************************)
(* The precedence of operators.                                            *)
(***************************************************************************)
LEMMA OperatorHasLevel ==
  ASSUME NEW t, IsOperator(t)
  PROVE  /\ Level(t) \in 1..4
         /\ \/ Level(t) = 1 /\ getPrecedence(t) = 5
            \/ Level(t) = 2 /\ getPrecedence(t) = 10
            \/ Level(t) = 3 /\ getPrecedence(t) = 20
            \/ Level(t) = 4 /\ getPrecedence(t) = 30
<1>1. DOMAIN Levels = 1..4
  BY DEF Levels
<1>2. Level(t) \in DOMAIN Levels /\ t \in Levels[Level(t)]
  BY Zenon DEF IsOperator, Level
<1>3. Level(t) = 1 \/ Level(t) = 2 \/ Level(t) = 3 \/ Level(t) = 4
  BY <1>1, <1>2
<1>4. CASE Level(t) = 1
  <2>1. t = "OR"
    BY <1>2, <1>4 DEF Levels
  <2> QED  BY <1>4, <2>1 DEF getPrecedence
<1>5. CASE Level(t) = 2
  <2>1. t \in {"AND", "EQUALS", "LESS_THAN", "LESS_THAN_EQUALS", "GREATER_THAN",
               "GREATER_THAN_EQUALS"}
    BY <1>2, <1>5 DEF Levels
  <2> QED  BY <1>5, <2>1 DEF getPrecedence
<1>6. CASE Level(t) = 3
  <2>1. t \in {"PLUS", "MINUS"}
    BY <1>2, <1>6 DEF Levels
  <2> QED  BY <1>6, <2>1 DEF getPrecedence
<1>7. CASE Level(t) = 4
  <2>1. t \in {"MULTIPLY", "DIVIDE"}
    BY <1>2, <1>7 DEF Levels
  <2> QED  BY <1>7, <2>1 DEF getPrecedence
<1> QED  BY <1>3, <1>4, <1>5, <1>6, <1>7

LEMMA PrecedenceIs ==
  ASSUME NEW t
  PROVE  /\ getPrecedence(t) \in {-1, 5, 10, 20, 30, 40}
         /\ getPrecedence(t) = 40 <=> t \in Openers
         /\ getPrecedence(t) \in {5, 10, 20, 30} <=> IsOperator(t)
<1>1. getPrecedence(t) \in {-1, 5, 10, 20, 30, 40}
  BY DEF getPrecedence
<1>2. getPrecedence(t) = 40 <=> t \in Openers
  BY DEF getPrecedence, Openers
<1>3. ASSUME IsOperator(t) PROVE getPrecedence(t) \in {5, 10, 20, 30}
  BY <1>3, OperatorHasLevel
<1>4. ASSUME getPrecedence(t) \in {5, 10, 20, 30} PROVE IsOperator(t)
  <2>1. \/ t \in {"OR"}
        \/ t \in {"AND", "EQUALS", "LESS_THAN", "LESS_THAN_EQUALS", "GREATER_THAN",
                  "GREATER_THAN_EQUALS"}
        \/ t \in {"PLUS", "MINUS"} \/ t \in {"MULTIPLY", "DIVIDE"}
    BY <1>4 DEF getPrecedence
  <2>2. DOMAIN Levels = 1..4
    BY DEF Levels
  <2>3. t \in Levels[1] \/ t \in Levels[2] \/ t \in Levels[3] \/ t \in Levels[4]
    BY <2>1 DEF Levels
  <2> QED  BY <2>2, <2>3 DEF IsOperator
<1> QED  BY <1>1, <1>2, <1>3, <1>4

LEMMA OperatorIsPlain ==
  ASSUME NEW t, IsOperator(t)
  PROVE  /\ t \notin Openers \cup Closers /\ t # "COMMA" /\ t \notin Literals \cup {"NOT"}
         /\ ~ EndsOperand(t)
<1>1. getPrecedence(t) \in {5, 10, 20, 30}
  BY PrecedenceIs
<1> QED  BY <1>1 DEF getPrecedence, Openers, Closers, Literals, EndsOperand

LEMMA UnaryIsPlain ==
  ASSUME NEW t \in UnaryOperators
  PROVE  /\ t \notin Openers \cup Closers /\ t # "COMMA" /\ t \notin Literals
         /\ ~ EndsOperand(t)
  BY DEF UnaryOperators, Openers, Closers, Literals, EndsOperand

LEMMA LiteralIsPlain ==
  ASSUME NEW t \in Literals
  PROVE  /\ t \notin Openers \cup Closers /\ t # "COMMA" /\ t \notin UnaryOperators
         /\ EndsOperand(t) /\ ~ IsOperator(t) /\ t \in BeginsOperand
<1>1. getPrecedence(t) = -1
  BY DEF Literals, getPrecedence
<1>2. ~ IsOperator(t)
  BY <1>1, PrecedenceIs
<1> QED  BY <1>2 DEF UnaryOperators, Openers, Closers, Literals, EndsOperand, BeginsOperand

LEMMA BracketIsPlain ==
  ASSUME NEW t \in Openers \cup Closers
  PROVE  /\ t # "COMMA" /\ t \notin UnaryOperators /\ t \notin Literals \cup {"NOT"}
         /\ ~ IsOperator(t)
         /\ EndsOperand(t) <=> t \in Closers
         /\ t \in Openers => t \in BeginsOperand /\ t \notin Closers
<1>1. getPrecedence(t) \in {-1, 40}
  BY DEF Openers, Closers, getPrecedence
<1>2. ~ IsOperator(t)
  BY <1>1, PrecedenceIs
<1> QED  BY <1>2 DEF UnaryOperators, Openers, Closers, Literals, EndsOperand, BeginsOperand

LEMMA StartsAlone ==
  ASSUME NEW t \in BeginsOperand, getPrecedence(t) < 0
  PROVE  t \in Literals \cup {"NOT"}
  BY DEF BeginsOperand, getPrecedence, Literals, UnaryOperators


(***************************************************************************)
(* What is known of a piece that has been parsed: it is balanced, no comma *)
(* and no operand right after another one is outside its brackets, and the *)
(* node is what it means.                                                  *)
(***************************************************************************)
Unsplit(w, lo, hi) ==
  \A i \in Outside(w, lo, hi) :
    w[i] # "COMMA" /\ (i > lo => ~ (EndsOperand(w[i - 1]) /\ w[i] \in Literals \cup {"NOT"}))
Expr(w, lo, hi, node) ==
  /\ Len(w) \in Nat /\ lo \in 1..hi /\ hi \in 1..Len(w)
  /\ Balanced(w, lo, hi) /\ Unsplit(w, lo, hi)
  /\ w[lo] \in BeginsOperand /\ EndsOperand(w[hi])
  /\ node = Meaning(w, lo, hi) /\ node # Malformed
Binds(w, lo, hi, p) == \A i \in BinaryOperators(w, lo, hi) : getPrecedence(w[i]) >= p
Primary(w, lo, hi) == BinaryOperators(w, lo, hi) = {} /\ w[lo] \notin UnaryOperators

LEMMA ExprLeaf ==
  ASSUME NEW w, Len(w) \in Nat, NEW n \in 1..Len(w), w[n] \in Literals
  PROVE  Expr(w, n, n, Leaf(n)) /\ Primary(w, n, n)
<1>1. Balanced(w, n, n) /\ Outside(w, n, n) = {n}
  BY Alone, LiteralIsPlain
<1>2. BinaryOperators(w, n, n) = {}
  BY <1>1 DEF BinaryOperators, IsBinary
<1>3. w[n] \notin UnaryOperators /\ w[n] # "COMMA" /\ EndsOperand(w[n]) /\ w[n] \in BeginsOperand
  BY LiteralIsPlain
<1>4. Unsplit(w, n, n)
  BY <1>1, <1>3 DEF Unsplit
<1>5. Meaning(w, n, n) = Composed(Meanings(w, n, n), w, n, n)
  BY MeaningIs
<1>6. Composed(Meanings(w, n, n), w, n, n) = Leaf(n)
  BY <1>2, <1>3 DEF Composed
<1>7. Leaf(n) # Malformed
  BY DEF Leaf, Malformed
<1> QED  BY <1>1, <1>2, <1>3, <1>4, <1>5, <1>6, <1>7 DEF Expr, Primary

LEMMA ExprUnary ==
  ASSUME NEW w, NEW lo \in Nat \ {0}, NEW hi, NEW node, w[lo] \in UnaryOperators,
         Expr(w, lo + 1, hi, node), Binds(w, lo + 1, hi, 40)
  PROVE  Expr(w, lo, hi, UnaryNode(lo, node)) /\ BinaryOperators(w, lo, hi) = {}
<1>0. Len(w) \in Nat /\ hi \in 1..Len(w) /\ lo < hi /\ lo \in 1..Len(w)
  BY DEF Expr
<1>1. w[lo] \notin Openers \cup Closers /\ w[lo] # "COMMA" /\ ~ EndsOperand(w[lo])
  BY UnaryIsPlain
<1>2. Balanced(w, lo, lo) /\ Outside(w, lo, lo) = {lo}
  BY <1>1, Alone
<1>3. Balanced(w, lo + 1, hi)
  BY DEF Expr
<1>4. Balanced(w, lo, hi) /\ Outside(w, lo, hi) = {lo} \cup Outside(w, lo + 1, hi)
  <2>1. lo \in Int /\ hi \in Int /\ lo <= lo + 1 /\ lo <= hi
    BY <1>0
  <2>2. Balanced(w, lo, hi) /\ Splits(w, lo, lo, hi)
    BY <2>1, <1>2, <1>3, Joined
  <2> QED  BY <2>2, <1>2 DEF Splits
<1>5. BinaryOperators(w, lo + 1, hi) = {}
  <2>1. ASSUME NEW i \in BinaryOperators(w, lo + 1, hi) PROVE FALSE
    <3>1. getPrecedence(w[i]) >= 40 /\ IsOperator(w[i])
      BY <2>1 DEF Binds, BinaryOperators, IsBinary
    <3> QED  BY <3>1, OperatorHasLevel
  <2> QED  BY <2>1
<1>6. \A i \in Outside(w, lo + 1, hi) : i \in (lo + 1)..hi
  BY DEF Outside
<1>7. BinaryOperators(w, lo, hi) = {}
  <2>1. ASSUME NEW i \in BinaryOperators(w, lo, hi) PROVE FALSE
    <3>1. i \in Outside(w, lo, hi) /\ i > lo /\ IsOperator(w[i]) /\ EndsOperand(w[i - 1])
      BY <2>1 DEF BinaryOperators, IsBinary
    <3>2. i \in Outside(w, lo + 1, hi) /\ i \in (lo + 1)..hi
      BY <1>0, <1>4, <1>6, <3>1
    <3>3. CASE i = lo + 1
      <4>1. i - 1 = lo
        BY <3>3
      <4> QED  BY <1>1, <3>1, <4>1
    <3>4. CASE i # lo + 1
      <4>1. i \in BinaryOperators(w, lo + 1, hi)
        BY <1>0, <3>1, <3>2, <3>4 DEF BinaryOperators, IsBinary
      <4> QED  BY <1>5, <4>1
    <3> QED  BY <3>3, <3>4
  <2> QED  BY <2>1
<1>8. Unsplit(w, lo, hi)
  <2>1. ASSUME NEW i \in Outside(w, lo, hi)
        PROVE  w[i] # "COMMA" /\ (i > lo => ~ (EndsOperand(w[i - 1]) /\ w[i] \in Literals \cup {"NOT"}))
    <3>1. CASE i = lo
      BY <1>0, <1>1, <3>1
    <3>2. CASE i = lo + 1
      <4>1. i - 1 = lo /\ i \in Outside(w, lo + 1, hi)
        BY <1>0, <1>4, <3>2
      <4>2. w[i] # "COMMA"
        BY <4>1 DEF Expr, Unsplit
      <4> QED  BY <1>1, <4>1, <4>2
    <3>3. CASE i # lo /\ i # lo + 1
      <4>1. i \in Outside(w, lo + 1, hi) /\ i \in (lo + 1)..hi
        BY <1>4, <1>6, <3>3
      <4>2. i > lo + 1
        BY <1>0, <3>3, <4>1
      <4> QED  BY <4>1, <4>2 DEF Expr, Unsplit
    <3> QED  BY <3>1, <3>2, <3>3
  <2> QED  BY <2>1 DEF Unsplit
<1>9. w[lo] \in BeginsOperand
  BY DEF BeginsOperand
<1>10. Meaning(w, lo, hi) = UnaryNode(lo, node)
  <2>1. Meaning(w, lo, hi) = Composed(Meanings(w, lo, hi), w, lo, hi)
    BY <1>0, MeaningIs
  <2>2. Meanings(w, lo, hi)[<<lo + 1, hi>>] = node
    <3>1. lo + 1 \in 1..(Len(w) + 1) /\ hi \in 0..Len(w) /\ hi - (lo + 1) < hi - lo
          /\ lo \in Int /\ hi \in Int
      BY <1>0
    <3>2. Meanings(w, lo, hi)[<<lo + 1, hi>>] = Meaning(w, lo + 1, hi)
      BY <1>0, <3>1, MeaningsAt
    <3> QED  BY <3>2 DEF Expr
  <2>3. Composed(Meanings(w, lo, hi), w, lo, hi)
          = Valid(<<Meanings(w, lo, hi)[<<lo + 1, hi>>]>>,
                  UnaryNode(lo, Meanings(w, lo, hi)[<<lo + 1, hi>>]))
    <3>1. ~ (lo > hi)
      BY <1>0
    <3> QED  BY <1>7, <3>1, Zenon DEF Composed
  <2>4. Valid(<<node>>, UnaryNode(lo, node)) = UnaryNode(lo, node)
    BY DEF Expr, Valid
  <2> QED  BY <2>1, <2>2, <2>3, <2>4, Zenon
<1>11. UnaryNode(lo, node) # Malformed
  BY DEF UnaryNode, Malformed
<1> QED  BY <1>0, <1>4, <1>7, <1>8, <1>9, <1>10, <1>11 DEF Expr


LEMMA LevelsAreOrdered ==
  ASSUME NEW t, NEW u, IsOperator(t), IsOperator(u)
  PROVE  /\ Level(t) \in Int /\ Level(u) \in Int
         /\ getPrecedence(t) >= getPrecedence(u) => Level(u) <= Level(t)
         /\ getPrecedence(t) >= getPrecedence(u) + 1 => Level(u) < Level(t)
<1>1. \A v : IsOperator(v) =>
        /\ Level(v) \in 1..4
        /\ \/ Level(v) = 1 /\ getPrecedence(v) = 5
           \/ Level(v) = 2 /\ getPrecedence(v) = 10
           \/ Level(v) = 3 /\ getPrecedence(v) = 20
           \/ Level(v) = 4 /\ getPrecedence(v) = 30
  BY OperatorHasLevel
<1> DEFINE a == getPrecedence(t)
           b == getPrecedence(u)
           la == Level(t)
           lb == Level(u)
<1>2. /\ la \in 1..4
      /\ (la = 1 /\ a = 5) \/ (la = 2 /\ a = 10) \/ (la = 3 /\ a = 20) \/ (la = 4 /\ a = 30)
  BY <1>1
<1>3. /\ lb \in 1..4
      /\ (lb = 1 /\ b = 5) \/ (lb = 2 /\ b = 10) \/ (lb = 3 /\ b = 20) \/ (lb = 4 /\ b = 30)
  BY <1>1
<1> HIDE DEF a, b, la, lb
<1>4. la \in Int /\ lb \in Int /\ (a >= b => lb <= la) /\ (a >= b + 1 => lb < la)
  BY <1>2, <1>3
<1> QED  BY <1>4 DEF a, b, la, lb

LEMMA RootIs ==
  ASSUME NEW w, NEW lo \in Int, NEW hi \in Int, NEW i \in lo..hi, IsRoot(w, lo, hi, i)
  PROVE  Root(w, lo, hi) = i
<1>1. ASSUME NEW r \in lo..hi, IsRoot(w, lo, hi, r) PROVE r = i
  <2>1. IsOperator(w[r]) /\ IsOperator(w[i])
    BY <1>1 DEF IsRoot, BinaryOperators, IsBinary
  <2>2. Level(w[r]) \in Int /\ Level(w[i]) \in Int
    BY <2>1, LevelsAreOrdered
  <2>3. Level(w[i]) < Level(w[r]) \/ (Level(w[i]) = Level(w[r]) /\ r <= i)
    BY <1>1 DEF IsRoot
  <2>4. Level(w[r]) < Level(w[i]) \/ (Level(w[r]) = Level(w[i]) /\ i <= r)
    BY <1>1 DEF IsRoot
  <2> QED  BY <2>2, <2>3, <2>4
<1>2. \E r \in lo..hi : IsRoot(w, lo, hi, r)
  OBVIOUS
<1>3. Root(w, lo, hi) \in lo..hi /\ IsRoot(w, lo, hi, Root(w, lo, hi))
  BY <1>2, Zenon DEF Root
<1> QED  BY <1>1, <1>3

LEMMA OutsideIsWithin ==
  ASSUME NEW w, NEW lo, NEW hi
  PROVE  /\ \A i \in Outside(w, lo, hi) : i \in lo..hi
         /\ \A i \in BinaryOperators(w, lo, hi) : i \in lo..hi
  BY DEF Outside, BinaryOperators

Joins(w, lo, i, hi) ==
  BinaryOperators(w, lo, hi) =
    BinaryOperators(w, lo, i - 1) \cup {i} \cup BinaryOperators(w, i + 1, hi)

LEMMA ExprBinary ==
  ASSUME NEW w, NEW lo, NEW i \in Int, NEW hi, NEW a, NEW b,
         Expr(w, lo, i - 1, a), Expr(w, i + 1, hi, b), IsOperator(w[i]),
         Binds(w, lo, i - 1, getPrecedence(w[i])), Binds(w, i + 1, hi, getPrecedence(w[i]) + 1)
  PROVE  /\ Expr(w, lo, hi, createBinaryNode(i, a, b))
         /\ Joins(w, lo, i, hi)
<1>0. /\ Len(w) \in Nat /\ lo \in Int /\ hi \in Int /\ 1 <= lo /\ lo < i /\ i < hi
      /\ hi <= Len(w)
  BY DEF Expr
<1>1. /\ w[i] \notin Openers \cup Closers /\ w[i] # "COMMA" /\ w[i] \notin Literals \cup {"NOT"}
      /\ ~ EndsOperand(w[i])
  BY OperatorIsPlain
<1>2. /\ Balanced(w, lo, hi)
      /\ Outside(w, lo, hi) = Outside(w, lo, i - 1) \cup {i} \cup Outside(w, i + 1, hi)
  <2>1. Balanced(w, i, i) /\ Outside(w, i, i) = {i}
    BY <1>1, Alone
  <2>2. Balanced(w, lo, i - 1) /\ Balanced(w, i + 1, hi)
    BY DEF Expr
  <2>3. i <= i + 1 /\ i <= hi
    BY <1>0
  <2>4. Balanced(w, i, hi) /\ Splits(w, i, i, hi)
    BY <1>0, <2>1, <2>2, <2>3, Joined
  <2>5. i - 1 \in Int /\ i - 1 + 1 = i /\ lo <= i - 1 + 1 /\ i - 1 <= hi
    BY <1>0
  <2>6. Balanced(w, i - 1 + 1, hi)
    BY <2>4, <2>5
  <2>7. Balanced(w, lo, hi) /\ Splits(w, lo, i - 1, hi)
    BY <1>0, <2>2, <2>5, <2>6, Joined
  <2> QED  BY <2>1, <2>4, <2>5, <2>7 DEF Splits
<1>3. /\ \A j \in Outside(w, lo, i - 1) : j \in lo..(i - 1)
      /\ \A j \in Outside(w, i + 1, hi) : j \in (i + 1)..hi
  BY OutsideIsWithin
<1>4. BinaryOperators(w, lo, hi) =
        BinaryOperators(w, lo, i - 1) \cup {i} \cup BinaryOperators(w, i + 1, hi)
  <2>1. ASSUME NEW j \in Outside(w, lo, i - 1)
        PROVE  j \in BinaryOperators(w, lo, hi) <=> j \in BinaryOperators(w, lo, i - 1)
    BY <1>2 DEF BinaryOperators
  <2>2. i \in BinaryOperators(w, lo, hi)
    <3>1. EndsOperand(w[i - 1])
      BY DEF Expr
    <3> QED  BY <1>0, <1>2, <3>1 DEF BinaryOperators, IsBinary
  <2>3. ASSUME NEW j \in Outside(w, i + 1, hi)
        PROVE  j \in BinaryOperators(w, lo, hi) <=> j \in BinaryOperators(w, i + 1, hi)
    <3>1. CASE j = i + 1
      <4>1. j - 1 = i /\ ~ (j > i + 1)
        BY <3>1
      <4> QED  BY <1>1, <4>1 DEF BinaryOperators, IsBinary
    <3>2. CASE j # i + 1
      <4>1. j > lo /\ j > i + 1
        BY <1>0, <1>3, <3>2
      <4> QED  BY <1>2, <4>1 DEF BinaryOperators, IsBinary
    <3> QED  BY <3>1, <3>2
  <2>4. \A lo1, hi1 : \A j \in BinaryOperators(w, lo1, hi1) : j \in Outside(w, lo1, hi1)
    BY DEF BinaryOperators
  <2>5. ASSUME NEW j
        PROVE  j \in BinaryOperators(w, lo, hi) <=>
                 \/ j \in BinaryOperators(w, lo, i - 1) \/ j = i
                 \/ j \in BinaryOperators(w, i + 1, hi)
    BY <1>2, <2>1, <2>2, <2>3, <2>4
  <2> QED  BY <2>5
<1>5. Unsplit(w, lo, hi)
  <2>1. ASSUME NEW j \in Outside(w, lo, hi)
        PROVE  w[j] # "COMMA" /\ (j > lo => ~ (EndsOperand(w[j - 1]) /\ w[j] \in Literals \cup {"NOT"}))
    <3>1. CASE j \in Outside(w, lo, i - 1)
      BY <3>1 DEF Expr, Unsplit
    <3>2. CASE j = i
      BY <1>1, <3>2
    <3>3. CASE j \in Outside(w, i + 1, hi) /\ j = i + 1
      <4>1. j - 1 = i
        BY <3>3
      <4>2. w[j] # "COMMA"
        BY <3>3 DEF Expr, Unsplit
      <4> QED  BY <1>1, <4>1, <4>2
    <3>4. CASE j \in Outside(w, i + 1, hi) /\ j # i + 1
      <4>1. j > i + 1
        BY <1>0, <1>3, <3>4
      <4> QED  BY <3>4, <4>1 DEF Expr, Unsplit
    <3> QED  BY <1>2, <3>1, <3>2, <3>3, <3>4
  <2> QED  BY <2>1 DEF Unsplit
<1>6. IsRoot(w, lo, hi, i)
  <2>1. i \in BinaryOperators(w, lo, hi)
    BY <1>4
  <2>2. ASSUME NEW j \in BinaryOperators(w, lo, hi)
        PROVE  Level(w[i]) < Level(w[j]) \/ (Level(w[i]) = Level(w[j]) /\ j <= i)
    <3>1. IsOperator(w[j])
      BY DEF BinaryOperators, IsBinary
    <3>2. /\ Level(w[j]) \in Int /\ Level(w[i]) \in Int
          /\ getPrecedence(w[j]) >= getPrecedence(w[i]) => Level(w[i]) <= Level(w[j])
          /\ getPrecedence(w[j]) >= getPrecedence(w[i]) + 1 => Level(w[i]) < Level(w[j])
      BY <3>1, LevelsAreOrdered
    <3>3. CASE j = i
      <4> HIDE DEF Level
      <4> QED  BY <3>2, <3>3
    <3>4. CASE j \in BinaryOperators(w, lo, i - 1)
      <4>1. getPrecedence(w[j]) >= getPrecedence(w[i])
        BY <3>4 DEF Binds
      <4>2. j \in lo..(i - 1)
        BY <3>4, OutsideIsWithin
      <4> QED  BY <1>0, <3>2, <4>1, <4>2
    <3>5. CASE j \in BinaryOperators(w, i + 1, hi)
      <4>1. getPrecedence(w[j]) >= getPrecedence(w[i]) + 1
        BY <3>5 DEF Binds
      <4> QED  BY <3>2, <4>1
    <3> QED  BY <1>4, <3>3, <3>4, <3>5
  <2> QED  BY <2>1, <2>2 DEF IsRoot
<1>7. Root(w, lo, hi) = i
  BY <1>0, <1>6, RootIs
<1>8. Meaning(w, lo, hi) = createBinaryNode(i, a, b)
  <2>1. Meaning(w, lo, hi) = Composed(Meanings(w, lo, hi), w, lo, hi)
    BY <1>0, MeaningIs
  <2>2. Meanings(w, lo, hi)[<<lo, i - 1>>] = a
    <3>1. lo \in 1..(Len(w) + 1) /\ i - 1 \in 0..Len(w) /\ i - 1 - lo < hi - lo
      BY <1>0
    <3>2. Meanings(w, lo, hi)[<<lo, i - 1>>] = Meaning(w, lo, i - 1)
      BY <1>0, <3>1, MeaningsAt
    <3> QED  BY <3>2 DEF Expr
  <2>3. Meanings(w, lo, hi)[<<i + 1, hi>>] = b
    <3>1. i + 1 \in 1..(Len(w) + 1) /\ hi \in 0..Len(w) /\ hi - (i + 1) < hi - lo
      BY <1>0
    <3>2. Meanings(w, lo, hi)[<<i + 1, hi>>] = Meaning(w, i + 1, hi)
      BY <1>0, <3>1, MeaningsAt
    <3> QED  BY <3>2 DEF Expr
  <2>4. Composed(Meanings(w, lo, hi), w, lo, hi)
          = Valid(<<Meanings(w, lo, hi)[<<lo, Root(w, lo, hi) - 1>>],
                    Meanings(w, lo, hi)[<<Root(w, lo, hi) + 1, hi>>]>>,
                  createBinaryNode(Root(w, lo, hi),
                                   Meanings(w, lo, hi)[<<lo, Root(w, lo, hi) - 1>>],
                                   Meanings(w, lo, hi)[<<Root(w, lo, hi) + 1, hi>>]))
    <3>1. ~ (lo > hi) /\ BinaryOperators(w, lo, hi) # {}
      BY <1>0, <1>4
    <3> QED  BY <3>1, Zenon DEF Composed
  <2>5. Valid(<<a, b>>, createBinaryNode(i, a, b)) = createBinaryNode(i, a, b)
    BY DEF Expr, Valid
  <2> QED  BY <1>7, <2>1, <2>2, <2>3, <2>4, <2>5, Zenon
<1>9. createBinaryNode(i, a, b) # Malformed
  BY DEF createBinaryNode, Malformed
<1>10. w[lo] \in BeginsOperand /\ EndsOperand(w[hi])
  BY DEF Expr
<1>11. lo \in 1..hi /\ hi \in 1..Len(w)
  BY <1>0
<1>12. Expr(w, lo, hi, createBinaryNode(i, a, b))
  BY <1>0, <1>2, <1>5, <1>8, <1>9, <1>10, <1>11 DEF Expr
<1>13. Joins(w, lo, i, hi)
  BY <1>4 DEF Joins
<1> QED  BY <1>12, <1>13


(***************************************************************************)
(* Brackets after an operand, and brackets that are one.                   *)
(***************************************************************************)
NoOperator(w, lo, hi) == BinaryOperators(w, lo, hi) = {}
Ended(w, lo, o, hi) ==
  /\ Balanced(w, lo, hi) /\ Unsplit(w, lo, hi) /\ BinaryOperators(w, lo, hi) = {}
  /\ OuterBrackets(w, lo, hi) # {} /\ LastBracket(w, lo, hi) = o

LEMMA Postfixed ==
  ASSUME NEW w, NEW lo \in Int, NEW o \in Int, NEW hi \in Int, lo <= o, o < hi,
         Balanced(w, lo, o - 1), Unsplit(w, lo, o - 1), NoOperator(w, lo, o - 1),
         Balanced(w, o + 1, hi - 1), w[o] \in Openers, w[hi] \in Closers
  PROVE  Ended(w, lo, o, hi)
<1>1. Balanced(w, o, hi) /\ Outside(w, o, hi) = {o}
  BY Bracketed
<1>2. Balanced(w, lo, hi) /\ Outside(w, lo, hi) = Outside(w, lo, o - 1) \cup {o}
  <2>1. o - 1 \in Int /\ o - 1 + 1 = o /\ lo <= o - 1 + 1 /\ o - 1 <= hi
    OBVIOUS
  <2>2. Balanced(w, o - 1 + 1, hi)
    BY <1>1, <2>1
  <2>3. Balanced(w, lo, hi) /\ Splits(w, lo, o - 1, hi)
    BY <2>1, <2>2, Joined
  <2> QED  BY <1>1, <2>1, <2>3 DEF Splits
<1>3. \A i \in Outside(w, lo, o - 1) : i \in lo..(o - 1)
  BY OutsideIsWithin
<1>4. w[o] # "COMMA" /\ w[o] \notin Literals \cup {"NOT"} /\ ~ IsOperator(w[o])
  BY BracketIsPlain
<1>5. BinaryOperators(w, lo, hi) = {}
  BY <1>2, <1>4 DEF BinaryOperators, IsBinary, NoOperator
<1>6. o \in OuterBrackets(w, lo, hi) /\ \A i \in OuterBrackets(w, lo, hi) : i \in Int /\ o >= i
  BY <1>2, <1>3 DEF OuterBrackets
<1>7. LastBracket(w, lo, hi) = o
  <2> DEFINE S == OuterBrackets(w, lo, hi)
  <2>1. o \in S /\ \A i \in S : i \in Int /\ o >= i
    BY <1>6
  <2> HIDE DEF S
  <2>2. Max(S) \in S /\ \A i \in S : Max(S) >= i
    BY <2>1, Zenon DEF Max
  <2>3. Max(S) \in Int /\ o >= Max(S) /\ Max(S) >= o /\ o \in Int
    BY <2>1, <2>2
  <2>4. Max(S) = o
    BY <2>3
  <2> QED  BY <2>4 DEF S, LastBracket
<1>8. Unsplit(w, lo, hi)
  BY <1>2, <1>4 DEF Unsplit
<1> QED  BY <1>2, <1>5, <1>6, <1>7, <1>8 DEF Ended

LEMMA ExprGroup ==
  ASSUME NEW w, NEW lo \in Nat \ {0}, NEW hi \in Int, hi <= Len(w), NEW node,
         w[lo] = "OPEN_PAREN", w[hi] = "CLOSE_PAREN", Expr(w, lo + 1, hi - 1, node)
  PROVE  Expr(w, lo, hi, node) /\ Primary(w, lo, hi)
<1>0. Len(w) \in Nat /\ lo + 1 < hi /\ lo \in 1..hi /\ hi \in 1..Len(w)
  BY DEF Expr
<1>1. w[lo] \in Openers /\ w[hi] \in Closers
  BY DEF Openers, Closers
<1>2. Balanced(w, lo, lo - 1) /\ Outside(w, lo, lo - 1) = {}
  BY Nothing
<1>3. Unsplit(w, lo, lo - 1) /\ NoOperator(w, lo, lo - 1)
  BY <1>2 DEF Unsplit, BinaryOperators, NoOperator
<1>4. Ended(w, lo, lo, hi)
  <2>1. Balanced(w, lo + 1, hi - 1) /\ lo < hi /\ lo <= lo /\ lo \in Int /\ hi \in Int
    BY <1>0 DEF Expr
  <2> QED  BY <1>1, <1>2, <1>3, <2>1, Postfixed
<1>5. w[lo] \notin UnaryOperators /\ w[lo] \in BeginsOperand /\ EndsOperand(w[hi])
  BY <1>1, BracketIsPlain
<1>6. Meaning(w, lo, hi) = node
  <2>1. Meaning(w, lo, hi) = Composed(Meanings(w, lo, hi), w, lo, hi)
    BY <1>0, MeaningIs
  <2>2. Meanings(w, lo, hi)[<<lo + 1, hi - 1>>] = node
    <3>1. lo + 1 \in 1..(Len(w) + 1) /\ hi - 1 \in 0..Len(w) /\ hi - 1 - (lo + 1) < hi - lo
      BY <1>0
    <3>2. Meanings(w, lo, hi)[<<lo + 1, hi - 1>>] = Meaning(w, lo + 1, hi - 1)
      BY <1>0, <3>1, MeaningsAt
    <3> QED  BY <3>2 DEF Expr
  <2>3. Composed(Meanings(w, lo, hi), w, lo, hi) = Meanings(w, lo, hi)[<<lo + 1, hi - 1>>]
    <3>1. ~ (lo > hi) /\ ~ (lo = hi) /\ Matches(w[lo], w[hi])
      BY <1>0 DEF Matches
    <3> DEFINE f == Meanings(w, lo, hi)
    <3> HIDE DEF f
    <3>2. Composed(f, w, lo, hi) = f[<<lo + 1, hi - 1>>]
      BY <1>4, <1>5, <3>1 DEF Composed, Ended
    <3> QED  BY <3>2 DEF f
  <2> QED  BY <2>1, <2>2, <2>3
<1>7. node # Malformed
  BY DEF Expr
<1> QED  BY <1>0, <1>4, <1>5, <1>6, <1>7 DEF Expr, Primary, Ended

LEMMA ExprAccess ==
  ASSUME NEW w, NEW lo, NEW o \in Int, NEW hi \in Int, hi <= Len(w), NEW a, NEW b,
         Expr(w, lo, o - 1, a), Primary(w, lo, o - 1), w[o] = "OPEN_BRACKET",
         w[hi] = "CLOSE_BRACKET", Expr(w, o + 1, hi - 1, b)
  PROVE  Expr(w, lo, hi, AccessNode(a, b)) /\ Primary(w, lo, hi)
<1>0. /\ Len(w) \in Nat /\ lo \in Int /\ 1 <= lo /\ lo < o /\ o + 1 < hi
      /\ lo \in 1..hi /\ hi \in 1..Len(w)
  BY DEF Expr
<1>1. w[o] \in Openers /\ w[hi] \in Closers
  BY DEF Openers, Closers
<1>2. /\ Balanced(w, lo, o - 1) /\ Unsplit(w, lo, o - 1) /\ NoOperator(w, lo, o - 1)
      /\ w[lo] \notin UnaryOperators /\ w[lo] \in BeginsOperand /\ Balanced(w, o + 1, hi - 1)
  BY DEF Expr, Primary, NoOperator
<1>3. Ended(w, lo, o, hi)
  <2>1. lo <= o /\ o < hi
    BY <1>0
  <2> QED  BY <1>0, <1>1, <1>2, <2>1, Postfixed
<1>4. EndsOperand(w[hi])
  BY <1>1, BracketIsPlain
<1>5. Meaning(w, lo, hi) = AccessNode(a, b)
  <2>1. Meaning(w, lo, hi) = Composed(Meanings(w, lo, hi), w, lo, hi)
    BY <1>0, MeaningIs
  <2>2. Meanings(w, lo, hi)[<<lo, o - 1>>] = a
    <3>1. lo \in 1..(Len(w) + 1) /\ o - 1 \in 0..Len(w) /\ o - 1 - lo < hi - lo
      BY <1>0
    <3>2. Meanings(w, lo, hi)[<<lo, o - 1>>] = Meaning(w, lo, o - 1)
      BY <1>0, <3>1, MeaningsAt
    <3> QED  BY <3>2 DEF Expr
  <2>3. Meanings(w, lo, hi)[<<o + 1, hi - 1>>] = b
    <3>1. o + 1 \in 1..(Len(w) + 1) /\ hi - 1 \in 0..Len(w) /\ hi - 1 - (o + 1) < hi - lo
      BY <1>0
    <3>2. Meanings(w, lo, hi)[<<o + 1, hi - 1>>] = Meaning(w, o + 1, hi - 1)
      BY <1>0, <3>1, MeaningsAt
    <3> QED  BY <3>2 DEF Expr
  <2>4. Composed(Meanings(w, lo, hi), w, lo, hi)
          = Valid(<<Meanings(w, lo, hi)[<<lo, o - 1>>], Meanings(w, lo, hi)[<<o + 1, hi - 1>>]>>,
                  AccessNode(Meanings(w, lo, hi)[<<lo, o - 1>>],
                             Meanings(w, lo, hi)[<<o + 1, hi - 1>>]))
    <3>1. ~ (lo > hi) /\ ~ (lo = hi) /\ Matches(w[o], w[hi]) /\ o # lo
      BY <1>0 DEF Matches
    <3> QED  BY <1>2, <1>3, <3>1 DEF Composed, Ended
  <2>5. Valid(<<a, b>>, AccessNode(a, b)) = AccessNode(a, b)
    BY DEF Expr, Valid
  <2> QED  BY <2>1, <2>2, <2>3, <2>4, <2>5
<1>6. AccessNode(a, b) # Malformed
  BY DEF AccessNode, Malformed
<1> QED  BY <1>0, <1>2, <1>3, <1>4, <1>5, <1>6 DEF Expr, Primary, Ended


(***************************************************************************)
(* Lists: the elements of a set by rank.                                   *)
(***************************************************************************)
Rank(S, i) == Cardinality({j \in S : j <= i})
Ranked(S) == \A k \in 1..Cardinality(S) : Nth(S, k) \in S /\ Rank(S, Nth(S, k)) = k

LEMMA RanksDiffer ==
  ASSUME NEW S \in SUBSET Int, IsFiniteSet(S), NEW i \in S, NEW j \in S, i < j
  PROVE  Rank(S, i) < Rank(S, j)
<1> DEFINE A == {m \in S : m <= i}
           B == {m \in S : m <= j}
<1>1. A \subseteq B /\ B \subseteq S /\ j \in B /\ j \notin A
  <2>1. \A m \in S : m \in Int
    OBVIOUS
  <2>2. i \in Int /\ j \in Int
    BY <2>1
  <2>3. \A m \in S : m <= i => m <= j
    BY <2>1, <2>2
  <2>4. j <= j /\ ~ (j <= i)
    BY <2>2
  <2> QED  BY <2>3, <2>4
<1> HIDE DEF A, B
<1>2. IsFiniteSet(B)
  BY <1>1, FS_Subset
<1>3. IsFiniteSet(A) /\ Cardinality(A) <= Cardinality(B) /\ Cardinality(A) # Cardinality(B)
  BY <1>1, <1>2, FS_Subset
<1>4. Cardinality(A) \in Nat /\ Cardinality(B) \in Nat
  BY <1>2, <1>3, FS_CardinalityType
<1>5. Cardinality(A) < Cardinality(B)
  BY <1>3, <1>4
<1> QED  BY <1>5 DEF A, B, Rank

LEMMA RankIsNumber ==
  ASSUME NEW S, IsFiniteSet(S), NEW i
  PROVE  Rank(S, i) \in Nat
<1>1. {j \in S : j <= i} \in SUBSET S
  OBVIOUS
<1>2. IsFiniteSet({j \in S : j <= i})
  BY <1>1, FS_Subset
<1> QED  BY <1>2, FS_CardinalityType DEF Rank

LEMMA NthIs ==
  ASSUME NEW S \in SUBSET Int, IsFiniteSet(S), NEW k, NEW i \in S, Rank(S, i) = k
  PROVE  Nth(S, k) = i
<1>1. \E j \in S : Rank(S, j) = k
  OBVIOUS
<1>2. Nth(S, k) = CHOOSE j \in S : Rank(S, j) = k
  BY DEF Nth, Rank
<1>3. Nth(S, k) \in S /\ Rank(S, Nth(S, k)) = k
  BY <1>1, <1>2, Zenon
<1>4. ASSUME NEW j \in S, Rank(S, j) = k PROVE j = i
  <2>1. ~ (j < i) /\ ~ (i < j)
    <3>1. Rank(S, i) \in Nat /\ Rank(S, j) \in Nat
      BY RankIsNumber
    <3>2. j < i => Rank(S, j) < Rank(S, i)
      BY RanksDiffer
    <3>3. i < j => Rank(S, i) < Rank(S, j)
      BY RanksDiffer
    <3> QED  BY <1>4, <3>1, <3>2, <3>3
  <2> QED  BY <2>1
<1> QED  BY <1>3, <1>4

LEMMA RankedAdds ==
  ASSUME NEW S \in SUBSET Int, IsFiniteSet(S), NEW x \in Int, \A j \in S : j < x, Ranked(S)
  PROVE  /\ Cardinality(S) \in Nat
         /\ Cardinality(S \cup {x}) = Cardinality(S) + 1
         /\ Ranked(S \cup {x})
         /\ \A k \in 1..Cardinality(S) : Nth(S \cup {x}, k) = Nth(S, k)
         /\ Nth(S \cup {x}, Cardinality(S) + 1) = x
<1> DEFINE T == S \cup {x}
<1>1. T \in SUBSET Int /\ x \in T /\ S \subseteq T /\ x \notin S
  OBVIOUS
<1>2. IsFiniteSet(T) /\ Cardinality(T) = Cardinality(S) + 1 /\ Cardinality(S) \in Nat
  BY <1>1, FS_AddElement, FS_CardinalityType
<1>3. \A i \in S : {j \in T : j <= i} = {j \in S : j <= i}
  OBVIOUS
<1>4. {j \in T : j <= x} = T
  <2>1. \A j \in S : j \in Int /\ j < x
    OBVIOUS
  <2>2. \A j \in S : j <= x
    BY <2>1
  <2>3. \A j \in T : j <= x
    BY <2>2
  <2> HIDE DEF T
  <2> QED  BY <2>3
<1> HIDE DEF T
<1>5. \A i \in S : Rank(T, i) = Rank(S, i)
  BY <1>3 DEF Rank
<1>6. Rank(T, x) = Cardinality(S) + 1
  BY <1>2, <1>4 DEF Rank
<1>7. ASSUME NEW k \in 1..Cardinality(S) PROVE Nth(T, k) = Nth(S, k)
  <2>1. Nth(S, k) \in S /\ Rank(S, Nth(S, k)) = k
    BY DEF Ranked
  <2>2. Nth(S, k) \in T /\ Rank(T, Nth(S, k)) = k
    BY <1>1, <1>5, <2>1
  <2> QED  BY <1>1, <1>2, <2>2, NthIs
<1>8. Nth(T, Cardinality(S) + 1) = x
  BY <1>1, <1>2, <1>6, NthIs
<1>9. Ranked(T)
  <2>1. ASSUME NEW k \in 1..Cardinality(T) PROVE Nth(T, k) \in T /\ Rank(T, Nth(T, k)) = k
    <3>1. CASE k \in 1..Cardinality(S)
      <4>1. Nth(S, k) \in S /\ Rank(S, Nth(S, k)) = k
        BY <3>1 DEF Ranked
      <4> QED  BY <1>1, <1>5, <1>7, <3>1, <4>1
    <3>2. CASE k = Cardinality(S) + 1
      BY <1>1, <1>6, <1>8, <3>2
    <3> QED  BY <1>2, <3>1, <3>2
  <2> QED  BY <2>1 DEF Ranked
<1> QED  BY <1>2, <1>7, <1>8, <1>9 DEF T

(***************************************************************************)
(* What is known of a list whose bracket opens at o and that has been      *)
(* parsed up to hi.                                                        *)
(***************************************************************************)
PartStarts(w, o, hi) == Starts(w, o + 1, hi, w[o] = "OPEN_PAREN")
PartLast(S, hi, k) == IF k = Cardinality(S) THEN hi ELSE Nth(S, k + 1) - 1
PartEnd(w, S, hi, k) ==
  IF w[PartLast(S, hi, k)] = "COMMA" THEN PartLast(S, hi, k) - 1 ELSE PartLast(S, hi, k)
PartsMean(w, S, hi, parts) ==
  /\ parts = [k \in 1..Cardinality(S) |-> parts[k]]
  /\ \A k \in 1..Cardinality(S) :
       parts[k] = Meaning(w, Nth(S, k), PartEnd(w, S, hi, k)) /\ parts[k] # Malformed
Listed(w, o, hi, parts) ==
  /\ Len(w) \in Nat /\ o \in 1..hi /\ hi \in 1..Len(w) /\ w[o] \in Openers
  /\ Balanced(w, o + 1, hi)
  /\ Ranked(PartStarts(w, o, hi)) /\ PartsMean(w, PartStarts(w, o, hi), hi, parts)

(* The next part may begin at next, where type stands.                     *)
Begins(w, o, next, type) ==
  \/ next = o + 1 \/ w[next - 1] = "COMMA"
  \/ /\ w[o] = "OPEN_PAREN" /\ EndsOperand(w[next - 1])
     /\ getPrecedence(type) < 0 /\ type # "COMMA"

LEMMA InStarts ==
  ASSUME NEW w, NEW o \in Int, NEW hi \in Int, NEW j
  PROVE  j \in PartStarts(w, o, hi) <=>
           /\ j \in Int /\ j # hi + 1
           /\ \/ j = o + 1
              \/ j - 1 \in Outside(w, o + 1, hi) /\ w[j - 1] = "COMMA"
              \/ /\ j \in Outside(w, o + 1, hi)
                 /\ w[o] = "OPEN_PAREN" /\ Adjoins(w, o + 1, j)
<1> DEFINE O == Outside(w, o + 1, hi)
           C == {i + 1 : i \in {m \in O : w[m] = "COMMA"}}
           A == {i \in O : w[o] = "OPEN_PAREN" /\ Adjoins(w, o + 1, i)}
<1>1. \A i \in O : i \in Int
  BY OutsideIsWithin
<1>2. j \in C <=> j \in Int /\ j - 1 \in O /\ w[j - 1] = "COMMA"
  <2> HIDE DEF O
  <2>1. ASSUME j \in C PROVE j \in Int /\ j - 1 \in O /\ w[j - 1] = "COMMA"
    <3>1. PICK i \in O : w[i] = "COMMA" /\ j = i + 1
      BY <2>1
    <3>2. i \in Int /\ j - 1 = i /\ j \in Int
      BY <1>1, <3>1
    <3> QED  BY <3>1, <3>2
  <2>2. ASSUME j \in Int, j - 1 \in O, w[j - 1] = "COMMA" PROVE j \in C
    <3>1. j = (j - 1) + 1
      BY <2>2
    <3> QED  BY <2>2, <3>1
  <2> QED  BY <2>1, <2>2
<1>3. j \in A <=> j \in O /\ w[o] = "OPEN_PAREN" /\ Adjoins(w, o + 1, j)
  OBVIOUS
<1>4. PartStarts(w, o, hi) = ({o + 1} \cup C \cup A) \ {hi + 1}
  BY DEF PartStarts, Starts
<1> HIDE DEF C, A
<1>5. j \in PartStarts(w, o, hi) <=> (j = o + 1 \/ j \in C \/ j \in A) /\ j # hi + 1
  BY <1>4
<1> QED  BY <1>1, <1>2, <1>3, <1>5

LEMMA StartsAreWithin ==
  ASSUME NEW w, NEW o \in Int, NEW hi \in Int, o <= hi
  PROVE  /\ PartStarts(w, o, hi) \in SUBSET ((o + 1)..hi)
         /\ PartStarts(w, o, hi) \in SUBSET Int /\ IsFiniteSet(PartStarts(w, o, hi))
         /\ Cardinality(PartStarts(w, o, hi)) \in Nat
<1>1. ASSUME NEW j \in PartStarts(w, o, hi) PROVE j \in (o + 1)..hi
  <2>1. \A i \in Outside(w, o + 1, hi) : i \in (o + 1)..hi
    BY OutsideIsWithin
  <2>2. /\ j \in Int /\ j # hi + 1
        /\ \/ j = o + 1
           \/ j - 1 \in Outside(w, o + 1, hi) /\ w[j - 1] = "COMMA"
           \/ j \in Outside(w, o + 1, hi)
    BY InStarts
  <2> QED  BY <2>1, <2>2
<1>2. IsFiniteSet((o + 1)..hi)
  BY FS_Interval
<1>3. PartStarts(w, o, hi) \in SUBSET ((o + 1)..hi)
  BY <1>1
<1>4. IsFiniteSet(PartStarts(w, o, hi))
  BY <1>2, <1>3, FS_Subset
<1> QED  BY <1>3, <1>4, FS_CardinalityType


LEMMA NothingListed ==
  ASSUME NEW w, Len(w) \in Nat, NEW o \in 1..Len(w), w[o] \in Openers
  PROVE  Listed(w, o, o, <<>>)
<1>1. o + 1 - 1 = o /\ o + 1 \in Int /\ o \in Int
  OBVIOUS
<1>2. Balanced(w, o + 1, o) /\ Outside(w, o + 1, o) = {}
  <2>1. PICK i \in Int : i = o + 1
    BY <1>1
  <2>2. Balanced(w, i, i - 1) /\ Outside(w, i, i - 1) = {}
    BY Nothing
  <2>3. i - 1 = o
    BY <2>1
  <2> QED  BY <2>1, <2>2, <2>3
<1>3. PartStarts(w, o, o) = {}
  <2>1. ASSUME NEW j \in PartStarts(w, o, o) PROVE FALSE
    <3>1. j \in (o + 1)..o
      BY <1>1, StartsAreWithin
    <3> QED  BY <3>1
  <2> QED  BY <2>1
<1>4. Cardinality(PartStarts(w, o, o)) = 0
  BY <1>3, FS_EmptySet
<1>5. Ranked(PartStarts(w, o, o))
  BY <1>4 DEF Ranked
<1>6. PartsMean(w, PartStarts(w, o, o), o, <<>>)
  BY <1>4 DEF PartsMean
<1> QED  BY <1>1, <1>2, <1>5, <1>6 DEF Listed

LEMMA CommaOutside ==
  ASSUME NEW w, NEW lo \in Int, NEW hi \in Int, lo <= hi, Balanced(w, lo, hi), w[hi] = "COMMA"
  PROVE  hi \in Outside(w, lo, hi)
<1>1. Depth(w, hi, hi + 1) = 0
  <2>1. w[hi] \notin Openers /\ w[hi] \notin Closers
    BY DEF Openers, Closers
  <2> QED  BY <2>1, DepthOne
<1>2. /\ Depth(w, lo, hi + 1) = Depth(w, lo, hi) + Depth(w, hi, hi + 1)
      /\ Depth(w, lo, hi) \in Int
  BY DepthAdds
<1>3. Depth(w, lo, hi) = 0
  BY <1>1, <1>2 DEF Balanced
<1> QED  BY <1>3 DEF Outside

LEMMA StartsAdd ==
  ASSUME NEW w, NEW o \in Nat, NEW hi \in Nat, o <= hi, Balanced(w, o + 1, hi), NEW last, NEW node,
         Begins(w, o, hi + 1, w[hi + 1]), Expr(w, hi + 1, last, node)
  PROVE  /\ Balanced(w, o + 1, last)
         /\ PartStarts(w, o, last) = PartStarts(w, o, hi) \cup {hi + 1}
<1> DEFINE lo == o + 1
           x == hi + 1
           b == w[o] = "OPEN_PAREN"
           O1 == Outside(w, lo, hi)
           O2 == Outside(w, lo, last)
           O3 == Outside(w, x, last)
<1>0. /\ o \in Int /\ hi \in Int /\ last \in Int /\ lo \in Int /\ x \in Int
      /\ lo <= hi + 1 /\ hi <= last /\ x <= last /\ lo <= x /\ x = hi + 1 /\ x - 1 = hi
  BY DEF Expr
<1>1. Balanced(w, lo, last) /\ O2 = O1 \cup O3
  <2>1. Balanced(w, hi + 1, last)
    BY DEF Expr
  <2>2. Balanced(w, lo, last) /\ Splits(w, lo, hi, last)
    BY <1>0, <2>1, Joined
  <2> QED  BY <2>2 DEF Splits
<1>2. /\ \A j \in O1 : j \in lo..hi
      /\ \A j \in O3 : j \in x..last
  BY OutsideIsWithin
<1>3. \A j \in O3 : w[j] # "COMMA" /\ (j > x => ~ (EndsOperand(w[j - 1]) /\ w[j] \in Literals \cup {"NOT"}))
  BY DEF Expr, Unsplit
<1>4. x \in O3
  BY <1>0, DepthNone DEF Outside
<1>5. \A j : j \in PartStarts(w, o, last) <=>
           /\ j \in Int /\ j # last + 1
           /\ \/ j = lo
              \/ j - 1 \in O2 /\ w[j - 1] = "COMMA"
              \/ j \in O2 /\ b /\ Adjoins(w, lo, j)
  BY <1>0, InStarts
<1>6. \A j : j \in PartStarts(w, o, hi) <=>
           /\ j \in Int /\ j # hi + 1
           /\ \/ j = lo
              \/ j - 1 \in O1 /\ w[j - 1] = "COMMA"
              \/ j \in O1 /\ b /\ Adjoins(w, lo, j)
  BY <1>0, InStarts
<1>7. x = lo \/ (hi \in O1 /\ w[hi] = "COMMA") \/ (b /\ Adjoins(w, lo, x))
  <2>1. CASE x = o + 1
    BY <2>1
  <2>2. CASE x # o + 1 /\ w[x - 1] = "COMMA"
    <3>1. lo <= hi /\ w[hi] = "COMMA"
      BY <1>0, <2>2
    <3>2. hi \in Outside(w, lo, hi)
      BY <1>0, <3>1, CommaOutside
    <3> QED  BY <3>1, <3>2
  <2>3. CASE x # o + 1 /\ b /\ EndsOperand(w[x - 1]) /\ getPrecedence(w[x]) < 0
    <3>1. x > lo
      BY <1>0, <2>3
    <3>2. w[x] \in BeginsOperand
      BY DEF Expr
    <3>3. w[x] \in Literals \cup {"NOT"}
      BY <2>3, <3>2, StartsAlone
    <3> QED  BY <2>3, <3>1, <3>3 DEF Adjoins
  <2> QED  BY <2>1, <2>2, <2>3 DEF Begins
<1>8. \A j \in PartStarts(w, o, hi) : j \in lo..hi
  BY <1>0, StartsAreWithin
<1>9. \A j : Adjoins(w, lo, j) => EndsOperand(w[j - 1]) /\ w[j] \in Literals \cup {"NOT"}
  BY DEF Adjoins
<1> HIDE DEF lo, x, b, O1, O2, O3
<1>10. ASSUME NEW j \in PartStarts(w, o, hi) PROVE j \in PartStarts(w, o, last)
  <2>1. j # last + 1
    BY <1>0, <1>8
  <2> QED  BY <1>1, <1>5, <1>6, <2>1
<1>11. x \in PartStarts(w, o, last)
  BY <1>0, <1>1, <1>4, <1>5, <1>7
<1>12. ASSUME NEW j \in PartStarts(w, o, last), j # x PROVE j \in PartStarts(w, o, hi)
  <2>1. /\ j \in Int /\ j # last + 1
        /\ \/ j = lo
           \/ j - 1 \in O2 /\ w[j - 1] = "COMMA"
           \/ j \in O2 /\ b /\ Adjoins(w, lo, j)
    BY <1>5
  <2>2. CASE j = lo
    BY <1>0, <1>6, <1>12, <2>1, <2>2
  <2>3. CASE j - 1 \in O2 /\ w[j - 1] = "COMMA"
    BY <1>0, <1>1, <1>3, <1>6, <1>12, <2>1, <2>3
  <2>4. CASE j \in O2 /\ b /\ Adjoins(w, lo, j)
    <3>1. j \notin O3
      <4>1. ASSUME j \in O3 PROVE FALSE
        <5>1. j > x
          BY <1>0, <1>2, <1>12, <4>1
        <5> QED  BY <1>3, <1>9, <2>4, <4>1, <5>1
      <4> QED  BY <4>1
    <3> QED  BY <1>0, <1>1, <1>6, <1>12, <2>1, <2>4, <3>1
  <2> QED  BY <2>1, <2>2, <2>3, <2>4
<1>13. PartStarts(w, o, last) = PartStarts(w, o, hi) \cup {x}
  BY <1>10, <1>11, <1>12
<1> QED  BY <1>1, <1>13 DEF lo, x

LEMMA Appended ==
  ASSUME NEW n \in Nat, NEW s, s = [k \in 1..n |-> s[k]], NEW t
  PROVE  Append(s, t) = [k \in 1..(n + 1) |-> IF k <= n THEN s[k] ELSE t]
<1> DEFINE X == {s[k] : k \in 1..n} \cup {t}
<1>1. t \in X /\ \A k \in 1..n : s[k] \in X
  OBVIOUS
<1> HIDE DEF X
<1>2. s \in Seq(X) /\ Len(s) = n
  BY <1>1, Made
<1>3. Append(s, t) \in Seq(X) /\ Len(Append(s, t)) = n + 1
  BY <1>1, <1>2, AppendProperties
<1>4. DOMAIN Append(s, t) = 1..(n + 1)
  BY <1>3, Elements
<1>5. \A k \in 1..(n + 1) : Append(s, t)[k] = IF k <= n THEN s[k] ELSE t
  BY <1>1, <1>2, AppendProperties
<1>6. Append(s, t) = [k \in DOMAIN Append(s, t) |-> Append(s, t)[k]]
  BY <1>3, SeqDef
<1> QED  BY <1>4, <1>5, <1>6

LEMMA PartAdds ==
  ASSUME NEW w, NEW o, NEW hi, NEW parts, Listed(w, o, hi, parts), NEW last, NEW node,
         Begins(w, o, hi + 1, w[hi + 1]), Expr(w, hi + 1, last, node)
  PROVE  Listed(w, o, last, Append(parts, node))
<1> DEFINE S == PartStarts(w, o, hi)
           T == PartStarts(w, o, last)
           n == Cardinality(S)
           x == hi + 1
           made == Append(parts, node)
<1>0. /\ Len(w) \in Nat /\ o \in Nat /\ hi \in Nat /\ o <= hi /\ o \in 1..last /\ o \in Int
      /\ hi \in Int /\ last \in 1..Len(w) /\ w[o] \in Openers /\ x - 1 = hi /\ x \in Int
      /\ last \in Int
  BY DEF Listed, Expr
<1>1. Balanced(w, o + 1, last) /\ T = S \cup {x}
  <2>1. Balanced(w, o + 1, hi)
    BY DEF Listed
  <2>2. /\ Balanced(w, o + 1, last)
        /\ PartStarts(w, o, last) = PartStarts(w, o, hi) \cup {hi + 1}
    BY <1>0, <2>1, StartsAdd
  <2> QED  BY <2>2
<1>2. S \in SUBSET ((o + 1)..hi) /\ S \in SUBSET Int /\ IsFiniteSet(S) /\ n \in Nat
  BY <1>0, StartsAreWithin
<1>3. Ranked(S) /\ PartsMean(w, S, hi, parts)
  BY DEF Listed
<1>4. \A j \in S : j < x
  BY <1>0, <1>2
<1>5. node = Meaning(w, x, last) /\ node # Malformed
  BY DEF Expr
<1>6. w[last] # "COMMA"
  <2>1. EndsOperand(w[last])
    BY DEF Expr
  <2> QED  BY <2>1 DEF EndsOperand, Literals, Closers
<1> HIDE DEF S, T, x
<1>7. /\ Cardinality(T) = n + 1 /\ Ranked(T) /\ Nth(T, n + 1) = x
      /\ \A k \in 1..n : Nth(T, k) = Nth(S, k)
  BY <1>0, <1>1, <1>2, <1>3, <1>4, RankedAdds
<1>8. \A k \in 1..n : parts[k] = Meaning(w, Nth(S, k), PartEnd(w, S, hi, k)) /\ parts[k] # Malformed
  BY <1>3 DEF PartsMean
<1>9. made = [k \in 1..(n + 1) |-> IF k <= n THEN parts[k] ELSE node]
  <2>1. parts = [k \in 1..n |-> parts[k]]
    BY <1>3 DEF PartsMean
  <2> HIDE DEF n
  <2> QED  BY <1>2, <2>1, Appended
<1>10. ASSUME NEW k \in 1..n PROVE PartEnd(w, T, last, k) = PartEnd(w, S, hi, k)
  <2>1. PartLast(T, last, k) = Nth(T, k + 1) - 1
    BY <1>2, <1>7 DEF PartLast
  <2>2. CASE k = n
    <3>1. PartLast(S, hi, k) = hi
      BY <2>2 DEF PartLast
    <3>2. PartLast(T, last, k) = hi
      BY <1>0, <1>7, <2>1, <2>2
    <3> QED  BY <3>1, <3>2 DEF PartEnd
  <2>3. CASE k # n
    <3>1. k + 1 \in 1..n
      BY <1>2, <2>3
    <3>2. PartLast(S, hi, k) = Nth(S, k + 1) - 1
      BY <2>3 DEF PartLast
    <3>3. PartLast(T, last, k) = PartLast(S, hi, k)
      BY <1>7, <2>1, <3>1, <3>2
    <3> QED  BY <3>3 DEF PartEnd
  <2> QED  BY <2>2, <2>3
<1>11. PartEnd(w, T, last, n + 1) = last
  <2>1. PartLast(T, last, n + 1) = last
    BY <1>7 DEF PartLast
  <2> QED  BY <1>6, <2>1 DEF PartEnd
<1> HIDE DEF n, made
<1>12. ASSUME NEW k \in 1..(n + 1)
       PROVE  made[k] = Meaning(w, Nth(T, k), PartEnd(w, T, last, k)) /\ made[k] # Malformed
  <2>1. CASE k <= n
    <3>1. k \in 1..n
      BY <1>2, <2>1
    <3>2. made[k] = parts[k]
      BY <1>9, <2>1
    <3> QED  BY <1>7, <1>8, <1>10, <3>1, <3>2
  <2>2. CASE ~ (k <= n)
    <3>1. k = n + 1
      BY <1>2, <2>2
    <3>2. made[k] = node
      BY <1>9, <2>2
    <3> QED  BY <1>5, <1>7, <1>11, <3>1, <3>2
  <2> QED  BY <2>1, <2>2
<1>13. made = [k \in 1..(n + 1) |-> made[k]]
  BY <1>9
<1>14. PartsMean(w, T, last, made)
  BY <1>7, <1>12, <1>13 DEF PartsMean
<1> QED  BY <1>0, <1>1, <1>7, <1>14 DEF Listed, T, made


LEMMA CommaAdds ==
  ASSUME NEW w, NEW o, NEW hi, NEW parts, Listed(w, o, hi, parts), o < hi,
         EndsOperand(w[hi]), hi + 1 <= Len(w), w[hi + 1] = "COMMA"
  PROVE  Listed(w, o, hi + 1, parts)
<1> DEFINE S == PartStarts(w, o, hi)
           T == PartStarts(w, o, hi + 1)
           x == hi + 1
           n == Cardinality(S)
           O1 == Outside(w, o + 1, hi)
           O2 == Outside(w, o + 1, hi + 1)
<1>0. /\ Len(w) \in Nat /\ o \in 1..(hi + 1) /\ o \in Int /\ hi \in Int /\ hi + 1 \in Int
      /\ hi + 1 \in 1..Len(w) /\ w[o] \in Openers /\ o <= hi /\ x = hi + 1 /\ x \in Int
      /\ o + 1 \in Int /\ x - 1 = hi
  BY DEF Listed
<1>1. w[hi] # "COMMA"
  BY DEF EndsOperand, Literals, Closers
<1>2. x \notin {} /\ w[x] \notin Literals \cup {"NOT"} /\ w[x] \notin Openers \cup Closers
  BY DEF Literals, Openers, Closers
<1>3. Balanced(w, o + 1, x) /\ O2 = O1 \cup {x}
  <2>1. Balanced(w, x, x) /\ Outside(w, x, x) = {x}
    BY <1>0, <1>2, Alone
  <2>2. Balanced(w, o + 1, hi)
    BY DEF Listed
  <2>3. o + 1 <= hi + 1 /\ hi <= x
    BY <1>0
  <2>4. Balanced(w, hi + 1, x)
    BY <2>1
  <2>5. Balanced(w, o + 1, x) /\ Splits(w, o + 1, hi, x)
    <3> HIDE DEF x
    <3> QED  BY <1>0, <2>2, <2>3, <2>4, Joined
  <2> QED  BY <2>1, <2>5 DEF Splits
<1>4. \A j \in O1 : j \in (o + 1)..hi
  BY OutsideIsWithin
<1>5. \A j : j \in T <=>
           /\ j \in Int /\ j # hi + 1 + 1
           /\ \/ j = o + 1
              \/ j - 1 \in O2 /\ w[j - 1] = "COMMA"
              \/ /\ j \in O2
                 /\ w[o] = "OPEN_PAREN" /\ Adjoins(w, o + 1, j)
  BY <1>0, InStarts
<1>6. \A j : j \in S <=>
           /\ j \in Int /\ j # hi + 1
           /\ \/ j = o + 1
              \/ j - 1 \in O1 /\ w[j - 1] = "COMMA"
              \/ /\ j \in O1
                 /\ w[o] = "OPEN_PAREN" /\ Adjoins(w, o + 1, j)
  BY <1>0, InStarts
<1>7. \A j \in S : j \in (o + 1)..hi
  BY <1>0, StartsAreWithin
<1>8. \A j : Adjoins(w, o + 1, j) => w[j] \in Literals \cup {"NOT"}
  BY DEF Adjoins
<1>9. n \in Nat /\ Ranked(S) /\ PartsMean(w, S, hi, parts)
  BY <1>0, StartsAreWithin DEF Listed
<1> HIDE DEF S, T, O1, O2, x
<1>10. T = S
  <2>1. ASSUME NEW j \in S PROVE j \in T
    <3>1. j \in Int /\ j # hi + 1 + 1
      BY <1>0, <1>7
    <3> QED  BY <1>3, <1>5, <1>6, <3>1
  <2>2. ASSUME NEW j \in T PROVE j \in S
    <3>1. j \in Int /\ j # hi + 1 + 1
      BY <1>5
    <3>2. CASE j = o + 1
      <4>1. j # hi + 1
        BY <1>0, <3>2
      <4> QED  BY <1>6, <3>1, <3>2, <4>1
    <3>3. CASE j - 1 \in O2 /\ w[j - 1] = "COMMA"
      <4>1. j - 1 # x
        BY <1>0, <3>1
      <4>2. j - 1 \in O1
        BY <1>3, <3>3, <4>1
      <4>3. j # hi + 1
        <5>1. ASSUME j = hi + 1 PROVE FALSE
          <6>1. j - 1 = hi
            BY <1>0, <5>1
          <6> QED  BY <1>1, <3>3, <6>1
        <5> QED  BY <5>1
      <4> QED  BY <1>6, <3>1, <3>3, <4>2, <4>3
    <3>4. CASE j \in O2 /\ w[o] = "OPEN_PAREN" /\ Adjoins(w, o + 1, j)
      <4>1. j # x
        BY <1>2, <1>8, <3>4
      <4> QED  BY <1>0, <1>3, <1>6, <3>1, <3>4, <4>1
    <3> QED  BY <1>5, <3>2, <3>3, <3>4
  <2> QED  BY <2>1, <2>2
<1>11. ASSUME NEW k \in 1..n PROVE PartEnd(w, S, x, k) = PartEnd(w, S, hi, k)
  <2>1. CASE k = n
    <3>1. PartLast(S, hi, k) = hi /\ PartLast(S, x, k) = x
      BY <2>1 DEF PartLast
    <3>2. PartEnd(w, S, x, k) = x - 1
      BY <1>0, <3>1 DEF PartEnd
    <3>3. PartEnd(w, S, hi, k) = hi
      BY <1>1, <3>1 DEF PartEnd
    <3> QED  BY <1>0, <3>2, <3>3
  <2>2. CASE k # n
    <3>1. PartLast(S, hi, k) = PartLast(S, x, k)
      BY <2>2 DEF PartLast
    <3> QED  BY <3>1 DEF PartEnd
  <2> QED  BY <2>1, <2>2
<1>12. PartsMean(w, T, x, parts)
  BY <1>9, <1>10, <1>11 DEF PartsMean
<1> QED  BY <1>0, <1>3, <1>9, <1>10, <1>12 DEF Listed, T, x

(* What Composed makes of a list, given the meanings of the pieces of at   *)
(* most some size.                                                         *)
Meant(w, f, size) ==
  \A a \in 1..(Len(w) + 1) : \A c \in 0..Len(w) : c - a <= size => f[<<a, c>>] = Meaning(w, a, c)

LEMMA ListIs ==
  ASSUME NEW w, NEW o, NEW hi, NEW parts, Listed(w, o, hi, parts), NEW f,
         Meant(w, f, hi - o - 1)
  PROVE  List(f, w, o + 1, hi, w[o] = "OPEN_PAREN") = parts
<1> DEFINE S == PartStarts(w, o, hi)
           n == Cardinality(S)
<1>0. Len(w) \in Nat /\ o \in Int /\ hi \in Int /\ 1 <= o /\ o <= hi /\ hi <= Len(w)
  BY DEF Listed
<1>1. Ranked(S) /\ PartsMean(w, S, hi, parts)
  BY DEF Listed
<1>2. S \in SUBSET ((o + 1)..hi) /\ n \in Nat
  BY <1>0, StartsAreWithin
<1>3. List(f, w, o + 1, hi, w[o] = "OPEN_PAREN") =
        [k \in 1..n |-> f[<<Nth(S, k), PartEnd(w, S, hi, k)>>]]
  BY DEF List, PartEnd, PartLast, PartStarts
<1> HIDE DEF S
<1>4. ASSUME NEW k \in 1..n
      PROVE  f[<<Nth(S, k), PartEnd(w, S, hi, k)>>] = parts[k]
  <2>1. \A i \in 1..n : Nth(S, i) \in (o + 1)..hi
    BY <1>1, <1>2 DEF Ranked
  <2>2. PartLast(S, hi, k) \in o..hi
    <3>1. CASE k = n
      BY <1>0, <3>1 DEF PartLast
    <3>2. CASE k # n
      <4>1. k + 1 \in 1..n
        BY <1>2, <3>2
      <4>2. Nth(S, k + 1) \in (o + 1)..hi
        BY <2>1, <4>1
      <4> QED  BY <1>0, <3>2, <4>2 DEF PartLast
    <3> QED  BY <3>1, <3>2
  <2>3. PartEnd(w, S, hi, k) \in (o - 1)..hi
    BY <1>0, <2>2 DEF PartEnd
  <2>4. Nth(S, k) \in (o + 1)..hi
    BY <2>1
  <2>5. PICK a \in Int, c \in Int : a = Nth(S, k) /\ c = PartEnd(w, S, hi, k)
    BY <2>3, <2>4
  <2>6. a \in 1..(Len(w) + 1) /\ c \in 0..Len(w) /\ c - a <= hi - o - 1
    BY <1>0, <2>3, <2>4, <2>5
  <2>7. f[<<a, c>>] = Meaning(w, a, c)
    BY <2>6 DEF Meant
  <2>8. parts[k] = Meaning(w, Nth(S, k), PartEnd(w, S, hi, k))
    BY <1>1 DEF PartsMean
  <2> QED  BY <2>5, <2>7, <2>8
<1>5. parts = [k \in 1..n |-> parts[k]]
  BY <1>1 DEF PartsMean
<1> QED  BY <1>3, <1>4, <1>5

LEMMA ExprArray ==
  ASSUME NEW w, NEW lo \in Int, NEW hi \in Int, hi <= Len(w), NEW parts,
         w[lo] = "OPEN_BRACKET", w[hi] = "CLOSE_BRACKET", Listed(w, lo, hi - 1, parts)
  PROVE  Expr(w, lo, hi, ArrayNode(parts)) /\ Primary(w, lo, hi)
<1>0. Len(w) \in Nat /\ lo < hi /\ lo \in 1..hi /\ hi \in 1..Len(w)
  BY DEF Listed
<1>1. w[lo] \in Openers /\ w[hi] \in Closers
  BY DEF Openers, Closers
<1>2. Balanced(w, lo, lo - 1) /\ Outside(w, lo, lo - 1) = {}
  BY Nothing
<1>3. Unsplit(w, lo, lo - 1) /\ NoOperator(w, lo, lo - 1)
  BY <1>2 DEF Unsplit, BinaryOperators, NoOperator
<1>4. Ended(w, lo, lo, hi)
  <2>1. Balanced(w, lo + 1, hi - 1) /\ lo <= lo
    BY <1>0 DEF Listed
  <2> QED  BY <1>0, <1>1, <1>2, <1>3, <2>1, Postfixed
<1>5. w[lo] \notin UnaryOperators /\ w[lo] \in BeginsOperand /\ EndsOperand(w[hi])
  BY <1>1, BracketIsPlain
<1>6. Meaning(w, lo, hi) = ArrayNode(parts)
  <2>1. Meaning(w, lo, hi) = Composed(Meanings(w, lo, hi), w, lo, hi)
    BY <1>0, MeaningIs
  <2> DEFINE f == Meanings(w, lo, hi)
             list == List(f, w, lo + 1, hi - 1, w[lo] = "OPEN_PAREN")
  <2>2. list = parts
    <3>1. ASSUME NEW a \in 1..(Len(w) + 1), NEW c \in 0..Len(w), c - a <= hi - 1 - lo - 1
          PROVE  f[<<a, c>>] = Meaning(w, a, c)
      <4>1. c - a < hi - lo
        BY <3>1
      <4> QED  BY <1>0, <4>1, MeaningsAt
    <3>2. Meant(w, f, hi - 1 - lo - 1)
      BY <3>1 DEF Meant
    <3> HIDE DEF f
    <3> QED  BY <3>2, ListIs
  <2>3. Composed(f, w, lo, hi) = Valid(list, ArrayNode(list))
    <3>1. ~ (lo > hi) /\ ~ (lo = hi) /\ Matches(w[lo], w[hi]) /\ w[lo] # "OPEN_PAREN"
      BY <1>0 DEF Matches
    <3> HIDE DEF f
    <3> QED  BY <1>4, <1>5, <3>1 DEF Composed, Ended
  <2>4. Valid(parts, ArrayNode(parts)) = ArrayNode(parts)
    <3>1. ASSUME NEW k \in DOMAIN parts PROVE parts[k] # Malformed
      BY DEF Listed, PartsMean
    <3> QED  BY <3>1 DEF Valid
  <2> QED  BY <2>1, <2>2, <2>3, <2>4
<1>7. ArrayNode(parts) # Malformed
  BY DEF ArrayNode, Malformed
<1> QED  BY <1>0, <1>4, <1>5, <1>6, <1>7 DEF Expr, Primary, Ended

LEMMA ExprCall ==
  ASSUME NEW w, NEW lo, NEW o \in Int, NEW hi \in Int, hi <= Len(w), NEW a, NEW parts,
         Expr(w, lo, o - 1, a), Primary(w, lo, o - 1), w[o] = "OPEN_PAREN",
         w[hi] = "CLOSE_PAREN", Listed(w, o, hi - 1, parts)
  PROVE  Expr(w, lo, hi, CallNode(a, parts)) /\ Primary(w, lo, hi)
<1>0. /\ Len(w) \in Nat /\ lo \in Int /\ 1 <= lo /\ lo < o /\ o < hi
      /\ lo \in 1..hi /\ hi \in 1..Len(w)
  BY DEF Expr, Listed
<1>1. w[o] \in Openers /\ w[hi] \in Closers
  BY DEF Openers, Closers
<1>2. /\ Balanced(w, lo, o - 1) /\ Unsplit(w, lo, o - 1) /\ NoOperator(w, lo, o - 1)
      /\ w[lo] \notin UnaryOperators /\ w[lo] \in BeginsOperand /\ Balanced(w, o + 1, hi - 1)
  BY DEF Expr, Primary, NoOperator, Listed
<1>3. Ended(w, lo, o, hi)
  <2>1. lo <= o /\ o < hi
    BY <1>0
  <2> QED  BY <1>0, <1>1, <1>2, <2>1, Postfixed
<1>4. EndsOperand(w[hi])
  BY <1>1, BracketIsPlain
<1>5. Meaning(w, lo, hi) = CallNode(a, parts)
  <2>1. Meaning(w, lo, hi) = Composed(Meanings(w, lo, hi), w, lo, hi)
    BY <1>0, MeaningIs
  <2> DEFINE f == Meanings(w, lo, hi)
             callee == f[<<lo, o - 1>>]
             list == List(f, w, o + 1, hi - 1, w[o] = "OPEN_PAREN")
  <2>2. callee = a
    <3>1. lo \in 1..(Len(w) + 1) /\ o - 1 \in 0..Len(w) /\ o - 1 - lo < hi - lo
      BY <1>0
    <3>2. Meanings(w, lo, hi)[<<lo, o - 1>>] = Meaning(w, lo, o - 1)
      BY <1>0, <3>1, MeaningsAt
    <3> QED  BY <3>2 DEF Expr
  <2>3. list = parts
    <3>1. ASSUME NEW b \in 1..(Len(w) + 1), NEW c \in 0..Len(w), c - b <= hi - 1 - o - 1
          PROVE  f[<<b, c>>] = Meaning(w, b, c)
      <4>1. c - b < hi - lo
        BY <1>0, <3>1
      <4> QED  BY <1>0, <4>1, MeaningsAt
    <3>2. Meant(w, f, hi - 1 - o - 1)
      BY <3>1 DEF Meant
    <3> HIDE DEF f
    <3> QED  BY <3>2, ListIs
  <2>4. Composed(f, w, lo, hi) = Valid(<<callee>> \o list, CallNode(callee, list))
    <3>1. ~ (lo > hi) /\ ~ (lo = hi) /\ Matches(w[o], w[hi]) /\ o # lo
      BY <1>0 DEF Matches
    <3> HIDE DEF f
    <3> QED  BY <1>2, <1>3, <3>1 DEF Composed, Ended
  <2>5. Valid(<<a>> \o parts, CallNode(a, parts)) = CallNode(a, parts)
    <3> DEFINE n == Cardinality(PartStarts(w, o, hi - 1))
               X == {parts[k] : k \in 1..n} \cup {a}
    <3>1. parts = [k \in 1..n |-> parts[k]] /\ \A k \in 1..n : parts[k] # Malformed
      BY DEF Listed, PartsMean
    <3>2. n \in Nat
      <4>1. hi - 1 \in Int /\ o <= hi - 1
        BY <1>0
      <4> QED  BY <4>1, StartsAreWithin
    <3>3. a # Malformed
      BY DEF Expr
    <3> HIDE DEF n
    <3>4. a \in X /\ \A k \in 1..n : parts[k] \in X
      OBVIOUS
    <3>5. Malformed \notin X
      BY <3>1, <3>3
    <3> HIDE DEF X
    <3>6. parts \in Seq(X)
      BY <3>1, <3>2, <3>4, Made
    <3>7. <<a>> \in Seq(X)
      BY <3>4
    <3>8. <<a>> \o parts \in Seq(X)
      BY <3>6, <3>7, ConcatProperties
    <3>9. \A k \in DOMAIN (<<a>> \o parts) : (<<a>> \o parts)[k] \in X
      BY <3>8, Elements
    <3> QED  BY <3>5, <3>9 DEF Valid
  <2> QED  BY <2>1, <2>2, <2>3, <2>4, <2>5
<1>6. CallNode(a, parts) # Malformed
  BY DEF CallNode, Malformed
<1> QED  BY <1>0, <1>2, <1>3, <1>4, <1>5, <1>6 DEF Expr, Primary, Ended


(***************************************************************************)
(* Stacks of frames: the one at m is replaced, the others from m on are    *)
(* left, and an operand may be called.                                     *)
(***************************************************************************)
Working == {"operand", "loop", "call", "array"}
Awaiting == Sites \ {"operand", "loop"}
Bracketing == {"group", "index", "call", "array"}

WellMade(f, n) ==
  /\ f = [at |-> f.at, min |-> f.min, op |-> f.op, left |-> f.left, parts |-> f.parts]
  /\ f.min \in {0, 6, 11, 21, 31, 40} /\ f.op \in 0..n
  /\ f.left = NoExpr <=> f.at \in {"operand", "unary", "group", "array"}
Stack(fs) == Len(fs) \in Nat /\ fs = [k \in 1..Len(fs) |-> fs[k]]
Stacked(fs, n) ==
  /\ Stack(fs)
  /\ \A k \in 1..Len(fs) :
       /\ WellMade(fs[k], n)
       /\ fs[k].at \in IF k = Len(fs) THEN Working ELSE Awaiting

Replaces(fs, gs, m, f) ==
  /\ Stack(gs) /\ Len(gs) = m /\ gs[m] = f
  /\ \A k \in 1..(m - 1) : gs[k] = fs[k]
Pushes(fs, gs, m, f, min) ==
  /\ Stack(gs) /\ Len(gs) = m + 1 /\ gs[m] = f /\ gs[m + 1] = Operand(min)
  /\ \A k \in 1..(m - 1) : gs[k] = fs[k]

LEMMA StackIsSequence ==
  ASSUME NEW fs, Stack(fs)
  PROVE  \E X : fs \in Seq(X) /\ \A k \in 1..Len(fs) : fs[k] \in X
<1> DEFINE X == {fs[k] : k \in 1..Len(fs)}
<1>1. \A k \in 1..Len(fs) : fs[k] \in X
  OBVIOUS
<1> HIDE DEF X
<1>2. fs \in Seq(X)
  BY <1>1, Made DEF Stack
<1> QED  BY <1>1, <1>2

LEMMA SequenceIsStack ==
  ASSUME NEW X, NEW fs \in Seq(X)
  PROVE  Stack(fs)
<1>1. Len(fs) \in Nat /\ DOMAIN fs = 1..Len(fs)
  BY Elements
<1>2. fs = [k \in DOMAIN fs |-> fs[k]]
  BY SeqDef
<1> QED  BY <1>1, <1>2 DEF Stack

LEMMA ReplacedIs ==
  ASSUME NEW fs, Stack(fs), NEW m \in 1..Len(fs), NEW f
  PROVE  Replaces(fs, Append(SubSeq(fs, 1, m - 1), f), m, f)
<1> DEFINE s == SubSeq(fs, 1, m - 1)
           gs == Append(s, f)
<1>0. Len(fs) \in Nat
  BY DEF Stack
<1>1. PICK X : fs \in Seq(X)
  BY StackIsSequence
<1>2. s \in Seq(X) /\ Len(s) = m - 1 /\ \A k \in 1..(m - 1) : s[k] = fs[k]
  BY <1>0, <1>1, SubSeqProperties
<1> DEFINE Y == X \cup {f}
<1>3. f \in Y /\ X \subseteq Y
  OBVIOUS
<1> HIDE DEF s, Y
<1>4. \A k \in 1..Len(s) : s[k] \in Y
  BY <1>2, <1>3, Elements
<1>5. s = [k \in 1..Len(s) |-> s[k]] /\ Len(s) \in Nat
  BY <1>2, SequenceIsStack DEF Stack
<1>6. s \in Seq(Y)
  BY <1>4, <1>5, Made
<1>7. gs \in Seq(Y) /\ Len(gs) = m - 1 + 1 /\ gs[m - 1 + 1] = f /\ \A k \in 1..(m - 1) : gs[k] = s[k]
  BY <1>2, <1>3, <1>6, AppendProperties
<1>8. Stack(gs)
  BY <1>7, SequenceIsStack
<1> HIDE DEF gs
<1>9. m - 1 + 1 = m
  OBVIOUS
<1>10. Replaces(fs, gs, m, f)
  BY <1>2, <1>7, <1>8, <1>9 DEF Replaces
<1> QED  BY <1>10 DEF gs, s

LEMMA PushedIs ==
  ASSUME NEW fs, Stack(fs), NEW m \in 1..Len(fs), NEW f, NEW min
  PROVE  Pushes(fs, SubSeq(fs, 1, m - 1) \o <<f, Operand(min)>>, m, f, min)
<1> DEFINE s == SubSeq(fs, 1, m - 1)
           g == Operand(min)
           gs == s \o <<f, g>>
<1>0. Len(fs) \in Nat
  BY DEF Stack
<1>1. PICK X : fs \in Seq(X)
  BY StackIsSequence
<1>2. s \in Seq(X) /\ Len(s) = m - 1 /\ \A k \in 1..(m - 1) : s[k] = fs[k]
  BY <1>0, <1>1, SubSeqProperties
<1> DEFINE Y == X \cup {f, g}
<1>3. f \in Y /\ g \in Y /\ X \subseteq Y
  OBVIOUS
<1> HIDE DEF s, Y, g
<1>4. \A k \in 1..Len(s) : s[k] \in Y
  BY <1>2, <1>3, Elements
<1>5. s = [k \in 1..Len(s) |-> s[k]] /\ Len(s) \in Nat
  BY <1>2, SequenceIsStack DEF Stack
<1>6. s \in Seq(Y)
  BY <1>4, <1>5, Made
<1>7. <<f, g>> \in Seq(Y) /\ Len(<<f, g>>) = 2
  BY <1>3
<1>8. /\ gs \in Seq(Y) /\ Len(gs) = m - 1 + 2
      /\ \A k \in 1..(m - 1 + 2) : gs[k] = IF k <= m - 1 THEN s[k] ELSE <<f, g>>[k - (m - 1)]
  BY <1>2, <1>6, <1>7, ConcatProperties
<1>9. Stack(gs)
  BY <1>8, SequenceIsStack
<1> HIDE DEF gs
<1>10. gs[m] = f /\ gs[m + 1] = g /\ Len(gs) = m + 1
  <2>1. m - (m - 1) = 1 /\ m + 1 - (m - 1) = 2 /\ m \in 1..(m - 1 + 2) /\ m + 1 \in 1..(m - 1 + 2)
        /\ m - 1 + 2 = m + 1 /\ ~ (m <= m - 1) /\ ~ (m + 1 <= m - 1)
    OBVIOUS
  <2> QED  BY <1>8, <2>1
<1>11. \A k \in 1..(m - 1) : gs[k] = fs[k]
  BY <1>2, <1>8
<1>12. Pushes(fs, gs, m, f, min)
  BY <1>9, <1>10, <1>11 DEF Pushes, g
<1> QED  BY <1>12 DEF gs, s, g

LEMMA AppendedIs ==
  ASSUME NEW fs, Stack(fs), Len(fs) > 0, NEW min
  PROVE  Pushes(fs, Append(fs, Operand(min)), Len(fs), fs[Len(fs)], min)
<1> DEFINE g == Operand(min)
           gs == Append(fs, g)
           Y == {fs[k] : k \in 1..Len(fs)} \cup {g}
<1>0. Len(fs) \in Nat /\ fs = [k \in 1..Len(fs) |-> fs[k]]
  BY DEF Stack
<1>1. g \in Y /\ \A k \in 1..Len(fs) : fs[k] \in Y
  OBVIOUS
<1> HIDE DEF g, Y
<1>2. fs \in Seq(Y)
  BY <1>0, <1>1, Made
<1>3. gs \in Seq(Y) /\ Len(gs) = Len(fs) + 1 /\ gs[Len(fs) + 1] = g
      /\ \A k \in 1..Len(fs) : gs[k] = fs[k]
  BY <1>1, <1>2, AppendProperties
<1>4. Stack(gs)
  BY <1>3, SequenceIsStack
<1>5. Len(fs) \in 1..Len(fs) /\ \A k \in 1..(Len(fs) - 1) : k \in 1..Len(fs)
  BY <1>0
<1> HIDE DEF gs
<1>6. Pushes(fs, gs, Len(fs), fs[Len(fs)], min)
  BY <1>3, <1>4, <1>5 DEF Pushes, g
<1> QED  BY <1>6 DEF gs, g

LEMMA StackReplaced ==
  ASSUME NEW fs, NEW n \in Nat, NEW p \in Nat, Stacked(fs, n), n <= p, NEW m \in 1..Len(fs),
         NEW f, NEW gs, Replaces(fs, gs, m, f), WellMade(f, p), f.at \in Working
  PROVE  Stacked(gs, p)
<1>0. Len(fs) \in Nat /\ Len(gs) = m /\ Stack(gs)
  BY DEF Stacked, Stack, Replaces
<1>1. ASSUME NEW k \in 1..(m - 1)
      PROVE  WellMade(gs[k], p) /\ gs[k].at \in Awaiting
  <2>1. k \in 1..Len(fs) /\ k # Len(fs) /\ gs[k] = fs[k]
    BY <1>0 DEF Replaces
  <2>2. WellMade(fs[k], n) /\ fs[k].at \in Awaiting
    BY <2>1 DEF Stacked
  <2> QED  BY <2>1, <2>2 DEF WellMade
<1>2. gs[m] = f
  BY DEF Replaces
<1>3. \A k \in 1..Len(gs) : k \in 1..(m - 1) \/ k = m
  BY <1>0
<1>4. \A k \in 1..(m - 1) : k # m
  OBVIOUS
<1> QED  BY <1>0, <1>1, <1>2, <1>3, <1>4 DEF Stacked

LEMMA StackPushed ==
  ASSUME NEW fs, NEW n \in Nat, NEW p \in Nat, Stacked(fs, n), n <= p, NEW m \in 1..Len(fs),
         NEW f, NEW min \in {0, 6, 11, 21, 31, 40}, NEW gs, Pushes(fs, gs, m, f, min),
         WellMade(f, p), f.at \in Awaiting
  PROVE  Stacked(gs, p)
<1>0. Len(fs) \in Nat /\ Len(gs) = m + 1 /\ Stack(gs)
  BY DEF Stacked, Stack, Pushes
<1>1. ASSUME NEW k \in 1..(m - 1)
      PROVE  WellMade(gs[k], p) /\ gs[k].at \in Awaiting
  <2>1. k \in 1..Len(fs) /\ k # Len(fs) /\ gs[k] = fs[k]
    BY <1>0 DEF Pushes
  <2>2. WellMade(fs[k], n) /\ fs[k].at \in Awaiting
    BY <2>1 DEF Stacked
  <2> QED  BY <2>1, <2>2 DEF WellMade
<1>2. gs[m] = f /\ gs[m + 1] = Operand(min)
  BY DEF Pushes
<1>3. WellMade(Operand(min), p) /\ Operand(min).at \in Working
  BY DEF WellMade, Operand, Working
<1>4. \A k \in 1..Len(gs) : k \in 1..(m - 1) \/ k = m \/ k = m + 1
  BY <1>0
<1>5. m # m + 1 /\ \A k \in 1..(m - 1) : k # m + 1
  OBVIOUS
<1> QED  BY <1>0, <1>1, <1>2, <1>3, <1>4, <1>5 DEF Stacked


(***************************************************************************)
(* Numbers of brackets that are open.                                      *)
(***************************************************************************)
LEMMA NumberOne ==
  ASSUME NEW w, NEW P, NEW i \in Int
  PROVE  Number(w, P, i, i) = 0 /\ Number(w, P, i, i + 1) = IF w[i] \in P THEN 1 ELSE 0
<1>1. Within(w, P, i, i + 1) = IF w[i] \in P THEN {i} ELSE {}
  BY DEF Within
<1>2. Within(w, P, i, i) = {}
  BY DEF Within
<1>3. Cardinality({i}) = 1 /\ Cardinality({}) = 0
  BY FS_Singleton, FS_EmptySet
<1> QED  BY <1>1, <1>2, <1>3 DEF Number

LEMMA NumberAgrees ==
  ASSUME NEW w, NEW v, NEW P, NEW a \in Int, NEW b \in Int, \A k \in a..(b - 1) : w[k] = v[k]
  PROVE  Number(w, P, a, b) = Number(v, P, a, b)
<1>1. Within(w, P, a, b) = Within(v, P, a, b)
  BY DEF Within
<1> QED  BY <1>1 DEF Number

LEMMA DepthGrows ==
  ASSUME NEW S, NEW s \in Seq(S), NEW t \in S
  PROVE  /\ Append(s, t) \in Seq(S) /\ Len(s) \in Nat /\ Len(Append(s, t)) = Len(s) + 1
         /\ Append(s, t)[Len(s) + 1] = t /\ \A k \in 1..Len(s) : Append(s, t)[k] = s[k]
         /\ Depth(s, 1, Len(s) + 1) \in Int
         /\ Depth(Append(s, t), 1, Len(s) + 1 + 1) = Depth(s, 1, Len(s) + 1) +
              IF t \in Openers THEN 1 ELSE IF t \in Closers THEN -1 ELSE 0
<1> DEFINE u == Append(s, t)
           n == Len(s) + 1
<1>1. /\ u \in Seq(S) /\ Len(s) \in Nat /\ Len(u) = n /\ u[n] = t
      /\ \A k \in 1..Len(s) : u[k] = s[k]
  BY AppendProperties, Elements
<1>2. n \in Int /\ n + 1 \in Int /\ 1 <= n /\ n <= n + 1
  BY <1>1
<1>3. \A k \in 1..(n - 1) : u[k] = s[k]
  BY <1>1
<1> HIDE DEF n, u
<1>4. \A P : Number(u, P, 1, n) = Number(s, P, 1, n)
  BY <1>2, <1>3, NumberAgrees
<1>5. Depth(u, 1, n) = Depth(s, 1, n)
  BY <1>4, DepthIs
<1>6. /\ Depth(u, 1, n + 1) = Depth(u, 1, n) + Depth(u, n, n + 1)
      /\ Depth(u, 1, n) \in Int
  <2>1. PICK j \in Int : j = n + 1
    BY <1>2
  <2>2. PICK i \in Int : i = 1
    OBVIOUS
  <2>3. i <= n /\ n <= j /\ n \in Int
    BY <1>2, <2>1, <2>2
  <2>4. Depth(u, i, j) = Depth(u, i, n) + Depth(u, n, j) /\ Depth(u, i, n) \in Int
    BY <2>3, DepthAdds
  <2> QED  BY <2>1, <2>2, <2>4
<1>7. Depth(u, n, n + 1) = IF t \in Openers THEN 1 ELSE IF t \in Closers THEN -1 ELSE 0
  BY <1>1, <1>2, DepthOne
<1> QED  BY <1>1, <1>5, <1>6, <1>7 DEF u, n

Ats(fs) == [k \in 1..Len(fs) |-> fs[k].at]
Opened(fs) == Number(Ats(fs), Bracketing, 1, Len(fs) + 1)
Weigh(site) == IF site \in Bracketing THEN 1 ELSE 0

LEMMA OpenedSplits ==
  ASSUME NEW fs, Len(fs) \in Nat, NEW m \in 1..Len(fs)
  PROVE  /\ Opened(fs) = Number(Ats(fs), Bracketing, 1, m) + Weigh(fs[m].at)
                           + Number(Ats(fs), Bracketing, m + 1, Len(fs) + 1)
         /\ Opened(fs) \in Nat /\ Number(Ats(fs), Bracketing, 1, m) \in Nat
         /\ Number(Ats(fs), Bracketing, m + 1, Len(fs) + 1) \in Nat
<1>1. Ats(fs)[m] = fs[m].at
  BY DEF Ats
<1>2. PICK a : a = Ats(fs)
  OBVIOUS
<1>3. PICK i \in Int : i = 1
  OBVIOUS
<1>4. PICK j \in Int : j = m + 1
  OBVIOUS
<1>5. PICK n \in Int : n = Len(fs) + 1
  OBVIOUS
<1>6. i <= m /\ m <= j /\ j <= n /\ i <= j
  BY <1>3, <1>4, <1>5
<1>7. Number(a, Bracketing, m, j) = Weigh(fs[m].at)
  BY <1>1, <1>2, <1>4, NumberOne DEF Weigh
<1>8. /\ Number(a, Bracketing, i, j) = Number(a, Bracketing, i, m) + Number(a, Bracketing, m, j)
      /\ Number(a, Bracketing, i, m) \in Nat
  BY <1>6, CountAdds
<1>9. /\ Number(a, Bracketing, i, n) = Number(a, Bracketing, i, j) + Number(a, Bracketing, j, n)
      /\ Number(a, Bracketing, i, n) \in Nat /\ Number(a, Bracketing, j, n) \in Nat
      /\ Number(a, Bracketing, i, j) \in Nat
  BY <1>6, CountAdds
<1> QED  BY <1>2, <1>3, <1>4, <1>5, <1>7, <1>8, <1>9 DEF Opened

LEMMA OpenedReplaced ==
  ASSUME NEW fs, Len(fs) \in Nat, NEW m \in 1..Len(fs),
         m = Len(fs) \/ (m = Len(fs) - 1 /\ fs[Len(fs)].at \notin Bracketing),
         NEW f, NEW gs, Replaces(fs, gs, m, f)
  PROVE  Opened(gs) = Opened(fs) - Weigh(fs[m].at) + Weigh(f.at)
<1>0. Len(gs) = m /\ gs[m] = f
  BY DEF Replaces
<1>1. /\ Opened(fs) = Number(Ats(fs), Bracketing, 1, m) + Weigh(fs[m].at)
                        + Number(Ats(fs), Bracketing, m + 1, Len(fs) + 1)
      /\ Number(Ats(fs), Bracketing, 1, m) \in Nat
  BY OpenedSplits
<1>2. Number(Ats(fs), Bracketing, m + 1, Len(fs) + 1) = 0
  <2>1. CASE m = Len(fs)
    BY <2>1, NumberOne
  <2>2. CASE m = Len(fs) - 1 /\ fs[Len(fs)].at \notin Bracketing
    <3>1. m + 1 = Len(fs) /\ Ats(fs)[Len(fs)] = fs[Len(fs)].at
      BY <2>2 DEF Ats
    <3> QED  BY <2>2, <3>1, NumberOne
  <2> QED  BY <2>1, <2>2
<1>3. /\ Opened(gs) = Number(Ats(gs), Bracketing, 1, m) + Weigh(gs[m].at)
                        + Number(Ats(gs), Bracketing, m + 1, m + 1)
  <2>1. Len(gs) \in Nat /\ m \in 1..Len(gs)
    BY <1>0
  <2>2. Opened(gs) = Number(Ats(gs), Bracketing, 1, m) + Weigh(gs[m].at)
                        + Number(Ats(gs), Bracketing, m + 1, Len(gs) + 1)
    BY <2>1, OpenedSplits
  <2> QED  BY <1>0, <2>2
<1>4. Number(Ats(gs), Bracketing, m + 1, m + 1) = 0
  BY NumberOne
<1>5. Number(Ats(gs), Bracketing, 1, m) = Number(Ats(fs), Bracketing, 1, m)
  <2>1. \A k \in 1..(m - 1) : Ats(gs)[k] = Ats(fs)[k]
    BY <1>0 DEF Replaces, Ats
  <2> QED  BY <2>1, NumberAgrees
<1>6. Weigh(gs[m].at) \in Int /\ Weigh(fs[m].at) \in Int
  BY DEF Weigh
<1> QED  BY <1>0, <1>1, <1>2, <1>3, <1>4, <1>5, <1>6

LEMMA OpenedPushed ==
  ASSUME NEW fs, Len(fs) \in Nat, Len(fs) > 0, NEW f, NEW min, NEW gs,
         Pushes(fs, gs, Len(fs), f, min)
  PROVE  Opened(gs) = Opened(fs) - Weigh(fs[Len(fs)].at) + Weigh(f.at)
<1> DEFINE m == Len(fs)
<1>0. /\ m \in 1..Len(fs) /\ m \in Int /\ Len(gs) = m + 1 /\ gs[m] = f
      /\ gs[m + 1] = Operand(min) /\ m \in 1..Len(gs) /\ Len(gs) \in Nat
  BY DEF Pushes
<1>1. /\ Opened(fs) = Number(Ats(fs), Bracketing, 1, m) + Weigh(fs[m].at)
                        + Number(Ats(fs), Bracketing, m + 1, m + 1)
      /\ Number(Ats(fs), Bracketing, 1, m) \in Nat
  BY <1>0, OpenedSplits
<1>2. Opened(gs) = Number(Ats(gs), Bracketing, 1, m) + Weigh(gs[m].at)
                      + Number(Ats(gs), Bracketing, m + 1, Len(gs) + 1)
  BY <1>0, OpenedSplits
<1>3. Number(Ats(fs), Bracketing, m + 1, m + 1) = 0
  BY NumberOne
<1>4. Number(Ats(gs), Bracketing, m + 1, Len(gs) + 1) = 0
  <2>1. Ats(gs)[m + 1] = "operand"
    BY <1>0 DEF Ats, Operand
  <2>2. Ats(gs)[m + 1] \notin Bracketing
    BY <2>1 DEF Bracketing
  <2>3. m + 1 \in Int /\ Len(gs) + 1 = m + 1 + 1
    BY <1>0
  <2> HIDE DEF m
  <2> QED  BY <2>2, <2>3, NumberOne
<1>5. Number(Ats(gs), Bracketing, 1, m) = Number(Ats(fs), Bracketing, 1, m)
  <2>1. \A k \in 1..(m - 1) : Ats(gs)[k] = Ats(fs)[k]
    BY <1>0 DEF Pushes, Ats
  <2> QED  BY <1>0, <2>1, NumberAgrees
<1>6. Weigh(gs[m].at) \in Int /\ Weigh(fs[m].at) \in Int
  BY DEF Weigh
<1> QED  BY <1>0, <1>1, <1>2, <1>3, <1>4, <1>5, <1>6


(***************************************************************************)
(* What the steps do with the innermost frames.                            *)
(***************************************************************************)
LeftMissing == {"operand", "unary", "group", "array"}

Moved(f, site) == [f EXCEPT !.at = site]
Marked(f, site, op) == [f EXCEPT !.at = site, !.op = op]
Lengthened(f, parts) == [f EXCEPT !.parts = parts]
Shape(site, min, op, left, parts) ==
  [at |-> site, min |-> min, op |-> op, left |-> left, parts |-> parts]

LEMMA Shapes ==
  ASSUME NEW f, f = Shape(f.at, f.min, f.op, f.left, f.parts),
         NEW site, NEW op, NEW left, NEW parts
  PROVE  /\ Has(f, left) = Shape("loop", f.min, f.op, left, <<>>)
         /\ Marked(f, site, op) = Shape(site, f.min, op, f.left, f.parts)
         /\ Moved(f, site) = Shape(site, f.min, f.op, f.left, f.parts)
         /\ Lengthened(f, parts) = Shape(f.at, f.min, f.op, f.left, parts)
<1>0. f = [at |-> f.at, min |-> f.min, op |-> f.op, left |-> f.left, parts |-> f.parts]
  BY DEF Shape
<1>1. PICK g : g = [f EXCEPT !.at = site]
  OBVIOUS
<1>2. g = [at |-> site, min |-> f.min, op |-> f.op, left |-> f.left, parts |-> f.parts]
  BY <1>0, <1>1
<1>3. [g EXCEPT !.op = op]
        = [at |-> site, min |-> f.min, op |-> op, left |-> f.left, parts |-> f.parts]
  BY <1>2
<1>4. PICK h : h = [f EXCEPT !.at = "loop"]
  OBVIOUS
<1>5. h = [at |-> "loop", min |-> f.min, op |-> f.op, left |-> f.left, parts |-> f.parts]
  BY <1>0, <1>4
<1>6. PICK k : k = [h EXCEPT !.left = left]
  OBVIOUS
<1>7. k = [at |-> "loop", min |-> f.min, op |-> f.op, left |-> left, parts |-> f.parts]
  BY <1>5, <1>6
<1>8. [k EXCEPT !.parts = <<>>]
        = [at |-> "loop", min |-> f.min, op |-> f.op, left |-> left, parts |-> <<>>]
  BY <1>7
<1>9. [f EXCEPT !.parts = parts]
        = [at |-> f.at, min |-> f.min, op |-> f.op, left |-> f.left, parts |-> parts]
  BY <1>0
<1>10. [f EXCEPT !.at = site, !.op = op] = [g EXCEPT !.op = op]
  BY <1>1
<1>11. [f EXCEPT !.at = "loop", !.left = left, !.parts = <<>>] = [k EXCEPT !.parts = <<>>]
  BY <1>4, <1>6
<1>12. Has(f, left) = Shape("loop", f.min, f.op, left, <<>>)
  BY <1>8, <1>11 DEF Has, Shape
<1>13. Marked(f, site, op) = Shape(site, f.min, op, f.left, f.parts)
  BY <1>3, <1>10 DEF Marked, Shape
<1>14. Moved(f, site) = Shape(site, f.min, f.op, f.left, f.parts)
  BY <1>1, <1>2 DEF Moved, Shape
<1>15. Lengthened(f, parts) = Shape(f.at, f.min, f.op, f.left, parts)
  BY <1>9 DEF Lengthened, Shape
<1> QED  BY <1>12, <1>13, <1>14, <1>15

LEMMA ShapeIs ==
  ASSUME NEW site, NEW min, NEW op, NEW left, NEW parts
  PROVE  LET f == Shape(site, min, op, left, parts)
         IN  /\ f.at = site /\ f.min = min /\ f.op = op /\ f.left = left /\ f.parts = parts
             /\ f = Shape(f.at, f.min, f.op, f.left, f.parts)
  BY DEF Shape

(* What becomes of a frame is well made.                                   *)
LEMMA FrameChanges ==
  ASSUME NEW f, NEW n \in Nat, NEW p \in Nat, WellMade(f, n), n <= p
  PROVE  /\ \A left : left # NoExpr =>
              /\ WellMade(Has(f, left), p)
              /\ Has(f, left) = Shape("loop", f.min, f.op, left, <<>>)
         /\ \A site : (site \in LeftMissing <=> f.at \in LeftMissing) =>
              /\ WellMade(Moved(f, site), p)
              /\ Moved(f, site) = Shape(site, f.min, f.op, f.left, f.parts)
              /\ \A op \in 0..p :
                   /\ WellMade(Marked(f, site, op), p)
                   /\ Marked(f, site, op) = Shape(site, f.min, op, f.left, f.parts)
         /\ \A parts :
              /\ WellMade(Lengthened(f, parts), p)
              /\ Lengthened(f, parts) = Shape(f.at, f.min, f.op, f.left, parts)
         /\ WellMade(f, p)
<1>1. f = Shape(f.at, f.min, f.op, f.left, f.parts)
  BY DEF WellMade, Shape
<1>2. f.min \in {0, 6, 11, 21, 31, 40} /\ f.op \in 0..p /\ "loop" \notin LeftMissing
  BY DEF WellMade, LeftMissing
<1>3. f.left = NoExpr <=> f.at \in LeftMissing
  BY DEF WellMade, LeftMissing
<1>4. ASSUME NEW site, NEW op \in 0..p, NEW left, NEW parts,
             left = NoExpr <=> site \in LeftMissing
      PROVE  WellMade(Shape(site, f.min, op, left, parts), p)
  <2>1. PICK g : g = Shape(site, f.min, op, left, parts)
    OBVIOUS
  <2>2. /\ g.at = site /\ g.min = f.min /\ g.op = op /\ g.left = left /\ g.parts = parts
        /\ g = [at |-> g.at, min |-> g.min, op |-> g.op, left |-> g.left, parts |-> g.parts]
    BY <2>1 DEF Shape
  <2>3. WellMade(g, p)
    BY <1>2, <1>4, <2>2 DEF WellMade, LeftMissing
  <2> QED  BY <2>1, <2>3
<1>5. \A site, op, left, parts :
        /\ Has(f, left) = Shape("loop", f.min, f.op, left, <<>>)
        /\ Marked(f, site, op) = Shape(site, f.min, op, f.left, f.parts)
        /\ Moved(f, site) = Shape(site, f.min, f.op, f.left, f.parts)
        /\ Lengthened(f, parts) = Shape(f.at, f.min, f.op, f.left, parts)
  BY <1>1, Shapes
<1>6. \A left : left # NoExpr => WellMade(Shape("loop", f.min, f.op, left, <<>>), p)
  BY <1>2, <1>4
<1>7. \A site : (site \in LeftMissing <=> f.at \in LeftMissing) =>
        \A op \in 0..p : WellMade(Shape(site, f.min, op, f.left, f.parts), p)
  BY <1>3, <1>4
<1>8. \A parts : WellMade(Shape(f.at, f.min, f.op, f.left, parts), p)
  BY <1>2, <1>3, <1>4
<1>9. WellMade(f, p)
  BY <1>1, <1>8
<1> QED  BY <1>2, <1>5, <1>6, <1>7, <1>8, <1>9

(* The stack is well made and as many brackets are open on it as before,   *)
(* but for a frame whose site changed.                                     *)
Moves(fs, gs, p, before, after) ==
  /\ Stacked(gs, p) /\ Len(gs) > 0
  /\ Opened(gs) = Opened(fs) - Weigh(before) + Weigh(after)

LEMMA BecomesMoves ==
  ASSUME NEW fs, NEW n \in Nat, NEW p \in Nat, Stacked(fs, n), n <= p, Len(fs) > 0,
         NEW f, WellMade(f, p), f.at \in Working
  PROVE  /\ Moves(fs, Append(SubSeq(fs, 1, Len(fs) - 1), f), p, fs[Len(fs)].at, f.at)
         /\ Replaces(fs, Append(SubSeq(fs, 1, Len(fs) - 1), f), Len(fs), f)
<1> DEFINE gs == Append(SubSeq(fs, 1, Len(fs) - 1), f)
<1>1. Stack(fs) /\ Len(fs) \in 1..Len(fs) /\ Len(fs) \in Nat
  BY DEF Stacked, Stack
<1>2. Replaces(fs, gs, Len(fs), f)
  BY <1>1, ReplacedIs
<1> HIDE DEF gs
<1>3. Stacked(gs, p)
  BY <1>1, <1>2, StackReplaced
<1>4. Opened(gs) = Opened(fs) - Weigh(fs[Len(fs)].at) + Weigh(f.at)
  BY <1>1, <1>2, OpenedReplaced
<1>5. Len(gs) > 0
  BY <1>1, <1>2 DEF Replaces
<1> QED  BY <1>2, <1>3, <1>4, <1>5 DEF Moves, gs

LEMMA ReturnMoves ==
  ASSUME NEW fs, NEW n \in Nat, NEW p \in Nat, Stacked(fs, n), n <= p, Len(fs) > 1,
         fs[Len(fs)].at = "loop", NEW f, WellMade(f, p), f.at \in Working
  PROVE  /\ Moves(fs, Append(SubSeq(fs, 1, Len(fs) - 2), f), p, fs[Len(fs) - 1].at, f.at)
         /\ Replaces(fs, Append(SubSeq(fs, 1, Len(fs) - 2), f), Len(fs) - 1, f)
<1>1. Stack(fs) /\ Len(fs) \in Nat
  BY DEF Stacked, Stack
<1>2. PICK m \in 1..Len(fs) : m = Len(fs) - 1
  <2>1. Len(fs) - 1 \in 1..Len(fs)
    BY <1>1
  <2> QED  BY <2>1
<1>3. m - 1 = Len(fs) - 2
  BY <1>1, <1>2
<1>4. PICK gs : gs = Append(SubSeq(fs, 1, m - 1), f)
  OBVIOUS
<1>5. Replaces(fs, gs, m, f)
  BY <1>1, <1>4, ReplacedIs
<1>6. Stacked(gs, p)
  BY <1>5, StackReplaced
<1>7. Opened(gs) = Opened(fs) - Weigh(fs[m].at) + Weigh(f.at)
  <2>1. m = Len(fs) - 1 /\ fs[Len(fs)].at \notin Bracketing
    BY <1>2 DEF Bracketing
  <2> QED  BY <1>1, <1>5, <2>1, OpenedReplaced
<1>8. Len(gs) > 0
  BY <1>5 DEF Replaces
<1> QED  BY <1>2, <1>3, <1>4, <1>5, <1>6, <1>7, <1>8 DEF Moves

LEMMA CallMoves ==
  ASSUME NEW fs, NEW n \in Nat, NEW p \in Nat, Stacked(fs, n), n <= p, Len(fs) > 0,
         NEW f, WellMade(f, p), f.at \in Awaiting, NEW min \in {0, 6, 11, 21, 31, 40},
         NEW gs, Pushes(fs, gs, Len(fs), f, min)
  PROVE  Moves(fs, gs, p, fs[Len(fs)].at, f.at)
<1>1. Stack(fs) /\ Len(fs) \in 1..Len(fs) /\ Len(fs) \in Nat
  BY DEF Stacked, Stack
<1>2. Stacked(gs, p)
  BY <1>1, StackPushed
<1>3. Opened(gs) = Opened(fs) - Weigh(fs[Len(fs)].at) + Weigh(f.at)
  BY <1>1, OpenedPushed
<1>4. Len(gs) > 0
  BY <1>1 DEF Pushes
<1> QED  BY <1>2, <1>3, <1>4 DEF Moves


(***************************************************************************)
(* The type invariant: the frames are a stack, and as many of them wait    *)
(* for a bracket to close as there are brackets that are open.             *)
(***************************************************************************)
Typed ==
  /\ tokens \in Seq(Tokens) /\ current \in Tokens \cup {"END_OF_FILE"}
  /\ outcome \in {"parsing", "done", "error"}
  /\ outcome = "parsing" <=> Len(frames) > 0
  /\ outcome = "done" <=> tree # NoExpr
  /\ Stacked(frames, Len(tokens))
  /\ outcome = "parsing" => Depth(tokens, 1, Len(tokens) + 1) = Opened(frames)

LEMMA TypedImplies ==
  ASSUME Typed
  PROVE  TypeOK
<1>0. Len(tokens) \in Nat /\ DOMAIN tokens = 1..Len(tokens)
  BY Elements DEF Typed
<1>1. Len(frames) \in Nat /\ frames = [k \in 1..Len(frames) |-> frames[k]]
  BY DEF Typed, Stacked, Stack
<1>2. DOMAIN frames = 1..Len(frames)
  BY <1>1, Zenon
<1>3. outcome = "parsing" <=> frames # <<>>
  <2>1. Len(frames) = 0 <=> frames = <<>>
    <3>1. PICK X : frames \in Seq(X)
      BY StackIsSequence DEF Typed, Stacked
    <3> QED  BY <3>1, EmptySeq
  <2> QED  BY <1>1, <2>1 DEF Typed
<1>4. OpenBrackets = Depth(tokens, 1, Len(tokens) + 1)
  <2>1. 1..(Len(tokens) + 1 - 1) = 1..Len(tokens)
    BY <1>0
  <2>2. /\ Places(tokens, LAMBDA t : t \in {"OPEN_PAREN", "OPEN_BRACKET"})
             = Within(tokens, Openers, 1, Len(tokens) + 1)
        /\ Places(tokens, LAMBDA t : t \in {"CLOSE_PAREN", "CLOSE_BRACKET"})
             = Within(tokens, Closers, 1, Len(tokens) + 1)
    BY <1>0, <2>1 DEF Openers, Closers, Within, Places
  <2>3. OpenBrackets = Number(tokens, Openers, 1, Len(tokens) + 1)
                         - Number(tokens, Closers, 1, Len(tokens) + 1)
    BY <2>2, Zenon DEF OpenBrackets, Number
  <2> QED  BY <2>3, DepthIs
<1>5. Cardinality(Places(frames, LAMBDA f : f.at \in {"group", "index", "call", "array"}))
        = Opened(frames)
  <2>1. \A k \in 1..Len(frames) : Ats(frames)[k] = frames[k].at
    BY DEF Ats
  <2>2. 1..(Len(frames) + 1 - 1) = 1..Len(frames)
    BY <1>1
  <2>3. {k \in DOMAIN frames : frames[k].at \in {"group", "index", "call", "array"}}
          = Within(Ats(frames), Bracketing, 1, Len(frames) + 1)
    BY <1>2, <2>1, <2>2 DEF Within, Bracketing
  <2>4. Places(frames, LAMBDA f : f.at \in {"group", "index", "call", "array"})
          = {k \in DOMAIN frames : frames[k].at \in {"group", "index", "call", "array"}}
    BY DEF Places
  <2> QED  BY <2>3, <2>4 DEF Opened, Number
<1>6. ASSUME NEW k \in 1..Len(frames)
      PROVE  /\ frames[k].at \in IF k = Len(frames) THEN {"operand", "loop", "call", "array"}
                                 ELSE Sites \ {"operand", "loop"}
             /\ frames[k].min \in {0, 6, 11, 21, 31, 40}
             /\ frames[k].op \in 0..Len(tokens)
             /\ (frames[k].left = NoExpr) =
                  (frames[k].at \in {"operand", "unary", "group", "array"})
  <2>1. WellMade(frames[k], Len(tokens))
    BY DEF Typed, Stacked
  <2>2. frames[k].at \in IF k = Len(frames) THEN Working ELSE Awaiting
    BY DEF Typed, Stacked
  <2> QED  BY <2>1, <2>2 DEF WellMade, Working, Awaiting
<1>7. \A k \in 1..Len(frames) :
       /\ frames[k].at \in IF k = Len(frames) THEN {"operand", "loop", "call", "array"}
                           ELSE Sites \ {"operand", "loop"}
       /\ frames[k].min \in {0, 6, 11, 21, 31, 40}
       /\ frames[k].op \in 0..Len(tokens)
       /\ (frames[k].left = NoExpr) =
            (frames[k].at \in {"operand", "unary", "group", "array"})
  BY <1>6
<1>8. (outcome = "parsing") = (frames # <<>>) /\ (outcome = "done") = (tree # NoExpr)
  BY <1>3 DEF Typed
<1>9. outcome = "parsing" => OpenBrackets =
         Cardinality(Places(frames, LAMBDA f : f.at \in {"group", "index", "call", "array"}))
  BY <1>4, <1>5 DEF Typed
<1> HIDE DEF OpenBrackets, Sites
<1>10. tokens \in Seq(Tokens) /\ current \in Tokens \cup {"END_OF_FILE"}
       /\ outcome \in {"parsing", "done", "error"}
  BY DEF Typed
<1> QED  BY <1>7, <1>8, <1>9, <1>10, Zenon DEF TypeOK

LEMMA InitTyped ==
  ASSUME Init
  PROVE  Typed
<1>1. PICK f : f = Operand(0)
  OBVIOUS
<1>2. frames = <<f>> /\ tokens = <<>> /\ outcome = "parsing" /\ tree = NoExpr
  BY <1>1 DEF Init
<1>3. Len(frames) = 1 /\ frames[1] = f /\ Stack(frames) /\ Len(tokens) = 0
  BY <1>2 DEF Stack
<1>4. WellMade(f, 0) /\ f.at = "operand"
  BY <1>1 DEF WellMade, Operand
<1>5. Stacked(frames, Len(tokens))
  <2>1. \A k \in 1..Len(frames) : k = 1
    BY <1>3
  <2> QED  BY <1>3, <1>4, <2>1 DEF Stacked, Working
<1>6. Depth(tokens, 1, Len(tokens) + 1) = 0
  BY <1>3, DepthNone
<1>7. Opened(frames) = 0
  <2>1. Ats(frames)[1] = "operand"
    BY <1>3, <1>4 DEF Ats
  <2>2. Ats(frames)[1] \notin Bracketing
    BY <2>1 DEF Bracketing
  <2>3. Number(Ats(frames), Bracketing, 1, 1 + 1) = 0
    BY <2>2, NumberOne
  <2> QED  BY <1>3, <2>3 DEF Opened
<1>8. tokens \in Seq(Tokens)
  BY <1>2
<1>9. current \in Tokens \cup {"END_OF_FILE"}
  BY DEF Init, Follow
<1> QED  BY <1>2, <1>3, <1>5, <1>6, <1>7, <1>8, <1>9 DEF Typed


(***************************************************************************)
(* What a step does with the tokens and with the frames.                   *)
(***************************************************************************)
Nesting(t) == IF t \in Openers THEN 1 ELSE IF t \in Closers THEN -1 ELSE 0
Proceeds(weight) ==
  /\ Typed /\ outcome = "parsing" /\ outcome' = "parsing" /\ tree' = tree
  /\ tokens' \in Seq(Tokens) /\ current' \in Tokens \cup {"END_OF_FILE"}
  /\ Len(tokens) \in Nat /\ Len(tokens') \in Nat /\ Len(tokens) <= Len(tokens')
  /\ Depth(tokens', 1, Len(tokens') + 1) = Depth(tokens, 1, Len(tokens) + 1) + weight
Reads ==
  /\ tokens' = Append(tokens, current) /\ Len(tokens') = Len(tokens) + 1
  /\ tokens'[Len(tokens) + 1] = current /\ \A k \in 1..Len(tokens) : tokens'[k] = tokens[k]

LEMMA Reading ==
  ASSUME Typed, outcome = "parsing", UNCHANGED <<outcome, tree>>,
         NEW types, types \subseteq TokenTypes, expect(types)
  PROVE  current \in types /\ Proceeds(Nesting(current)) /\ Reads
<1>1. /\ current \in types /\ tokens' = Append(tokens, current)
      /\ current' \in Tokens \cup {"END_OF_FILE"}
  BY DEF expect, Follow
<1>2. tokens \in Seq(Tokens) /\ current \in Tokens \cup {"END_OF_FILE"}
  BY DEF Typed
<1>3. "END_OF_FILE" \notin TokenTypes
  BY DEF TokenTypes, Literals, UnaryOperators
<1>4. current \in Tokens
  BY <1>1, <1>2, <1>3
<1>5. /\ tokens' \in Seq(Tokens) /\ Len(tokens) \in Nat /\ Len(tokens') = Len(tokens) + 1
      /\ tokens'[Len(tokens) + 1] = current /\ \A k \in 1..Len(tokens) : tokens'[k] = tokens[k]
      /\ Depth(tokens', 1, Len(tokens) + 1 + 1)
           = Depth(tokens, 1, Len(tokens) + 1) + Nesting(current)
  BY <1>1, <1>2, <1>4, DepthGrows DEF Nesting
<1> QED  BY <1>1, <1>5 DEF Proceeds, Reads

LEMMA Peeking ==
  ASSUME Typed, outcome = "parsing", UNCHANGED <<outcome, tree>>, Peek
  PROVE  Proceeds(0) /\ tokens' = tokens /\ current' = current
<1>1. tokens \in Seq(Tokens) /\ Len(tokens) \in Nat /\ current \in Tokens \cup {"END_OF_FILE"}
  BY Elements DEF Typed
<1>2. Depth(tokens, 1, Len(tokens) + 1) \in Int
  <2>1. PICK i \in Int : i = 1
    OBVIOUS
  <2>2. PICK j \in Int : j = Len(tokens) + 1
    BY <1>1
  <2>3. i <= j
    BY <1>1, <2>1, <2>2
  <2>4. Depth(tokens, i, j) \in Int
    BY <2>3, DepthAdds
  <2> QED  BY <2>1, <2>2, <2>4
<1>3. tokens' = tokens /\ current' = current
  BY DEF Peek
<1>4. Depth(tokens', 1, Len(tokens') + 1) = Depth(tokens, 1, Len(tokens) + 1) + 0
  BY <1>2, <1>3
<1> QED  BY <1>1, <1>3, <1>4 DEF Proceeds

LEMMA TypedMoves ==
  ASSUME NEW weight, Proceeds(weight), NEW before, NEW after, weight = Weigh(after) - Weigh(before),
         Moves(frames, frames', Len(tokens'), before, after)
  PROVE  Typed'
<1>1. Depth(tokens, 1, Len(tokens) + 1) = Opened(frames)
  BY DEF Proceeds, Typed
<1>2. Opened(frames') = Opened(frames) - Weigh(before) + Weigh(after)
      /\ Stacked(frames', Len(tokens')) /\ Len(frames') > 0
  BY DEF Moves
<1>3. Weigh(before) \in Int /\ Weigh(after) \in Int
  BY DEF Weigh
<1>4. Opened(frames) \in Int
  <2>1. Len(frames) \in Nat /\ Len(frames) > 0
    BY DEF Proceeds, Typed, Stacked, Stack
  <2>2. Len(frames) \in 1..Len(frames)
    BY <2>1
  <2>3. Opened(frames) \in Nat
    BY <2>1, <2>2, OpenedSplits
  <2> QED  BY <2>3
<1>5. Depth(tokens', 1, Len(tokens') + 1) = Opened(frames')
  BY <1>1, <1>2, <1>3, <1>4 DEF Proceeds
<1>6. outcome' = "parsing" /\ tree' = NoExpr /\ outcome' # "done"
  BY DEF Proceeds, Typed
<1> QED  BY <1>2, <1>5, <1>6 DEF Proceeds, Typed

LEMMA TopIs ==
  ASSUME Typed, outcome = "parsing"
  PROVE  /\ Len(frames) \in Nat /\ Len(frames) > 0 /\ Len(frames) \in 1..Len(frames)
         /\ Stack(frames) /\ Len(tokens) \in Nat /\ Stacked(frames, Len(tokens))
         /\ Top = frames[Len(frames)] /\ WellMade(Top, Len(tokens)) /\ Top.at \in Working
         /\ Len(frames) > 1 =>
              /\ Len(frames) - 1 \in 1..Len(frames) /\ Caller = frames[Len(frames) - 1]
              /\ WellMade(Caller, Len(tokens)) /\ Caller.at \in Awaiting
<1>1. Stack(frames) /\ Len(frames) > 0 /\ Len(frames) \in Nat
  BY DEF Typed, Stacked, Stack
<1>2. Len(tokens) \in Nat
  BY Elements DEF Typed
<1>3. Len(frames) \in 1..Len(frames)
  BY <1>1
<1>4. WellMade(frames[Len(frames)], Len(tokens)) /\ frames[Len(frames)].at \in Working
  BY <1>3 DEF Typed, Stacked
<1>5. ASSUME Len(frames) > 1
      PROVE  /\ Len(frames) - 1 \in 1..Len(frames)
             /\ WellMade(frames[Len(frames) - 1], Len(tokens))
             /\ frames[Len(frames) - 1].at \in Awaiting
  <2>1. PICK m \in 1..Len(frames) : m = Len(frames) - 1 /\ m # Len(frames)
    <3>1. Len(frames) - 1 \in 1..Len(frames) /\ Len(frames) - 1 # Len(frames)
      BY <1>1, <1>5
    <3> QED  BY <3>1
  <2>2. WellMade(frames[m], Len(tokens)) /\ frames[m].at \in Awaiting
    BY <2>1 DEF Typed, Stacked
  <2> QED  BY <2>1, <2>2
<1> QED  BY <1>1, <1>2, <1>3, <1>4, <1>5 DEF Typed, Top, Caller

LEMMA Becoming ==
  ASSUME NEW weight, Proceeds(weight), NEW f, WellMade(f, Len(tokens')), f.at \in Working,
         weight = Weigh(f.at) - Weigh(Top.at), Becomes(f)
  PROVE  Typed' /\ Replaces(frames, frames', Len(frames), f)
<1>1. Typed /\ outcome = "parsing"
  BY DEF Proceeds
<1>2. frames' = Append(SubSeq(frames, 1, Len(frames) - 1), f)
  BY DEF Becomes, Below
<1>3. Len(tokens) \in Nat /\ Len(tokens') \in Nat /\ Len(tokens) <= Len(tokens')
  BY DEF Proceeds
<1>4. /\ Moves(frames, frames', Len(tokens'), Top.at, f.at)
      /\ Replaces(frames, frames', Len(frames), f)
  BY <1>1, <1>2, <1>3, TopIs, BecomesMoves
<1>5. PICK before : before = Top.at
  OBVIOUS
<1>6. Typed'
  BY <1>4, <1>5, TypedMoves
<1> QED  BY <1>4, <1>6

LEMMA Returning ==
  ASSUME NEW weight, Proceeds(weight), NEW f, WellMade(f, Len(tokens')), f.at \in Working,
         Len(frames) > 1, Top.at = "loop", weight = Weigh(f.at) - Weigh(Caller.at), ReturnsTo(f)
  PROVE  Typed' /\ Replaces(frames, frames', Len(frames) - 1, f)
<1>1. Typed /\ outcome = "parsing"
  BY DEF Proceeds
<1>2. frames' = Append(SubSeq(frames, 1, Len(frames) - 2), f)
  BY DEF ReturnsTo, Below
<1>3. Len(tokens) \in Nat /\ Len(tokens') \in Nat /\ Len(tokens) <= Len(tokens')
  BY DEF Proceeds
<1>4. /\ Moves(frames, frames', Len(tokens'), Caller.at, f.at)
      /\ Replaces(frames, frames', Len(frames) - 1, f)
  BY <1>1, <1>2, <1>3, TopIs, ReturnMoves
<1>5. PICK before : before = Caller.at
  OBVIOUS
<1>6. Typed'
  BY <1>4, <1>5, TypedMoves
<1> QED  BY <1>4, <1>6

LEMMA Calling ==
  ASSUME NEW weight, Proceeds(weight), NEW f, WellMade(f, Len(tokens')), f.at \in Awaiting,
         NEW min \in {0, 6, 11, 21, 31, 40}, weight = Weigh(f.at) - Weigh(Top.at),
         Calls(f, min) \/ (f = Top /\ frames' = Append(frames, Operand(min)))
  PROVE  Typed' /\ Pushes(frames, frames', Len(frames), f, min)
<1>1. Typed /\ outcome = "parsing"
  BY DEF Proceeds
<1>2. Stack(frames) /\ Len(frames) \in 1..Len(frames) /\ Len(frames) > 0
      /\ Stacked(frames, Len(tokens)) /\ Top = frames[Len(frames)]
  BY <1>1, TopIs
<1>3. Pushes(frames, frames', Len(frames), f, min)
  <2>1. CASE Calls(f, min)
    <3>1. frames' = SubSeq(frames, 1, Len(frames) - 1) \o <<f, Operand(min)>>
      BY <2>1 DEF Calls, Below
    <3> QED  BY <1>2, <3>1, PushedIs
  <2>2. CASE f = Top /\ frames' = Append(frames, Operand(min))
    BY <1>2, <2>2, AppendedIs
  <2> QED  BY <2>1, <2>2
<1>4. Len(tokens) \in Nat /\ Len(tokens') \in Nat /\ Len(tokens) <= Len(tokens')
  BY DEF Proceeds
<1>5. Moves(frames, frames', Len(tokens'), Top.at, f.at)
  BY <1>2, <1>3, <1>4, CallMoves
<1>6. PICK before : before = Top.at
  OBVIOUS
<1>7. Typed'
  BY <1>5, <1>6, TypedMoves
<1> QED  BY <1>3, <1>7

(***************************************************************************)
(* The steps.                                                              *)
(***************************************************************************)
LEMMA SiteIs ==
  /\ Weigh("operand") = 0 /\ Weigh("loop") = 0 /\ Weigh("unary") = 0 /\ Weigh("binary") = 0
  /\ Weigh("group") = 1 /\ Weigh("index") = 1 /\ Weigh("call") = 1 /\ Weigh("array") = 1
  /\ {"operand", "loop", "call", "array"} \subseteq Working
  /\ {"unary", "binary", "group", "index", "call", "array"} \subseteq Awaiting
  /\ {"operand", "unary", "group", "array"} \subseteq LeftMissing
  /\ "loop" \notin LeftMissing /\ "binary" \notin LeftMissing /\ "index" \notin LeftMissing
  /\ "call" \notin LeftMissing
  BY DEF Weigh, Bracketing, Working, Awaiting, Sites, LeftMissing

LEMMA NestingIs ==
  ASSUME NEW t
  PROVE  /\ t \in Openers => Nesting(t) = 1
         /\ t \in Closers => Nesting(t) = -1
         /\ t \in UnaryOperators \cup Literals \cup {"COMMA"} => Nesting(t) = 0
         /\ IsOperator(t) => Nesting(t) = 0
<1>1. t \in UnaryOperators \cup Literals \cup {"COMMA"} => t \notin Openers \cup Closers
  BY DEF UnaryOperators, Literals, Openers, Closers
<1>2. IsOperator(t) => t \notin Openers \cup Closers
  BY OperatorIsPlain
<1>3. t \in Closers => t \notin Openers
  BY DEF Openers, Closers
<1> QED  BY <1>1, <1>2, <1>3 DEF Nesting

(* Frames that change, as records.                                         *)
Changes(f, p) ==
  /\ \A left : left # NoExpr =>
       /\ WellMade(Has(f, left), p) /\ Has(f, left).at = "loop"
       /\ Has(f, left) = Shape("loop", f.min, f.op, left, <<>>)
  /\ \A site : (site \in LeftMissing <=> f.at \in LeftMissing) =>
       /\ WellMade(Moved(f, site), p) /\ Moved(f, site).at = site
       /\ Moved(f, site) = Shape(site, f.min, f.op, f.left, f.parts)
       /\ \A op \in 0..p :
            /\ WellMade(Marked(f, site, op), p) /\ Marked(f, site, op).at = site
            /\ Marked(f, site, op) = Shape(site, f.min, op, f.left, f.parts)
  /\ \A parts :
       /\ WellMade(Lengthened(f, parts), p) /\ Lengthened(f, parts).at = f.at
       /\ Lengthened(f, parts) = Shape(f.at, f.min, f.op, f.left, parts)
  /\ WellMade(f, p) /\ f = Shape(f.at, f.min, f.op, f.left, f.parts)

LEMMA Changing ==
  ASSUME NEW f, NEW n \in Nat, NEW p \in Nat, WellMade(f, n), n <= p
  PROVE  Changes(f, p)
<1>1. \A site, min, op, left, parts : Shape(site, min, op, left, parts).at = site
  BY ShapeIs
<1>2. f = Shape(f.at, f.min, f.op, f.left, f.parts)
  BY DEF WellMade, Shape
<1>3. \A left : left # NoExpr =>
        /\ WellMade(Has(f, left), p)
        /\ Has(f, left) = Shape("loop", f.min, f.op, left, <<>>)
  BY FrameChanges
<1>4. \A site : (site \in LeftMissing <=> f.at \in LeftMissing) =>
       /\ WellMade(Moved(f, site), p)
       /\ Moved(f, site) = Shape(site, f.min, f.op, f.left, f.parts)
       /\ \A op \in 0..p :
            /\ WellMade(Marked(f, site, op), p)
            /\ Marked(f, site, op) = Shape(site, f.min, op, f.left, f.parts)
  BY FrameChanges
<1>5. /\ \A parts :
            /\ WellMade(Lengthened(f, parts), p)
            /\ Lengthened(f, parts) = Shape(f.at, f.min, f.op, f.left, parts)
      /\ WellMade(f, p)
  BY FrameChanges
<1> QED  BY <1>1, <1>2, <1>3, <1>4, <1>5 DEF Changes

LEMMA TopChanges ==
  ASSUME NEW weight, Proceeds(weight)
  PROVE  /\ Changes(Top, Len(tokens'))
         /\ Len(frames) > 1 => Changes(Caller, Len(tokens'))
<1>1. Len(tokens) \in Nat /\ Len(tokens') \in Nat /\ Len(tokens) <= Len(tokens')
  BY DEF Proceeds
<1>2. /\ WellMade(Top, Len(tokens))
      /\ Len(frames) > 1 => WellMade(Caller, Len(tokens))
  BY TopIs DEF Proceeds
<1> QED  BY <1>1, <1>2, Changing

LEMMA NodesAreExpressions ==
  /\ \A i : Leaf(i) # NoExpr
  /\ \A i, a : UnaryNode(i, a) # NoExpr
  /\ \A i, a, b : createBinaryNode(i, a, b) # NoExpr
  /\ \A a, b : CallNode(a, b) # NoExpr /\ AccessNode(a, b) # NoExpr
  /\ \A a : ArrayNode(a) # NoExpr
  BY DEF Leaf, UnaryNode, createBinaryNode, CallNode, AccessNode, ArrayNode, NoExpr

(* The operators that extend left.                                         *)
LEMMA ContinuesWith ==
  ASSUME Typed, outcome = "parsing", ~ Breaks, NEW t, t = current,
         t \notin {"OPEN_PAREN", "OPEN_BRACKET"}
  PROVE  /\ IsOperator(t) /\ getPrecedence(t) >= Top.min
         /\ getPrecedence(t) + 1 \in {0, 6, 11, 21, 31, 40}
<1>1. getPrecedence(t) \in {-1, 5, 10, 20, 30, 40} /\ ~ (getPrecedence(t) < Top.min)
  BY PrecedenceIs DEF Breaks
<1>2. Top.min \in {0, 6, 11, 21, 31, 40}
  BY TopIs DEF WellMade
<1>3. getPrecedence(t) \in {5, 10, 20, 30}
  <2>1. t \notin Openers
    BY DEF Openers
  <2>2. getPrecedence(t) # 40
    BY <2>1, PrecedenceIs
  <2>3. PICK p \in {-1, 5, 10, 20, 30, 40} : p = getPrecedence(t)
    BY <1>1
  <2>4. PICK min \in {0, 6, 11, 21, 31, 40} : min = Top.min
    BY <1>2
  <2>5. ~ (p < min) /\ p # 40
    BY <1>1, <2>2, <2>3, <2>4
  <2>6. p \in {5, 10, 20, 30}
    BY <2>5
  <2> QED  BY <2>3, <2>6
<1> QED  BY <1>1, <1>2, <1>3, PrecedenceIs

ReadUnaryDoes ==
  /\ current \in UnaryOperators /\ Reads
  /\ Pushes(frames, frames', Len(frames),
            Shape("unary", Top.min, Len(tokens) + 1, Top.left, Top.parts), 40)
LEMMA ReadUnaryTyped ==
  ASSUME Typed, ReadUnary
  PROVE  Typed' /\ ReadUnaryDoes
<1>1. /\ outcome = "parsing" /\ Top.at = "operand"
      /\ UNCHANGED <<outcome, tree>> /\ expect(UnaryOperators)
      /\ Calls(Marked(Top, "unary", Len(tokens) + 1), 40)
  BY DEF ReadUnary, At, Here, Marked, Moved, Continues, Returns, ReturnsIn
<1>2. UnaryOperators \subseteq TokenTypes
  BY DEF TokenTypes, Literals, UnaryOperators
<1>3. current \in UnaryOperators /\ Reads /\ Proceeds(0)
  <2>1. current \in UnaryOperators /\ Proceeds(Nesting(current)) /\ Reads
    BY <1>1, <1>2, Reading
  <2>2. Nesting(current) = 0
    BY <2>1, NestingIs
  <2> QED  BY <2>1, <2>2
<1>4. PICK f : f = Marked(Top, "unary", Len(tokens) + 1)
  OBVIOUS
<1>5. /\ WellMade(f, Len(tokens')) /\ f.at = "unary"
      /\ f = Shape("unary", Top.min, Len(tokens) + 1, Top.left, Top.parts)
  <2>1. Changes(Top, Len(tokens'))
    BY <1>1, <1>3, TopChanges
  <2>2. Len(tokens') = Len(tokens) + 1 /\ Len(tokens) \in Nat
    BY <1>3 DEF Reads, Proceeds
  <2>3. Len(tokens) + 1 \in 0..Len(tokens')
    BY <2>2
  <2>4. "unary" \in LeftMissing <=> Top.at \in LeftMissing
    BY <1>1, SiteIs
  <2> QED  BY <1>4, <2>1, <2>3, <2>4 DEF Changes
<1>6. 0 = Weigh(f.at) - Weigh(Top.at) /\ f.at \in Awaiting
  BY <1>1, <1>5, SiteIs
<1>7. Typed' /\ Pushes(frames, frames', Len(frames), f, 40)
  BY <1>1, <1>3, <1>4, <1>5, <1>6, Calling
<1> QED  BY <1>3, <1>5, <1>7 DEF ReadUnaryDoes

ReadLiteralDoes ==
  /\ current \in Literals /\ Reads
  /\ Replaces(frames, frames', Len(frames),
              Shape("loop", Top.min, Top.op, Leaf(Len(tokens) + 1), <<>>))
LEMMA ReadLiteralTyped ==
  ASSUME Typed, ReadLiteral
  PROVE  Typed' /\ ReadLiteralDoes
<1>1. /\ outcome = "parsing" /\ Top.at = "operand"
      /\ UNCHANGED <<outcome, tree>> /\ expect(Literals)
      /\ Becomes(Has(Top, Leaf(Len(tokens) + 1)))
  BY DEF ReadLiteral, At, Here, Marked, Moved, Continues, Returns, ReturnsIn
<1>2. Literals \subseteq TokenTypes
  BY DEF TokenTypes, Literals, UnaryOperators
<1>3. current \in Literals /\ Reads /\ Proceeds(0)
  <2>1. current \in Literals /\ Proceeds(Nesting(current)) /\ Reads
    BY <1>1, <1>2, Reading
  <2>2. Nesting(current) = 0
    BY <2>1, NestingIs
  <2> QED  BY <2>1, <2>2
<1>4. PICK f : f = Has(Top, Leaf(Len(tokens) + 1))
  OBVIOUS
<1>5. /\ WellMade(f, Len(tokens')) /\ f.at = "loop"
      /\ f = Shape("loop", Top.min, Top.op, Leaf(Len(tokens) + 1), <<>>)
  <2>1. Changes(Top, Len(tokens'))
    BY <1>1, <1>3, TopChanges
  <2>2. Leaf(Len(tokens) + 1) # NoExpr
    BY NodesAreExpressions
  <2> QED  BY <1>4, <2>1, <2>2 DEF Changes
<1>6. 0 = Weigh(f.at) - Weigh(Top.at) /\ f.at \in Working
  BY <1>1, <1>5, SiteIs
<1>7. Typed' /\ Replaces(frames, frames', Len(frames), f)
  BY <1>1, <1>3, <1>4, <1>5, <1>6, Becoming
<1> QED  BY <1>3, <1>5, <1>7 DEF ReadLiteralDoes

OpenGroupDoes ==
  /\ current \in {"OPEN_PAREN"} /\ Reads
  /\ Pushes(frames, frames', Len(frames),
            Shape("group", Top.min, Top.op, Top.left, Top.parts), 0)
LEMMA OpenGroupTyped ==
  ASSUME Typed, OpenGroup
  PROVE  Typed' /\ OpenGroupDoes
<1>1. /\ outcome = "parsing" /\ Top.at = "operand"
      /\ UNCHANGED <<outcome, tree>> /\ expect({"OPEN_PAREN"})
      /\ Calls(Moved(Top, "group"), 0)
  BY DEF OpenGroup, At, Here, Marked, Moved, Continues, Returns, ReturnsIn
<1>2. {"OPEN_PAREN"} \subseteq TokenTypes
  BY DEF TokenTypes, Literals, UnaryOperators
<1>3. current \in {"OPEN_PAREN"} /\ Reads /\ Proceeds(1)
  <2>1. current \in {"OPEN_PAREN"} /\ Proceeds(Nesting(current)) /\ Reads
    BY <1>1, <1>2, Reading
  <2>2. Nesting(current) = 1
    <3>1. current \in Openers
      BY <2>1 DEF Openers
    <3> QED  BY <3>1, NestingIs
  <2> QED  BY <2>1, <2>2
<1>4. PICK f : f = Moved(Top, "group")
  OBVIOUS
<1>5. /\ WellMade(f, Len(tokens')) /\ f.at = "group"
      /\ f = Shape("group", Top.min, Top.op, Top.left, Top.parts)
  <2>1. Changes(Top, Len(tokens'))
    BY <1>1, <1>3, TopChanges
  <2>2. "group" \in LeftMissing <=> Top.at \in LeftMissing
    BY <1>1, SiteIs
  <2> QED  BY <1>4, <2>1, <2>2 DEF Changes
<1>6. 1 = Weigh(f.at) - Weigh(Top.at) /\ f.at \in Awaiting
  BY <1>1, <1>5, SiteIs
<1>7. Typed' /\ Pushes(frames, frames', Len(frames), f, 0)
  BY <1>1, <1>3, <1>4, <1>5, <1>6, Calling
<1> QED  BY <1>3, <1>5, <1>7 DEF OpenGroupDoes

OpenArrayDoes ==
  /\ current \in {"OPEN_BRACKET"} /\ Reads
  /\ Replaces(frames, frames', Len(frames),
              Shape("array", Top.min, Top.op, Top.left, Top.parts))
LEMMA OpenArrayTyped ==
  ASSUME Typed, OpenArray
  PROVE  Typed' /\ OpenArrayDoes
<1>1. /\ outcome = "parsing" /\ Top.at = "operand"
      /\ UNCHANGED <<outcome, tree>> /\ expect({"OPEN_BRACKET"})
      /\ Becomes(Moved(Top, "array"))
  BY DEF OpenArray, At, Here, Marked, Moved, Continues, Returns, ReturnsIn
<1>2. {"OPEN_BRACKET"} \subseteq TokenTypes
  BY DEF TokenTypes, Literals, UnaryOperators
<1>3. current \in {"OPEN_BRACKET"} /\ Reads /\ Proceeds(1)
  <2>1. current \in {"OPEN_BRACKET"} /\ Proceeds(Nesting(current)) /\ Reads
    BY <1>1, <1>2, Reading
  <2>2. Nesting(current) = 1
    <3>1. current \in Openers
      BY <2>1 DEF Openers
    <3> QED  BY <3>1, NestingIs
  <2> QED  BY <2>1, <2>2
<1>4. PICK f : f = Moved(Top, "array")
  OBVIOUS
<1>5. /\ WellMade(f, Len(tokens')) /\ f.at = "array"
      /\ f = Shape("array", Top.min, Top.op, Top.left, Top.parts)
  <2>1. Changes(Top, Len(tokens'))
    BY <1>1, <1>3, TopChanges
  <2>2. "array" \in LeftMissing <=> Top.at \in LeftMissing
    BY <1>1, SiteIs
  <2> QED  BY <1>4, <2>1, <2>2 DEF Changes
<1>6. 1 = Weigh(f.at) - Weigh(Top.at) /\ f.at \in Working
  BY <1>1, <1>5, SiteIs
<1>7. Typed' /\ Replaces(frames, frames', Len(frames), f)
  BY <1>1, <1>3, <1>4, <1>5, <1>6, Becoming
<1> QED  BY <1>3, <1>5, <1>7 DEF OpenArrayDoes

OpenCallDoes ==
  /\ current \in {"OPEN_PAREN"} /\ Reads
  /\ Replaces(frames, frames', Len(frames),
              Shape("call", Top.min, Top.op, Top.left, Top.parts))
LEMMA OpenCallTyped ==
  ASSUME Typed, OpenCall
  PROVE  Typed' /\ OpenCallDoes
<1>1. /\ outcome = "parsing" /\ Top.at = "loop"
      /\ UNCHANGED <<outcome, tree>> /\ expect({"OPEN_PAREN"})
      /\ Becomes(Moved(Top, "call"))
  BY DEF OpenCall, At, Here, Marked, Moved, Continues, Returns, ReturnsIn
<1>2. {"OPEN_PAREN"} \subseteq TokenTypes
  BY DEF TokenTypes, Literals, UnaryOperators
<1>3. current \in {"OPEN_PAREN"} /\ Reads /\ Proceeds(1)
  <2>1. current \in {"OPEN_PAREN"} /\ Proceeds(Nesting(current)) /\ Reads
    BY <1>1, <1>2, Reading
  <2>2. Nesting(current) = 1
    <3>1. current \in Openers
      BY <2>1 DEF Openers
    <3> QED  BY <3>1, NestingIs
  <2> QED  BY <2>1, <2>2
<1>4. PICK f : f = Moved(Top, "call")
  OBVIOUS
<1>5. /\ WellMade(f, Len(tokens')) /\ f.at = "call"
      /\ f = Shape("call", Top.min, Top.op, Top.left, Top.parts)
  <2>1. Changes(Top, Len(tokens'))
    BY <1>1, <1>3, TopChanges
  <2>2. "call" \in LeftMissing <=> Top.at \in LeftMissing
    BY <1>1, SiteIs
  <2> QED  BY <1>4, <2>1, <2>2 DEF Changes
<1>6. 1 = Weigh(f.at) - Weigh(Top.at) /\ f.at \in Working
  BY <1>1, <1>5, SiteIs
<1>7. Typed' /\ Replaces(frames, frames', Len(frames), f)
  BY <1>1, <1>3, <1>4, <1>5, <1>6, Becoming
<1> QED  BY <1>3, <1>5, <1>7 DEF OpenCallDoes

OpenIndexDoes ==
  /\ current \in {"OPEN_BRACKET"} /\ Reads
  /\ Pushes(frames, frames', Len(frames),
            Shape("index", Top.min, Top.op, Top.left, Top.parts), 0)
LEMMA OpenIndexTyped ==
  ASSUME Typed, OpenIndex
  PROVE  Typed' /\ OpenIndexDoes
<1>1. /\ outcome = "parsing" /\ Top.at = "loop"
      /\ UNCHANGED <<outcome, tree>> /\ expect({"OPEN_BRACKET"})
      /\ Calls(Moved(Top, "index"), 0)
  BY DEF OpenIndex, At, Here, Marked, Moved, Continues, Returns, ReturnsIn
<1>2. {"OPEN_BRACKET"} \subseteq TokenTypes
  BY DEF TokenTypes, Literals, UnaryOperators
<1>3. current \in {"OPEN_BRACKET"} /\ Reads /\ Proceeds(1)
  <2>1. current \in {"OPEN_BRACKET"} /\ Proceeds(Nesting(current)) /\ Reads
    BY <1>1, <1>2, Reading
  <2>2. Nesting(current) = 1
    <3>1. current \in Openers
      BY <2>1 DEF Openers
    <3> QED  BY <3>1, NestingIs
  <2> QED  BY <2>1, <2>2
<1>4. PICK f : f = Moved(Top, "index")
  OBVIOUS
<1>5. /\ WellMade(f, Len(tokens')) /\ f.at = "index"
      /\ f = Shape("index", Top.min, Top.op, Top.left, Top.parts)
  <2>1. Changes(Top, Len(tokens'))
    BY <1>1, <1>3, TopChanges
  <2>2. "index" \in LeftMissing <=> Top.at \in LeftMissing
    BY <1>1, SiteIs
  <2> QED  BY <1>4, <2>1, <2>2 DEF Changes
<1>6. 1 = Weigh(f.at) - Weigh(Top.at) /\ f.at \in Awaiting
  BY <1>1, <1>5, SiteIs
<1>7. Typed' /\ Pushes(frames, frames', Len(frames), f, 0)
  BY <1>1, <1>3, <1>4, <1>5, <1>6, Calling
<1> QED  BY <1>3, <1>5, <1>7 DEF OpenIndexDoes

EndUnaryDoes ==
  /\ Peek
  /\ Replaces(frames, frames', Len(frames) - 1,
              Shape("loop", Caller.min, Caller.op, UnaryNode(Caller.op, Top.left), <<>>))
LEMMA EndUnaryTyped ==
  ASSUME Typed, EndUnary
  PROVE  Typed' /\ EndUnaryDoes
<1>1. /\ outcome = "parsing" /\ Top.at = "loop" /\ Len(frames) > 1 /\ Caller.at = "unary"
      /\ UNCHANGED <<outcome, tree>> /\ Peek
      /\ ReturnsTo(Has(Caller, UnaryNode(Caller.op, Top.left)))
  BY DEF EndUnary, At, Here, Marked, Moved, Continues, Returns, ReturnsIn
<1>3. Proceeds(0) /\ Peek
  BY <1>1, Peeking
<1>4. PICK f : f = Has(Caller, UnaryNode(Caller.op, Top.left))
  OBVIOUS
<1>5. /\ WellMade(f, Len(tokens')) /\ f.at = "loop"
      /\ f = Shape("loop", Caller.min, Caller.op, UnaryNode(Caller.op, Top.left), <<>>)
  <2>1. Changes(Caller, Len(tokens'))
    BY <1>1, <1>3, TopChanges
  <2>2. UnaryNode(Caller.op, Top.left) # NoExpr
    BY NodesAreExpressions
  <2> QED  BY <1>4, <2>1, <2>2 DEF Changes
<1>6. 0 = Weigh(f.at) - Weigh(Caller.at) /\ f.at \in Working
  BY <1>1, <1>5, SiteIs
<1>7. Typed' /\ Replaces(frames, frames', Len(frames) - 1, f)
  BY <1>1, <1>3, <1>4, <1>5, <1>6, Returning
<1> QED  BY <1>3, <1>5, <1>7 DEF EndUnaryDoes

EndBinaryDoes ==
  /\ Peek
  /\ Replaces(frames, frames', Len(frames) - 1,
              Shape("loop", Caller.min, Caller.op,
                    createBinaryNode(Caller.op, Caller.left, Top.left), <<>>))
LEMMA EndBinaryTyped ==
  ASSUME Typed, EndBinary
  PROVE  Typed' /\ EndBinaryDoes
<1>1. /\ outcome = "parsing" /\ Top.at = "loop" /\ Len(frames) > 1 /\ Caller.at = "binary"
      /\ UNCHANGED <<outcome, tree>> /\ Peek
      /\ ReturnsTo(Has(Caller, createBinaryNode(Caller.op, Caller.left, Top.left)))
  BY DEF EndBinary, At, Here, Marked, Moved, Continues, Returns, ReturnsIn
<1>3. Proceeds(0) /\ Peek
  BY <1>1, Peeking
<1>4. PICK f : f = Has(Caller, createBinaryNode(Caller.op, Caller.left, Top.left))
  OBVIOUS
<1>5. /\ WellMade(f, Len(tokens')) /\ f.at = "loop"
      /\ f = Shape("loop", Caller.min, Caller.op,
                    createBinaryNode(Caller.op, Caller.left, Top.left), <<>>)
  <2>1. Changes(Caller, Len(tokens'))
    BY <1>1, <1>3, TopChanges
  <2>2. createBinaryNode(Caller.op, Caller.left, Top.left) # NoExpr
    BY NodesAreExpressions
  <2> QED  BY <1>4, <2>1, <2>2 DEF Changes
<1>6. 0 = Weigh(f.at) - Weigh(Caller.at) /\ f.at \in Working
  BY <1>1, <1>5, SiteIs
<1>7. Typed' /\ Replaces(frames, frames', Len(frames) - 1, f)
  BY <1>1, <1>3, <1>4, <1>5, <1>6, Returning
<1> QED  BY <1>3, <1>5, <1>7 DEF EndBinaryDoes

EndGroupDoes ==
  /\ current \in {"CLOSE_PAREN"} /\ Reads
  /\ Replaces(frames, frames', Len(frames) - 1,
              Shape("loop", Caller.min, Caller.op, Top.left, <<>>))
LEMMA EndGroupTyped ==
  ASSUME Typed, EndGroup
  PROVE  Typed' /\ EndGroupDoes
<1>1. /\ outcome = "parsing" /\ Top.at = "loop" /\ Len(frames) > 1 /\ Caller.at = "group"
      /\ UNCHANGED <<outcome, tree>> /\ expect({"CLOSE_PAREN"})
      /\ ReturnsTo(Has(Caller, Top.left))
  BY DEF EndGroup, At, Here, Marked, Moved, Continues, Returns, ReturnsIn
<1>2. {"CLOSE_PAREN"} \subseteq TokenTypes
  BY DEF TokenTypes, Literals, UnaryOperators
<1>3. current \in {"CLOSE_PAREN"} /\ Reads /\ Proceeds(-1)
  <2>1. current \in {"CLOSE_PAREN"} /\ Proceeds(Nesting(current)) /\ Reads
    BY <1>1, <1>2, Reading
  <2>2. Nesting(current) = -1
    <3>1. current \in Closers
      BY <2>1 DEF Closers
    <3> QED  BY <3>1, NestingIs
  <2> QED  BY <2>1, <2>2
<1>4. PICK f : f = Has(Caller, Top.left)
  OBVIOUS
<1>5. /\ WellMade(f, Len(tokens')) /\ f.at = "loop"
      /\ f = Shape("loop", Caller.min, Caller.op, Top.left, <<>>)
  <2>1. Changes(Caller, Len(tokens'))
    BY <1>1, <1>3, TopChanges
  <2>2. Top.left # NoExpr
    <3>1. WellMade(Top, Len(tokens))
      BY <1>1, TopIs
    <3> QED  BY <1>1, <3>1 DEF WellMade
  <2> QED  BY <1>4, <2>1, <2>2 DEF Changes
<1>6. -1 = Weigh(f.at) - Weigh(Caller.at) /\ f.at \in Working
  BY <1>1, <1>5, SiteIs
<1>7. Typed' /\ Replaces(frames, frames', Len(frames) - 1, f)
  BY <1>1, <1>3, <1>4, <1>5, <1>6, Returning
<1> QED  BY <1>3, <1>5, <1>7 DEF EndGroupDoes

EndIndexDoes ==
  /\ current \in {"CLOSE_BRACKET"} /\ Reads
  /\ Replaces(frames, frames', Len(frames) - 1,
              Shape("loop", Caller.min, Caller.op, AccessNode(Caller.left, Top.left), <<>>))
LEMMA EndIndexTyped ==
  ASSUME Typed, EndIndex
  PROVE  Typed' /\ EndIndexDoes
<1>1. /\ outcome = "parsing" /\ Top.at = "loop" /\ Len(frames) > 1 /\ Caller.at = "index"
      /\ UNCHANGED <<outcome, tree>> /\ expect({"CLOSE_BRACKET"})
      /\ ReturnsTo(Has(Caller, AccessNode(Caller.left, Top.left)))
  BY DEF EndIndex, At, Here, Marked, Moved, Continues, Returns, ReturnsIn
<1>2. {"CLOSE_BRACKET"} \subseteq TokenTypes
  BY DEF TokenTypes, Literals, UnaryOperators
<1>3. current \in {"CLOSE_BRACKET"} /\ Reads /\ Proceeds(-1)
  <2>1. current \in {"CLOSE_BRACKET"} /\ Proceeds(Nesting(current)) /\ Reads
    BY <1>1, <1>2, Reading
  <2>2. Nesting(current) = -1
    <3>1. current \in Closers
      BY <2>1 DEF Closers
    <3> QED  BY <3>1, NestingIs
  <2> QED  BY <2>1, <2>2
<1>4. PICK f : f = Has(Caller, AccessNode(Caller.left, Top.left))
  OBVIOUS
<1>5. /\ WellMade(f, Len(tokens')) /\ f.at = "loop"
      /\ f = Shape("loop", Caller.min, Caller.op, AccessNode(Caller.left, Top.left), <<>>)
  <2>1. Changes(Caller, Len(tokens'))
    BY <1>1, <1>3, TopChanges
  <2>2. AccessNode(Caller.left, Top.left) # NoExpr
    BY NodesAreExpressions
  <2> QED  BY <1>4, <2>1, <2>2 DEF Changes
<1>6. -1 = Weigh(f.at) - Weigh(Caller.at) /\ f.at \in Working
  BY <1>1, <1>5, SiteIs
<1>7. Typed' /\ Replaces(frames, frames', Len(frames) - 1, f)
  BY <1>1, <1>3, <1>4, <1>5, <1>6, Returning
<1> QED  BY <1>3, <1>5, <1>7 DEF EndIndexDoes

EndCallDoes ==
  /\ current \in {"CLOSE_PAREN"} /\ Reads
  /\ Replaces(frames, frames', Len(frames),
              Shape("loop", Top.min, Top.op, CallNode(Top.left, Top.parts), <<>>))
LEMMA EndCallTyped ==
  ASSUME Typed, EndCall
  PROVE  Typed' /\ EndCallDoes
<1>1. /\ outcome = "parsing" /\ Top.at = "call"
      /\ UNCHANGED <<outcome, tree>> /\ expect({"CLOSE_PAREN"})
      /\ Becomes(Has(Top, CallNode(Top.left, Top.parts)))
  BY DEF EndCall, At, Here, Marked, Moved, Continues, Returns, ReturnsIn
<1>2. {"CLOSE_PAREN"} \subseteq TokenTypes
  BY DEF TokenTypes, Literals, UnaryOperators
<1>3. current \in {"CLOSE_PAREN"} /\ Reads /\ Proceeds(-1)
  <2>1. current \in {"CLOSE_PAREN"} /\ Proceeds(Nesting(current)) /\ Reads
    BY <1>1, <1>2, Reading
  <2>2. Nesting(current) = -1
    <3>1. current \in Closers
      BY <2>1 DEF Closers
    <3> QED  BY <3>1, NestingIs
  <2> QED  BY <2>1, <2>2
<1>4. PICK f : f = Has(Top, CallNode(Top.left, Top.parts))
  OBVIOUS
<1>5. /\ WellMade(f, Len(tokens')) /\ f.at = "loop"
      /\ f = Shape("loop", Top.min, Top.op, CallNode(Top.left, Top.parts), <<>>)
  <2>1. Changes(Top, Len(tokens'))
    BY <1>1, <1>3, TopChanges
  <2>2. CallNode(Top.left, Top.parts) # NoExpr
    BY NodesAreExpressions
  <2> QED  BY <1>4, <2>1, <2>2 DEF Changes
<1>6. -1 = Weigh(f.at) - Weigh(Top.at) /\ f.at \in Working
  BY <1>1, <1>5, SiteIs
<1>7. Typed' /\ Replaces(frames, frames', Len(frames), f)
  BY <1>1, <1>3, <1>4, <1>5, <1>6, Becoming
<1> QED  BY <1>3, <1>5, <1>7 DEF EndCallDoes

EndArrayDoes ==
  /\ current \in {"CLOSE_BRACKET"} /\ Reads
  /\ Replaces(frames, frames', Len(frames),
              Shape("loop", Top.min, Top.op, ArrayNode(Top.parts), <<>>))
LEMMA EndArrayTyped ==
  ASSUME Typed, EndArray
  PROVE  Typed' /\ EndArrayDoes
<1>1. /\ outcome = "parsing" /\ Top.at = "array"
      /\ UNCHANGED <<outcome, tree>> /\ expect({"CLOSE_BRACKET"})
      /\ Becomes(Has(Top, ArrayNode(Top.parts)))
  BY DEF EndArray, At, Here, Marked, Moved, Continues, Returns, ReturnsIn
<1>2. {"CLOSE_BRACKET"} \subseteq TokenTypes
  BY DEF TokenTypes, Literals, UnaryOperators
<1>3. current \in {"CLOSE_BRACKET"} /\ Reads /\ Proceeds(-1)
  <2>1. current \in {"CLOSE_BRACKET"} /\ Proceeds(Nesting(current)) /\ Reads
    BY <1>1, <1>2, Reading
  <2>2. Nesting(current) = -1
    <3>1. current \in Closers
      BY <2>1 DEF Closers
    <3> QED  BY <3>1, NestingIs
  <2> QED  BY <2>1, <2>2
<1>4. PICK f : f = Has(Top, ArrayNode(Top.parts))
  OBVIOUS
<1>5. /\ WellMade(f, Len(tokens')) /\ f.at = "loop"
      /\ f = Shape("loop", Top.min, Top.op, ArrayNode(Top.parts), <<>>)
  <2>1. Changes(Top, Len(tokens'))
    BY <1>1, <1>3, TopChanges
  <2>2. ArrayNode(Top.parts) # NoExpr
    BY NodesAreExpressions
  <2> QED  BY <1>4, <2>1, <2>2 DEF Changes
<1>6. -1 = Weigh(f.at) - Weigh(Top.at) /\ f.at \in Working
  BY <1>1, <1>5, SiteIs
<1>7. Typed' /\ Replaces(frames, frames', Len(frames), f)
  BY <1>1, <1>3, <1>4, <1>5, <1>6, Becoming
<1> QED  BY <1>3, <1>5, <1>7 DEF EndArrayDoes

ReadOperatorDoes ==
  /\ IsOperator(current) /\ getPrecedence(current) >= Top.min /\ Reads
  /\ Pushes(frames, frames', Len(frames),
            Shape("binary", Top.min, Len(tokens) + 1, Top.left, Top.parts),
            getPrecedence(current) + 1)
LEMMA ReadOperatorTyped ==
  ASSUME Typed, ReadOperator
  PROVE  Typed' /\ ReadOperatorDoes
<1>1. /\ outcome = "parsing" /\ Top.at = "loop" /\ ~ Breaks
      /\ UNCHANGED <<outcome, tree>> /\ expect(TokenTypes \ {"OPEN_PAREN", "OPEN_BRACKET"})
      /\ Calls(Marked(Top, "binary", Len(tokens) + 1), getPrecedence(current) + 1)
  BY DEF ReadOperator, At, Here, Marked, Continues
<1>2. TokenTypes \ {"OPEN_PAREN", "OPEN_BRACKET"} \subseteq TokenTypes
  OBVIOUS
<1>3. /\ current \in TokenTypes \ {"OPEN_PAREN", "OPEN_BRACKET"} /\ Reads
      /\ Proceeds(Nesting(current))
  BY <1>1, <1>2, Reading
<1>4. PICK t : t = current
  OBVIOUS
<1>5. /\ IsOperator(t) /\ getPrecedence(t) >= Top.min
      /\ getPrecedence(t) + 1 \in {0, 6, 11, 21, 31, 40}
  BY <1>1, <1>3, <1>4, ContinuesWith
<1>6. Proceeds(0)
  <2>1. Nesting(t) = 0
    BY <1>5, NestingIs
  <2> QED  BY <1>3, <1>4, <2>1
<1>7. PICK f : f = Marked(Top, "binary", Len(tokens) + 1)
  OBVIOUS
<1>8. /\ WellMade(f, Len(tokens')) /\ f.at = "binary"
      /\ f = Shape("binary", Top.min, Len(tokens) + 1, Top.left, Top.parts)
  <2>1. Changes(Top, Len(tokens'))
    BY <1>1, <1>6, TopChanges
  <2>2. Len(tokens') = Len(tokens) + 1 /\ Len(tokens) \in Nat
    BY <1>3 DEF Reads, Proceeds
  <2>3. Len(tokens) + 1 \in 0..Len(tokens')
    BY <2>2
  <2>4. "binary" \in LeftMissing <=> Top.at \in LeftMissing
    BY <1>1, SiteIs
  <2> QED  BY <1>7, <2>1, <2>3, <2>4 DEF Changes
<1>9. 0 = Weigh(f.at) - Weigh(Top.at) /\ f.at \in Awaiting
  BY <1>1, <1>8, SiteIs
<1>10. PICK min \in {0, 6, 11, 21, 31, 40} : min = getPrecedence(t) + 1
  BY <1>5
<1>11. Typed' /\ Pushes(frames, frames', Len(frames), f, min)
  BY <1>1, <1>4, <1>6, <1>7, <1>8, <1>9, <1>10, Calling
<1> QED  BY <1>3, <1>4, <1>5, <1>8, <1>10, <1>11 DEF ReadOperatorDoes

NextArgumentDoes == Peek /\ Pushes(frames, frames', Len(frames), Top, 0)
LEMMA NextArgumentTyped ==
  ASSUME Typed, NextArgument
  PROVE  Typed' /\ NextArgumentDoes
<1>1. /\ outcome = "parsing" /\ Top.at = "call" /\ UNCHANGED <<outcome, tree>> /\ Peek
      /\ frames' = Append(frames, Operand(0))
  BY DEF NextArgument, At
<1>2. Proceeds(0)
  BY <1>1, Peeking
<1>3. PICK f : f = Top
  OBVIOUS
<1>4. WellMade(f, Len(tokens'))
  BY <1>2, <1>3, TopChanges DEF Changes
<1>5. 0 = Weigh(f.at) - Weigh(Top.at) /\ f.at \in Awaiting
  BY <1>1, <1>3, SiteIs
<1>6. Typed' /\ Pushes(frames, frames', Len(frames), f, 0)
  BY <1>1, <1>2, <1>3, <1>4, <1>5, Calling
<1> QED  BY <1>1, <1>3, <1>6 DEF NextArgumentDoes

NextElementDoes == Peek /\ Pushes(frames, frames', Len(frames), Top, 0)
LEMMA NextElementTyped ==
  ASSUME Typed, NextElement
  PROVE  Typed' /\ NextElementDoes
<1>1. /\ outcome = "parsing" /\ Top.at = "array" /\ UNCHANGED <<outcome, tree>> /\ Peek
      /\ frames' = Append(frames, Operand(0))
  BY DEF NextElement, At
<1>2. Proceeds(0)
  BY <1>1, Peeking
<1>3. PICK f : f = Top
  OBVIOUS
<1>4. WellMade(f, Len(tokens'))
  BY <1>2, <1>3, TopChanges DEF Changes
<1>5. 0 = Weigh(f.at) - Weigh(Top.at) /\ f.at \in Awaiting
  BY <1>1, <1>3, SiteIs
<1>6. Typed' /\ Pushes(frames, frames', Len(frames), f, 0)
  BY <1>1, <1>2, <1>3, <1>4, <1>5, Calling
<1> QED  BY <1>1, <1>3, <1>6 DEF NextElementDoes

EndArgumentDoes ==
  /\ (current = "COMMA" /\ Reads) \/ (current # "COMMA" /\ Peek)
  /\ Replaces(frames, frames', Len(frames) - 1,
              Shape("call", Caller.min, Caller.op, Caller.left, Append(Caller.parts, Top.left)))
LEMMA EndArgumentTyped ==
  ASSUME Typed, EndArgument
  PROVE  Typed' /\ EndArgumentDoes
<1>1. /\ outcome = "parsing" /\ Top.at = "loop" /\ Len(frames) > 1 /\ Caller.at = "call"
      /\ UNCHANGED <<outcome, tree>>
      /\ ReturnsTo(Lengthened(Caller, Append(Caller.parts, Top.left)))
  BY DEF EndArgument, At, Returns, ReturnsIn, WithPart, Lengthened
<1>2. (current = "COMMA" /\ expect({"COMMA"})) \/ (current # "COMMA" /\ Peek)
  BY DEF EndArgument
<1>3. Proceeds(0) /\ ((current = "COMMA" /\ Reads) \/ (current # "COMMA" /\ Peek))
  <2>1. CASE expect({"COMMA"})
    <3>1. {"COMMA"} \subseteq TokenTypes
      BY DEF TokenTypes
    <3>2. current \in {"COMMA"} /\ Proceeds(Nesting(current)) /\ Reads
      BY <1>1, <2>1, <3>1, Reading
    <3>3. Nesting(current) = 0
      BY <3>2, NestingIs
    <3> QED  BY <3>2, <3>3
  <2>2. CASE Peek /\ ~ expect({"COMMA"})
    BY <1>1, <1>2, <2>2, Peeking
  <2> QED  BY <1>2, <2>1, <2>2
<1>4. PICK f : f = Lengthened(Caller, Append(Caller.parts, Top.left))
  OBVIOUS
<1>5. /\ WellMade(f, Len(tokens')) /\ f.at = "call"
      /\ f = Shape("call", Caller.min, Caller.op, Caller.left, Append(Caller.parts, Top.left))
  <2>1. Changes(Caller, Len(tokens'))
    BY <1>1, <1>3, TopChanges
  <2> QED  BY <1>1, <1>4, <2>1 DEF Changes
<1>6. 0 = Weigh(f.at) - Weigh(Caller.at) /\ f.at \in Working
  BY <1>1, <1>5, SiteIs
<1>7. Typed' /\ Replaces(frames, frames', Len(frames) - 1, f)
  BY <1>1, <1>3, <1>4, <1>5, <1>6, Returning
<1> QED  BY <1>3, <1>5, <1>7 DEF EndArgumentDoes

EndElementDoes ==
  /\ (current = "COMMA" /\ Reads) \/ (current = "CLOSE_BRACKET" /\ Peek)
  /\ Replaces(frames, frames', Len(frames) - 1,
              Shape("array", Caller.min, Caller.op, Caller.left, Append(Caller.parts, Top.left)))
LEMMA EndElementTyped ==
  ASSUME Typed, EndElement
  PROVE  Typed' /\ EndElementDoes
<1>1. /\ outcome = "parsing" /\ Top.at = "loop" /\ Len(frames) > 1 /\ Caller.at = "array"
      /\ UNCHANGED <<outcome, tree>>
      /\ ReturnsTo(Lengthened(Caller, Append(Caller.parts, Top.left)))
  BY DEF EndElement, At, Returns, ReturnsIn, WithPart, Lengthened
<1>2. expect({"COMMA"}) \/ (current = "CLOSE_BRACKET" /\ Peek)
  BY DEF EndElement
<1>3. Proceeds(0) /\ ((current = "COMMA" /\ Reads) \/ (current = "CLOSE_BRACKET" /\ Peek))
  <2>1. CASE expect({"COMMA"})
    <3>1. {"COMMA"} \subseteq TokenTypes
      BY DEF TokenTypes
    <3>2. current \in {"COMMA"} /\ Proceeds(Nesting(current)) /\ Reads
      BY <1>1, <2>1, <3>1, Reading
    <3>3. Nesting(current) = 0
      BY <3>2, NestingIs
    <3> QED  BY <3>2, <3>3
  <2>2. CASE Peek /\ ~ expect({"COMMA"})
    BY <1>1, <1>2, <2>2, Peeking
  <2> QED  BY <1>2, <2>1, <2>2
<1>4. PICK f : f = Lengthened(Caller, Append(Caller.parts, Top.left))
  OBVIOUS
<1>5. /\ WellMade(f, Len(tokens')) /\ f.at = "array"
      /\ f = Shape("array", Caller.min, Caller.op, Caller.left, Append(Caller.parts, Top.left))
  <2>1. Changes(Caller, Len(tokens'))
    BY <1>1, <1>3, TopChanges
  <2> QED  BY <1>1, <1>4, <2>1 DEF Changes
<1>6. 0 = Weigh(f.at) - Weigh(Caller.at) /\ f.at \in Working
  BY <1>1, <1>5, SiteIs
<1>7. Typed' /\ Replaces(frames, frames', Len(frames) - 1, f)
  BY <1>1, <1>3, <1>4, <1>5, <1>6, Returning
<1> QED  BY <1>3, <1>5, <1>7 DEF EndElementDoes

LEMMA StoppingTyped ==
  ASSUME Typed, Return \/ Throw
  PROVE  Typed'
<1>1. frames' = <<>> /\ tokens' = tokens /\ current' = current /\ outcome = "parsing"
  BY DEF Return, Throw, Peek, At, Returns, ReturnsIn
<1>2. outcome' \in {"done", "error"} /\ (outcome' = "done" <=> tree' # NoExpr)
  <2>1. CASE Return
    <3>1. Top.at = "loop" /\ outcome' = "done" /\ tree' = Top.left
      BY <2>1 DEF Return, Returns, At
    <3>2. Top.left # NoExpr
      BY <1>1, <3>1, TopIs DEF WellMade
    <3> QED  BY <3>1, <3>2
  <2>2. CASE Throw
    BY <1>1, <2>2 DEF Throw, Typed
  <2> QED  BY <2>1, <2>2
<1>3. Stacked(frames', Len(tokens')) /\ Len(frames') = 0
  BY <1>1 DEF Stacked, Stack
<1> QED  BY <1>1, <1>2, <1>3 DEF Typed

LEMMA NextTyped ==
  ASSUME Typed, [Next]_vars
  PROVE  Typed'
<1>1. CASE ReadUnary        BY <1>1, ReadUnaryTyped
<1>2. CASE ReadLiteral      BY <1>2, ReadLiteralTyped
<1>3. CASE OpenGroup        BY <1>3, OpenGroupTyped
<1>4. CASE OpenArray        BY <1>4, OpenArrayTyped
<1>5. CASE OpenCall         BY <1>5, OpenCallTyped
<1>6. CASE OpenIndex        BY <1>6, OpenIndexTyped
<1>7. CASE ReadOperator     BY <1>7, ReadOperatorTyped
<1>8. CASE Return \/ Throw  BY <1>8, StoppingTyped
<1>9. CASE EndUnary         BY <1>9, EndUnaryTyped
<1>10. CASE EndBinary       BY <1>10, EndBinaryTyped
<1>11. CASE EndGroup        BY <1>11, EndGroupTyped
<1>12. CASE EndIndex        BY <1>12, EndIndexTyped
<1>13. CASE NextArgument    BY <1>13, NextArgumentTyped
<1>14. CASE EndArgument     BY <1>14, EndArgumentTyped
<1>15. CASE EndCall         BY <1>15, EndCallTyped
<1>16. CASE NextElement     BY <1>16, NextElementTyped
<1>17. CASE EndElement      BY <1>17, EndElementTyped
<1>18. CASE EndArray        BY <1>18, EndArrayTyped
<1>19. CASE UNCHANGED vars
  BY <1>19 DEF vars, Typed
<1> QED
  BY <1>1, <1>2, <1>3, <1>4, <1>5, <1>6, <1>7, <1>8, <1>9, <1>10, <1>11, <1>12, <1>13, <1>14,
     <1>15, <1>16, <1>17, <1>18, <1>19 DEF Next

(* The calls of the parser nest: the innermost one is at work, every other *)
(* one waits for the one above it with what it knows of its construct, and *)
(* one waits for every bracket that is open.                               *)
THEOREM TypeCorrect == Spec => []TypeOK
<1>1. Init => Typed
  BY InitTyped
<1>2. Typed /\ [Next]_vars => Typed'
  BY NextTyped
<1>3. Typed => TypeOK
  BY TypedImplies
<1> QED  BY <1>1, <1>2, <1>3, PTL DEF Spec

(***************************************************************************)
(* What the frames know of the tokens: where the call of each began and    *)
(* where its bracket opened (a plan), what it has parsed since, and what   *)
(* the call above it may return.                                           *)
(***************************************************************************)
Postfixes(w, f, g) == Expr(w, g.from, g.open - 1, f.left) /\ Primary(w, g.from, g.open - 1)
Goes(w, o, next, none) == next <= Len(w) => Begins(w, o, next, w[next]) /\ w[next] \notin none
Waits(w, f, g, next, min) ==
  /\ g.from \in Nat \ {0} /\ g.open \in Int /\ next \in Int
  /\ \/ f.at = "unary" /\ f.op = g.from /\ w[g.from] \in UnaryOperators
        /\ next = g.from + 1 /\ min = 40
     \/ /\ f.at = "binary" /\ f.op \in Int /\ Expr(w, g.from, f.op - 1, f.left)
        /\ IsOperator(w[f.op]) /\ Binds(w, g.from, f.op - 1, getPrecedence(w[f.op]))
        /\ getPrecedence(w[f.op]) >= f.min
        /\ next = f.op + 1 /\ min = getPrecedence(w[f.op]) + 1
     \/ f.at = "group" /\ w[g.from] = "OPEN_PAREN" /\ next = g.from + 1 /\ min = 0
     \/ /\ f.at = "index" /\ Postfixes(w, f, g) /\ w[g.open] = "OPEN_BRACKET"
        /\ g.open <= Len(w) /\ next = g.open + 1 /\ min = 0
     \/ /\ f.at = "call" /\ Postfixes(w, f, g) /\ w[g.open] = "OPEN_PAREN" /\ min = 0
        /\ Listed(w, g.open, next - 1, f.parts) /\ Goes(w, g.open, next, NoArgument)
     \/ /\ f.at = "array" /\ g.open = g.from /\ w[g.open] = "OPEN_BRACKET" /\ min = 0
        /\ Listed(w, g.open, next - 1, f.parts) /\ Goes(w, g.open, next, NoElement)
Works(w, n, type, f, g) ==
  /\ g.from \in Nat \ {0} /\ g.open \in Int
  /\ \/ f.at = "operand" /\ g.from = n + 1 /\ f.parts = <<>>
     \/ /\ f.at = "loop" /\ Expr(w, g.from, n, f.left) /\ f.parts = <<>>
        /\ Binds(w, g.from, n, f.min) /\ Binds(w, g.from, n, getPrecedence(type))
        /\ Primary(w, g.from, n) \/ getPrecedence(type) < 40
     \/ /\ f.at = "call" /\ Postfixes(w, f, g) /\ w[g.open] = "OPEN_PAREN"
        /\ Listed(w, g.open, n, f.parts) /\ Begins(w, g.open, n + 1, type)
     \/ /\ f.at = "array" /\ g.open = g.from /\ w[g.open] = "OPEN_BRACKET"
        /\ Listed(w, g.open, n, f.parts)
        /\ Begins(w, g.open, n + 1, type) \/ type = "CLOSE_BRACKET"

Fits(w, n, type, fs, plan) ==
  /\ plan[1].from = 1 /\ fs[1].min = 0
  /\ \A k \in 1..(Len(fs) - 1) : Waits(w, fs[k], plan[k], plan[k + 1].from, fs[k + 1].min)
  /\ Works(w, n, type, fs[Len(fs)], plan[Len(fs)])
Planned(w, n, type, fs) == \E plan : Fits(w, n, type, fs, plan)
Plan(from, open) == [from |-> from, open |-> open]

LEMMA PlanReplaced ==
  ASSUME NEW w, NEW n, NEW type, NEW fs, Len(fs) \in Nat, NEW plan, Fits(w, n, type, fs, plan),
         NEW m \in 1..Len(fs), NEW f, NEW gs, Replaces(fs, gs, m, f), f.min = fs[m].min,
         NEW p, NEW next, NEW g, g.from = plan[m].from, Works(w, p, next, f, g)
  PROVE  Planned(w, p, next, gs)
<1> DEFINE new == [k \in 1..m |-> IF k < m THEN plan[k] ELSE g]
<1>1. new[m] = g /\ \A k \in 1..(m - 1) : new[k] = plan[k]
  OBVIOUS
<1>2. new[1].from = 1
  <2>1. CASE m = 1
    BY <1>1, <2>1 DEF Fits
  <2>2. CASE m > 1
    <3>1. 1 \in 1..(m - 1)
      BY <2>2
    <3> QED  BY <1>1, <3>1 DEF Fits
  <2> QED  BY <2>1, <2>2
<1> HIDE DEF new
<1>3. Len(gs) = m /\ gs[m] = f /\ \A k \in 1..(m - 1) : gs[k] = fs[k]
  BY DEF Replaces
<1>4. ASSUME NEW k \in 1..(m - 1)
      PROVE  Waits(w, gs[k], new[k], new[k + 1].from, gs[k + 1].min)
  <2>1. Waits(w, fs[k], plan[k], plan[k + 1].from, fs[k + 1].min)
    <3>1. k \in 1..(Len(fs) - 1)
      OBVIOUS
    <3> QED  BY <3>1 DEF Fits
  <2>2. new[k + 1].from = plan[k + 1].from /\ gs[k + 1].min = fs[k + 1].min
    <3>1. CASE k + 1 = m
      BY <1>1, <1>3, <3>1
    <3>2. CASE k + 1 # m
      <4>1. k + 1 \in 1..(m - 1)
        BY <3>2
      <4> QED  BY <1>1, <1>3, <4>1
    <3> QED  BY <3>1, <3>2
  <2> QED  BY <1>1, <1>3, <2>1, <2>2
<1>5. gs[1].min = 0
  <2>1. CASE m = 1
    BY <1>3, <2>1 DEF Fits
  <2>2. CASE m > 1
    <3>1. 1 \in 1..(m - 1)
      BY <2>2
    <3> QED  BY <1>3, <3>1 DEF Fits
  <2> QED  BY <2>1, <2>2
<1>6. Fits(w, p, next, gs, new)
  BY <1>1, <1>2, <1>3, <1>4, <1>5 DEF Fits
<1> QED  BY <1>6 DEF Planned

LEMMA PlanPushed ==
  ASSUME NEW w, NEW n, NEW type, NEW fs, Len(fs) \in Nat, Len(fs) > 0, NEW plan,
         Fits(w, n, type, fs, plan), NEW f, NEW min, NEW gs, Pushes(fs, gs, Len(fs), f, min),
         f.min = fs[Len(fs)].min, NEW p \in Nat, NEW next, NEW g, g.from = plan[Len(fs)].from,
         Waits(w, f, g, p + 1, min)
  PROVE  Planned(w, p, next, gs)
<1>0. Len(fs) = 1 \/ Len(fs) > 1
  <2>1. PICK n0 \in Nat : n0 = Len(fs)
    OBVIOUS
  <2>2. n0 > 0
    BY <2>1
  <2>3. n0 = 1 \/ n0 > 1
    BY <2>2
  <2> QED  BY <2>1, <2>3
<1> DEFINE m == Len(fs)
           h == Plan(p + 1, 0)
           new == [k \in 1..(m + 1) |-> IF k < m THEN plan[k] ELSE IF k = m THEN g ELSE h]
<1>1. new[m] = g /\ new[m + 1] = h /\ \A k \in 1..(m - 1) : new[k] = plan[k]
  OBVIOUS
<1>2. new[1].from = 1
  <2>1. CASE m = 1
    BY <1>1, <2>1 DEF Fits
  <2>2. CASE m > 1
    <3>1. 1 \in 1..(m - 1)
      BY <2>2
    <3> QED  BY <1>1, <3>1 DEF Fits
  <2> QED  BY <1>0, <2>1, <2>2
<1>3. h.from = p + 1 /\ h.open = 0
  BY DEF Plan
<1> HIDE DEF new, h
<1>4. /\ Len(gs) = m + 1 /\ gs[m] = f /\ gs[m + 1] = Operand(min)
      /\ \A k \in 1..(m - 1) : gs[k] = fs[k]
  BY DEF Pushes
<1>5. Operand(min).min = min /\ Operand(min).at = "operand" /\ Operand(min).parts = <<>>
  BY DEF Operand
<1>6. ASSUME NEW k \in 1..m
      PROVE  Waits(w, gs[k], new[k], new[k + 1].from, gs[k + 1].min)
  <2>1. CASE k = m
    BY <1>1, <1>3, <1>4, <1>5, <2>1
  <2>2. CASE k # m
    <3>1. k \in 1..(m - 1)
      BY <2>2
    <3>2. Waits(w, fs[k], plan[k], plan[k + 1].from, fs[k + 1].min)
      BY <3>1 DEF Fits
    <3>3. new[k + 1].from = plan[k + 1].from /\ gs[k + 1].min = fs[k + 1].min
      <4>1. CASE k + 1 = m
        BY <1>1, <1>4, <4>1
      <4>2. CASE k + 1 # m
        <5>1. k + 1 \in 1..(m - 1)
          BY <3>1, <4>2
        <5> QED  BY <1>1, <1>4, <5>1
      <4> QED  BY <4>1, <4>2
    <3> QED  BY <1>1, <1>4, <3>1, <3>2, <3>3
  <2> QED  BY <2>1, <2>2
<1>7. Works(w, p, next, gs[m + 1], new[m + 1])
  <2>1. p + 1 \in Nat \ {0}
    OBVIOUS
  <2> QED  BY <1>1, <1>3, <1>4, <1>5, <2>1 DEF Works
<1>8. Len(gs) - 1 = m
  BY <1>4
<1>9. gs[1].min = 0
  <2>1. CASE m = 1
    BY <1>4, <2>1 DEF Fits
  <2>2. CASE m > 1
    <3>1. 1 \in 1..(m - 1)
      BY <2>2
    <3> QED  BY <1>4, <3>1 DEF Fits
  <2> QED  BY <1>0, <2>1, <2>2
<1>10. Fits(w, p, next, gs, new)
  BY <1>2, <1>4, <1>6, <1>7, <1>8, <1>9 DEF Fits
<1> QED  BY <1>10 DEF Planned

LEMMA TopFits ==
  ASSUME NEW w, NEW n, NEW type, NEW fs, Len(fs) \in Nat, Len(fs) > 0, NEW plan,
         Fits(w, n, type, fs, plan)
  PROVE  /\ Works(w, n, type, fs[Len(fs)], plan[Len(fs)])
         /\ Len(fs) > 1 => Waits(w, fs[Len(fs) - 1], plan[Len(fs) - 1], plan[Len(fs)].from,
                                 fs[Len(fs)].min)
<1>1. ASSUME Len(fs) > 1
      PROVE  Waits(w, fs[Len(fs) - 1], plan[Len(fs) - 1], plan[Len(fs)].from, fs[Len(fs)].min)
  <2>1. Len(fs) - 1 \in 1..(Len(fs) - 1) /\ Len(fs) - 1 + 1 = Len(fs)
    BY <1>1
  <2> QED  BY <2>1 DEF Fits
<1> QED  BY <1>1 DEF Fits

(***************************************************************************)
(* What a step makes of the frame it changes.                              *)
(***************************************************************************)
LEMMA PrimaryWorks ==
  ASSUME NEW w, NEW n, NEW next, NEW h, NEW g, g.from \in Nat \ {0}, g.open \in Int,
         h.at = "loop", h.parts = <<>>, Expr(w, g.from, n, h.left), Primary(w, g.from, n)
  PROVE  Works(w, n, next, h, g)
<1>1. Binds(w, g.from, n, h.min) /\ Binds(w, g.from, n, getPrecedence(next))
  BY DEF Primary, Binds
<1> QED  BY <1>1 DEF Works

LEMMA LiteralWorks ==
  ASSUME NEW w, Len(w) \in Nat, NEW n \in Nat, n + 1 <= Len(w), NEW f, NEW g,
         Works(w, n, w[n + 1], f, g), f.at = "operand", w[n + 1] \in Literals,
         NEW h, h.at = "loop", h.left = Leaf(n + 1), h.parts = <<>>, NEW next
  PROVE  Works(w, n + 1, next, h, g)
<1>1. g.from = n + 1 /\ g.from \in Nat \ {0} /\ g.open \in Int
  BY DEF Works
<1>2. PICK j \in 1..Len(w) : j = n + 1
  OBVIOUS
<1>3. Expr(w, j, j, Leaf(j)) /\ Primary(w, j, j)
  BY <1>2, ExprLeaf
<1> QED  BY <1>1, <1>2, <1>3, PrimaryWorks

LEMMA UnaryWaits ==
  ASSUME NEW w, NEW n \in Nat, NEW f, NEW g, Works(w, n, w[n + 1], f, g), f.at = "operand",
         w[n + 1] \in UnaryOperators, NEW h, h.at = "unary", h.op = n + 1
  PROVE  Waits(w, h, g, n + 1 + 1, 40)
<1>1. g.from = n + 1 /\ g.from \in Nat \ {0} /\ g.open \in Int
  BY DEF Works
<1> QED  BY <1>1 DEF Waits

LEMMA GroupWaits ==
  ASSUME NEW w, NEW n \in Nat, NEW f, NEW g, Works(w, n, w[n + 1], f, g), f.at = "operand",
         w[n + 1] = "OPEN_PAREN", NEW h, h.at = "group"
  PROVE  Waits(w, h, g, n + 1 + 1, 0)
<1>1. g.from = n + 1 /\ g.from \in Nat \ {0} /\ g.open \in Int
  BY DEF Works
<1> QED  BY <1>1 DEF Waits

LEMMA ArrayWorks ==
  ASSUME NEW w, Len(w) \in Nat, NEW n \in Nat, n + 1 <= Len(w), NEW f, NEW g,
         Works(w, n, w[n + 1], f, g), f.at = "operand", w[n + 1] = "OPEN_BRACKET",
         NEW h, h.at = "array", h.parts = f.parts, NEW next
  PROVE  Works(w, n + 1, next, h, Plan(g.from, g.from))
<1>1. g.from = n + 1 /\ f.parts = <<>>
  BY DEF Works
<1>2. PICK j \in 1..Len(w) : j = n + 1
  OBVIOUS
<1>3. Listed(w, j, j, <<>>)
  BY <1>2, NothingListed DEF Openers
<1>4. Begins(w, j, j + 1, next)
  BY DEF Begins
<1>5. PICK q : q = Plan(j, j)
  OBVIOUS
<1>6. q.from = j /\ q.open = j /\ j \in Nat \ {0} /\ j \in Int
  BY <1>5 DEF Plan
<1>7. Works(w, j, next, h, q)
  BY <1>1, <1>2, <1>3, <1>4, <1>6 DEF Works
<1> QED  BY <1>1, <1>2, <1>5, <1>7

LEMMA OpenerFollows ==
  ASSUME NEW w, NEW n, NEW type, NEW f, NEW g, Works(w, n, type, f, g), f.at = "loop",
         type \in {"OPEN_PAREN", "OPEN_BRACKET"}
  PROVE  Expr(w, g.from, n, f.left) /\ Primary(w, g.from, n) /\ f.parts = <<>>
         /\ g.from \in Nat \ {0}
<1>1. getPrecedence(type) = 40
  BY PrecedenceIs DEF Openers
<1> QED  BY <1>1 DEF Works

LEMMA CallWorks ==
  ASSUME NEW w, Len(w) \in Nat, NEW n \in Nat, n + 1 <= Len(w), NEW f, NEW g,
         Works(w, n, w[n + 1], f, g), f.at = "loop", w[n + 1] = "OPEN_PAREN",
         NEW h, h.at = "call", h.left = f.left, h.parts = f.parts, NEW next
  PROVE  Works(w, n + 1, next, h, Plan(g.from, n + 1))
<1>1. Expr(w, g.from, n, f.left) /\ Primary(w, g.from, n) /\ f.parts = <<>>
      /\ g.from \in Nat \ {0}
  BY OpenerFollows
<1>2. PICK j \in 1..Len(w) : j = n + 1 /\ j - 1 = n
  OBVIOUS
<1>3. Listed(w, j, j, <<>>)
  BY <1>2, NothingListed DEF Openers
<1>4. Begins(w, j, j + 1, next)
  BY DEF Begins
<1>5. PICK q : q = Plan(g.from, j)
  OBVIOUS
<1>6. q.from = g.from /\ q.open = j /\ j \in Int
  BY <1>5 DEF Plan
<1>7. Postfixes(w, h, q)
  BY <1>1, <1>2, <1>6 DEF Postfixes
<1>8. Works(w, j, next, h, q)
  BY <1>1, <1>2, <1>3, <1>4, <1>6, <1>7 DEF Works
<1> QED  BY <1>2, <1>5, <1>8

LEMMA IndexWaits ==
  ASSUME NEW w, NEW n \in Nat, NEW f, NEW g, Works(w, n, w[n + 1], f, g), f.at = "loop",
         n + 1 <= Len(w), w[n + 1] = "OPEN_BRACKET", NEW h, h.at = "index", h.left = f.left
  PROVE  Waits(w, h, Plan(g.from, n + 1), n + 1 + 1, 0)
<1>1. Expr(w, g.from, n, f.left) /\ Primary(w, g.from, n) /\ g.from \in Nat \ {0}
  BY OpenerFollows
<1>2. PICK j \in Int : j = n + 1 /\ j - 1 = n
  OBVIOUS
<1>3. PICK q : q = Plan(g.from, j)
  OBVIOUS
<1>4. q.from = g.from /\ q.open = j
  BY <1>3 DEF Plan
<1>5. Postfixes(w, h, q)
  BY <1>1, <1>2, <1>4 DEF Postfixes
<1>6. Waits(w, h, q, j + 1, 0)
  BY <1>1, <1>2, <1>4, <1>5 DEF Waits
<1> QED  BY <1>2, <1>3, <1>6

LEMMA OperatorWaits ==
  ASSUME NEW w, NEW n \in Nat, NEW f, NEW g, NEW type, type = w[n + 1],
         Works(w, n, type, f, g), f.at = "loop", IsOperator(type), getPrecedence(type) >= f.min,
         NEW h, h.at = "binary", h.left = f.left, h.min = f.min, h.op = n + 1
  PROVE  Waits(w, h, g, n + 1 + 1, getPrecedence(type) + 1)
<1>1. Expr(w, g.from, n, f.left) /\ Binds(w, g.from, n, getPrecedence(type))
      /\ g.from \in Nat \ {0} /\ g.open \in Int
  BY DEF Works
<1>2. h.op \in Int /\ h.op - 1 = n /\ n + 1 + 1 = h.op + 1 /\ n + 1 + 1 \in Int
  OBVIOUS
<1> QED  BY <1>1, <1>2 DEF Waits

LEMMA PartWaits ==
  ASSUME NEW w, NEW n \in Nat, NEW type, n < Len(w) => w[n + 1] = type,
         NEW f, NEW g, Works(w, n, type, f, g),
         \/ f.at = "call" /\ type \notin NoArgument
         \/ f.at = "array" /\ type \notin NoElement
  PROVE  Waits(w, f, g, n + 1, 0)
<1>1. n + 1 - 1 = n /\ n + 1 \in Int
  OBVIOUS
<1>2. g.from \in Nat \ {0} /\ g.open \in Int
  BY DEF Works
<1>3. Listed(w, g.open, n, f.parts) /\ Begins(w, g.open, n + 1, type)
  BY DEF Works, NoElement
<1>4. \/ f.at = "call" /\ Postfixes(w, f, g) /\ w[g.open] = "OPEN_PAREN"
      \/ f.at = "array" /\ g.open = g.from /\ w[g.open] = "OPEN_BRACKET"
  BY DEF Works
<1>5. n + 1 <= Len(w) => w[n + 1] = type
  BY <1>3 DEF Listed
<1>6. /\ f.at = "call" => Goes(w, g.open, n + 1, NoArgument)
      /\ f.at = "array" => Goes(w, g.open, n + 1, NoElement)
  BY <1>3, <1>5 DEF Goes
<1> QED  BY <1>1, <1>2, <1>3, <1>4, <1>6 DEF Waits

(* A call that has returned.                                               *)
Stops(type, min) ==
  \/ type \in {"SEMICOLON", "OPEN_CURLY", "CLOSE_PAREN", "COMMA"}
  \/ getPrecedence(type) < min

LEMMA StopsAt ==
  ASSUME NEW type, NEW min \in {0, 6, 11, 21, 31, 40}, Stops(type, min)
  PROVE  getPrecedence(type) < min /\ getPrecedence(type) \in {-1, 5, 10, 20, 30, 40}
<1>1. CASE type \in {"SEMICOLON", "OPEN_CURLY", "CLOSE_PAREN", "COMMA"}
  <2>1. getPrecedence(type) = -1
    BY <1>1 DEF getPrecedence
  <2>2. -1 < min
    OBVIOUS
  <2> QED  BY <2>1, <2>2
<1>2. CASE getPrecedence(type) < min
  BY <1>2, PrecedenceIs
<1> QED  BY <1>1, <1>2 DEF Stops

LEMMA UnaryEnds ==
  ASSUME NEW w, NEW c, NEW g, NEW k, NEW t, Waits(w, c, g, k.from, t.min), c.at = "unary",
         NEW n, NEW type, Works(w, n, type, t, k), t.at = "loop", Stops(type, t.min),
         NEW h, h.at = "loop", h.left = UnaryNode(c.op, t.left), h.parts = <<>>
  PROVE  Works(w, n, type, h, g)
<1>1. /\ g.from \in Nat \ {0} /\ g.open \in Int /\ c.op = g.from
      /\ w[g.from] \in UnaryOperators /\ k.from = g.from + 1 /\ t.min = 40
  BY DEF Waits
<1>2. Expr(w, g.from + 1, n, t.left) /\ Binds(w, g.from + 1, n, 40)
  BY <1>1 DEF Works
<1>3. Expr(w, g.from, n, h.left) /\ BinaryOperators(w, g.from, n) = {}
  BY <1>1, <1>2, ExprUnary
<1>4. getPrecedence(type) < 40
  BY <1>1, StopsAt
<1>5. Binds(w, g.from, n, h.min) /\ Binds(w, g.from, n, getPrecedence(type))
  BY <1>3 DEF Binds
<1> QED  BY <1>1, <1>3, <1>4, <1>5 DEF Works

LEMMA BinaryEnds ==
  ASSUME NEW w, NEW c, NEW g, NEW k, NEW t, Waits(w, c, g, k.from, t.min), c.at = "binary",
         NEW n, NEW type, Works(w, n, type, t, k), t.at = "loop", Stops(type, t.min),
         t.min \in {0, 6, 11, 21, 31, 40}, c.min \in Int,
         NEW h, h.at = "loop", h.left = createBinaryNode(c.op, c.left, t.left),
         h.parts = <<>>, h.min = c.min
  PROVE  Works(w, n, type, h, g)
<1>1. PICK i \in Int : i = c.op
  BY DEF Waits
<1>2. PICK p : p = getPrecedence(w[i])
  OBVIOUS
<1>3. /\ g.from \in Nat \ {0} /\ g.open \in Int /\ Expr(w, g.from, i - 1, c.left)
      /\ IsOperator(w[i]) /\ Binds(w, g.from, i - 1, p) /\ p >= c.min
      /\ k.from = i + 1 /\ t.min = p + 1
  BY <1>1, <1>2 DEF Waits
<1>4. Expr(w, i + 1, n, t.left) /\ Binds(w, i + 1, n, p + 1)
  BY <1>3 DEF Works
<1>5. Expr(w, g.from, n, h.left) /\ Joins(w, g.from, i, n)
  <2>1. /\ Binds(w, g.from, i - 1, getPrecedence(w[i]))
        /\ Binds(w, i + 1, n, getPrecedence(w[i]) + 1)
    BY <1>2, <1>3, <1>4
  <2>2. Expr(w, g.from, n, createBinaryNode(i, c.left, t.left)) /\ Joins(w, g.from, i, n)
    BY <1>3, <1>4, <2>1, ExprBinary
  <2> QED  BY <1>1, <2>2
<1>6. PICK q : q = getPrecedence(type)
  OBVIOUS
<1>7. p \in {5, 10, 20, 30} /\ q < p + 1 /\ q \in {-1, 5, 10, 20, 30, 40}
  BY <1>2, <1>3, <1>6, StopsAt, PrecedenceIs
<1>8. q <= p /\ q < 40
  BY <1>7
<1>9. ASSUME NEW j \in BinaryOperators(w, g.from, n)
      PROVE  getPrecedence(w[j]) >= p /\ getPrecedence(w[j]) \in Int
  <2>1. getPrecedence(w[j]) \in Int
    <3>1. getPrecedence(w[j]) \in {-1, 5, 10, 20, 30, 40}
      BY PrecedenceIs
    <3> QED  BY <3>1
  <2>2. CASE j \in BinaryOperators(w, g.from, i - 1)
    BY <1>3, <2>1, <2>2 DEF Binds
  <2>3. CASE j = i
    BY <1>2, <1>7, <2>1, <2>3
  <2>4. CASE j \in BinaryOperators(w, i + 1, n)
    <3>1. getPrecedence(w[j]) >= p + 1
      BY <1>4, <2>4 DEF Binds
    <3> QED  BY <1>7, <2>1, <3>1
  <2> QED  BY <1>5, <2>2, <2>3, <2>4 DEF Joins
<1>10. ASSUME NEW m \in Int, m <= p
       PROVE  Binds(w, g.from, n, m)
  <2>1. ASSUME NEW j \in BinaryOperators(w, g.from, n)
        PROVE  getPrecedence(w[j]) >= m
    <3>1. PICK r \in Int : r = getPrecedence(w[j]) /\ r >= p
      BY <1>9
    <3>2. r >= m
      BY <1>7, <1>10, <3>1
    <3> QED  BY <3>1, <3>2
  <2> QED  BY <2>1 DEF Binds
<1>11. Binds(w, g.from, n, h.min) /\ Binds(w, g.from, n, getPrecedence(type))
  <2>1. q \in Int /\ h.min \in Int /\ h.min <= p
    BY <1>3, <1>7
  <2> QED  BY <1>6, <1>8, <1>10, <2>1
<1> QED  BY <1>3, <1>5, <1>6, <1>8, <1>11 DEF Works

LEMMA GroupEnds ==
  ASSUME NEW w, NEW c, NEW g, NEW k, NEW t, Waits(w, c, g, k.from, t.min), c.at = "group",
         NEW n \in Nat, n + 1 <= Len(w), w[n + 1] = "CLOSE_PAREN",
         NEW type, Works(w, n, type, t, k), t.at = "loop",
         NEW h, h.at = "loop", h.left = t.left, h.parts = <<>>, NEW next
  PROVE  Works(w, n + 1, next, h, g)
<1>1. /\ g.from \in Nat \ {0} /\ g.open \in Int
      /\ w[g.from] = "OPEN_PAREN" /\ k.from = g.from + 1
  BY DEF Waits
<1>2. PICK j \in Int : j = n + 1 /\ j - 1 = n
  OBVIOUS
<1>3. Expr(w, g.from + 1, j - 1, t.left)
  BY <1>1, <1>2 DEF Works
<1>4. j <= Len(w) /\ w[j] = "CLOSE_PAREN"
  BY <1>2
<1>5. Expr(w, g.from, j, h.left) /\ Primary(w, g.from, j)
  BY <1>1, <1>3, <1>4, ExprGroup
<1> QED  BY <1>1, <1>2, <1>5, PrimaryWorks

LEMMA IndexEnds ==
  ASSUME NEW w, NEW c, NEW g, NEW k, NEW t, Waits(w, c, g, k.from, t.min), c.at = "index",
         NEW n \in Nat, n + 1 <= Len(w), w[n + 1] = "CLOSE_BRACKET",
         NEW type, Works(w, n, type, t, k), t.at = "loop",
         NEW h, h.at = "loop", h.left = AccessNode(c.left, t.left), h.parts = <<>>, NEW next
  PROVE  Works(w, n + 1, next, h, g)
<1>1. /\ g.from \in Nat \ {0} /\ g.open \in Int /\ Postfixes(w, c, g)
      /\ w[g.open] = "OPEN_BRACKET" /\ k.from = g.open + 1
  BY DEF Waits
<1>2. PICK j \in Int : j = n + 1 /\ j - 1 = n
  OBVIOUS
<1>3. Expr(w, g.open + 1, j - 1, t.left)
  BY <1>1, <1>2 DEF Works
<1>4. j <= Len(w) /\ w[j] = "CLOSE_BRACKET"
  BY <1>2
<1>5. Expr(w, g.from, g.open - 1, c.left) /\ Primary(w, g.from, g.open - 1)
  BY <1>1 DEF Postfixes
<1>6. Expr(w, g.from, j, h.left) /\ Primary(w, g.from, j)
  BY <1>1, <1>3, <1>4, <1>5, ExprAccess
<1> QED  BY <1>1, <1>2, <1>6, PrimaryWorks

LEMMA CallEnds ==
  ASSUME NEW w, NEW f, NEW g, NEW n \in Nat, n + 1 <= Len(w), w[n + 1] = "CLOSE_PAREN",
         NEW type, Works(w, n, type, f, g), f.at = "call",
         NEW h, h.at = "loop", h.left = CallNode(f.left, f.parts), h.parts = <<>>, NEW next
  PROVE  Works(w, n + 1, next, h, g)
<1>1. /\ g.from \in Nat \ {0} /\ g.open \in Int /\ Postfixes(w, f, g)
      /\ w[g.open] = "OPEN_PAREN" /\ Listed(w, g.open, n, f.parts)
  BY DEF Works
<1>2. PICK j \in Int : j = n + 1 /\ j - 1 = n
  OBVIOUS
<1>3. Listed(w, g.open, j - 1, f.parts) /\ j <= Len(w) /\ w[j] = "CLOSE_PAREN"
  BY <1>1, <1>2
<1>4. Expr(w, g.from, g.open - 1, f.left) /\ Primary(w, g.from, g.open - 1)
  BY <1>1 DEF Postfixes
<1>5. Expr(w, g.from, j, h.left) /\ Primary(w, g.from, j)
  BY <1>1, <1>3, <1>4, ExprCall
<1> QED  BY <1>1, <1>2, <1>5, PrimaryWorks

LEMMA ArrayEnds ==
  ASSUME NEW w, NEW f, NEW g, NEW n \in Nat, n + 1 <= Len(w), w[n + 1] = "CLOSE_BRACKET",
         NEW type, Works(w, n, type, f, g), f.at = "array",
         NEW h, h.at = "loop", h.left = ArrayNode(f.parts), h.parts = <<>>, NEW next
  PROVE  Works(w, n + 1, next, h, g)
<1>1. /\ g.from \in Nat \ {0} /\ g.open \in Int /\ g.open = g.from
      /\ w[g.from] = "OPEN_BRACKET" /\ Listed(w, g.from, n, f.parts)
  BY DEF Works
<1>2. PICK j \in Int : j = n + 1 /\ j - 1 = n
  OBVIOUS
<1>3. Listed(w, g.from, j - 1, f.parts) /\ j <= Len(w) /\ w[j] = "CLOSE_BRACKET"
  BY <1>1, <1>2
<1>4. Expr(w, g.from, j, h.left) /\ Primary(w, g.from, j)
  BY <1>1, <1>3, ExprArray
<1> QED  BY <1>1, <1>2, <1>4, PrimaryWorks

(* An argument or an element that has been parsed, and a comma after it.   *)
PartEnded(w, n, h, g, min) ==
  /\ min = 0 /\ Listed(w, g.open, n, h.parts) /\ EndsOperand(w[n]) /\ g.open < n
  /\ g.from \in Nat \ {0} /\ g.open \in Int
  /\ h.at = "call" => Postfixes(w, h, g) /\ w[g.open] = "OPEN_PAREN"
  /\ h.at = "array" => g.open = g.from /\ w[g.open] = "OPEN_BRACKET"
LEMMA PartEnds ==
  ASSUME NEW w, NEW c, NEW g, NEW k, NEW t, Waits(w, c, g, k.from, t.min),
         c.at \in {"call", "array"}, NEW n \in Nat, NEW type, Works(w, n, type, t, k),
         t.at = "loop", NEW h, h.at = c.at, h.left = c.left,
         h.parts = Append(c.parts, t.left)
  PROVE  PartEnded(w, n, h, g, t.min)
<1>1. /\ g.from \in Nat \ {0} /\ g.open \in Int /\ t.min = 0 /\ k.from \in Int
      /\ Listed(w, g.open, k.from - 1, c.parts)
      /\ k.from <= Len(w) => Begins(w, g.open, k.from, w[k.from])
      /\ c.at = "call" => Postfixes(w, c, g) /\ w[g.open] = "OPEN_PAREN"
      /\ c.at = "array" => g.open = g.from /\ w[g.open] = "OPEN_BRACKET"
  BY DEF Waits, Goes
<1>2. PICK m \in Int : m = k.from - 1 /\ m + 1 = k.from
  BY <1>1
<1>3. Expr(w, m + 1, n, t.left)
  BY <1>2 DEF Works
<1>4. Listed(w, g.open, m, c.parts) /\ Begins(w, g.open, m + 1, w[m + 1])
  <2>1. m + 1 <= Len(w)
    BY <1>2, <1>3 DEF Expr
  <2> QED  BY <1>1, <1>2, <2>1
<1>5. Listed(w, g.open, n, Append(c.parts, t.left))
  BY <1>3, <1>4, PartAdds
<1>6. g.open < n /\ EndsOperand(w[n])
  <2>1. g.open \in 1..m /\ m + 1 \in 1..n
    BY <1>3, <1>4 DEF Expr, Listed
  <2> QED  BY <1>3, <2>1 DEF Expr
<1>7. c.at = "call" => Postfixes(w, h, g)
  BY <1>1 DEF Postfixes
<1> QED  BY <1>1, <1>5, <1>6, <1>7 DEF PartEnded

LEMMA PartWorks ==
  ASSUME NEW w, NEW c, NEW g, NEW k, NEW t, Waits(w, c, g, k.from, t.min),
         c.at \in {"call", "array"}, NEW n \in Nat, NEW type, Works(w, n, type, t, k),
         t.at = "loop", NEW h, h.at = c.at, h.left = c.left,
         h.parts = Append(c.parts, t.left), Stops(type, t.min),
         type # "COMMA", c.at = "array" => type = "CLOSE_BRACKET"
  PROVE  Works(w, n, type, h, g)
<1>1. /\ t.min = 0 /\ Listed(w, g.open, n, h.parts) /\ EndsOperand(w[n])
      /\ g.from \in Nat \ {0} /\ g.open \in Int
      /\ c.at = "call" => Postfixes(w, h, g) /\ w[g.open] = "OPEN_PAREN"
      /\ c.at = "array" => g.open = g.from /\ w[g.open] = "OPEN_BRACKET"
  <2>1. PartEnded(w, n, h, g, t.min)
    BY PartEnds
  <2> QED  BY <2>1 DEF PartEnded
<1>2. getPrecedence(type) < 0
  BY <1>1, StopsAt
<1>3. n + 1 - 1 = n
  OBVIOUS
<1>4. c.at = "call" => Begins(w, g.open, n + 1, type)
  BY <1>1, <1>2, <1>3 DEF Begins
<1> QED  BY <1>1, <1>4 DEF Works

LEMMA CommaWorks ==
  ASSUME NEW w, Len(w) \in Nat, NEW c, NEW g, NEW k, NEW t, Waits(w, c, g, k.from, t.min),
         c.at \in {"call", "array"}, NEW n \in Nat, NEW type, Works(w, n, type, t, k),
         t.at = "loop", NEW h, h.at = c.at, h.left = c.left,
         h.parts = Append(c.parts, t.left), n + 1 <= Len(w), w[n + 1] = "COMMA", NEW next
  PROVE  Works(w, n + 1, next, h, g)
<1>1. /\ Listed(w, g.open, n, h.parts) /\ EndsOperand(w[n]) /\ g.open < n
      /\ g.from \in Nat \ {0} /\ g.open \in Int
      /\ c.at = "call" => Postfixes(w, h, g) /\ w[g.open] = "OPEN_PAREN"
      /\ c.at = "array" => g.open = g.from /\ w[g.open] = "OPEN_BRACKET"
  <2>1. PartEnded(w, n, h, g, t.min)
    BY PartEnds
  <2> QED  BY <2>1 DEF PartEnded
<1>2. Listed(w, g.open, n + 1, h.parts)
  BY <1>1, CommaAdds
<1>3. n + 1 + 1 - 1 = n + 1
  OBVIOUS
<1>4. Begins(w, g.open, n + 1 + 1, next)
  BY <1>3 DEF Begins
<1> QED  BY <1>1, <1>2, <1>4 DEF Works

(***************************************************************************)
(* The invariant: for every continuation of the tokens there is a plan     *)
(* that fits.                                                              *)
(***************************************************************************)
Extends(w, s, type, site) ==
  /\ Len(w) \in Nat /\ Len(s) <= Len(w) /\ \A k \in 1..Len(s) : w[k] = s[k]
  /\ site = "operand" /\ Len(s) < Len(w) => w[Len(s) + 1] = type
Planning ==
  outcome = "parsing" =>
    \A w : Extends(w, tokens, current, Top.at) => Planned(w, Len(tokens), current, frames)

Resumes(w, n, type, fs, plan) ==
  /\ Fits(w, n, type, fs, plan)
  /\ Works(w, n, type, fs[Len(fs)], plan[Len(fs)])
  /\ Len(fs) > 1 => Waits(w, fs[Len(fs) - 1], plan[Len(fs) - 1], plan[Len(fs)].from,
                          fs[Len(fs)].min)

LEMMA Resuming ==
  ASSUME Typed, Planning, outcome = "parsing", NEW w, Extends(w, tokens, current, Top.at)
  PROVE  \E plan : Resumes(w, Len(tokens), current, frames, plan)
<1>1. PICK plan : Fits(w, Len(tokens), current, frames, plan)
  BY DEF Planning, Planned
<1>2. Len(frames) \in Nat /\ Len(frames) > 0
  BY TopIs
<1>3. Resumes(w, Len(tokens), current, frames, plan)
  BY <1>1, <1>2, TopFits DEF Resumes
<1> QED  BY <1>3

LEMMA ResumingRead ==
  ASSUME Typed, Planning, outcome = "parsing", Reads,
         NEW w, NEW type, NEW site, Extends(w, tokens', type, site)
  PROVE  /\ \E plan : Resumes(w, Len(tokens), current, frames, plan)
         /\ Len(w) \in Nat /\ Len(tokens) \in Nat /\ Len(tokens') = Len(tokens) + 1
         /\ Len(tokens) + 1 <= Len(w) /\ w[Len(tokens) + 1] = current
<1>1. Len(tokens) \in Nat
  BY TopIs
<1>2. /\ Len(tokens') = Len(tokens) + 1 /\ tokens'[Len(tokens) + 1] = current
      /\ \A k \in 1..Len(tokens) : tokens'[k] = tokens[k]
  BY DEF Reads
<1>3. Len(w) \in Nat /\ Len(tokens') <= Len(w) /\ \A k \in 1..Len(tokens') : w[k] = tokens'[k]
  BY DEF Extends
<1>4. Len(tokens) + 1 <= Len(w) /\ w[Len(tokens) + 1] = current
  <2>1. Len(tokens) + 1 \in 1..Len(tokens')
    BY <1>1, <1>2
  <2> QED  BY <1>2, <1>3, <2>1
<1>5. \A k \in 1..Len(tokens) : w[k] = tokens[k]
  <2>1. \A k \in 1..Len(tokens) : k \in 1..Len(tokens')
    BY <1>1, <1>2
  <2> QED  BY <1>2, <1>3, <2>1
<1>6. Len(tokens) <= Len(w) /\ Len(tokens) < Len(w)
  BY <1>1, <1>3, <1>4
<1>7. Extends(w, tokens, current, Top.at)
  BY <1>3, <1>4, <1>5, <1>6 DEF Extends
<1> QED  BY <1>1, <1>2, <1>3, <1>4, <1>7, Resuming

LEMMA PlanningReads ==
  ASSUME \A w, type, site : Extends(w, tokens', type, site) => Planned(w, Len(tokens'), type, frames')
  PROVE  Planning'
  BY DEF Planning

LEMMA PlanningPeeks ==
  ASSUME Typed, Planning, outcome = "parsing", Peek, Top.at # "operand",
         \A w, plan : Len(w) \in Nat /\ Extends(w, tokens, current, Top.at')
                        /\ Resumes(w, Len(tokens), current, frames, plan)
                      => Planned(w, Len(tokens), current, frames')
  PROVE  Planning'
<1>1. tokens' = tokens /\ current' = current
  BY DEF Peek
<1>2. ASSUME NEW w, Extends(w, tokens, current, Top.at')
      PROVE  Planned(w, Len(tokens), current, frames')
  <2>1. Extends(w, tokens, current, Top.at) /\ Len(w) \in Nat
    BY <1>2 DEF Extends
  <2>2. PICK plan : Resumes(w, Len(tokens), current, frames, plan)
    BY <2>1, Resuming
  <2> QED  BY <1>2, <2>1, <2>2
<1> QED  BY <1>1, <1>2 DEF Planning

LEMMA ReadUnaryPlanned ==
  ASSUME Typed, Planning, ReadUnary
  PROVE  Planning'
<1>1. outcome = "parsing" /\ Top.at = "operand"
  BY DEF ReadUnary, At, Continues, Returns, ReturnsIn
<1>2. PICK f : f = Shape("unary", Top.min, Len(tokens) + 1, Top.left, Top.parts)
  OBVIOUS
<1>3. current \in UnaryOperators /\ Reads /\ Pushes(frames, frames', Len(frames), f, 40)
  BY <1>2, ReadUnaryTyped DEF ReadUnaryDoes
<1>4. ASSUME NEW w, NEW type, NEW site, Extends(w, tokens', type, site)
      PROVE  Planned(w, Len(tokens'), type, frames')
  <2>1. /\ Len(w) \in Nat /\ Len(tokens) \in Nat /\ Len(tokens') = Len(tokens) + 1
        /\ Len(tokens) + 1 <= Len(w) /\ w[Len(tokens) + 1] = current
    BY <1>1, <1>3, <1>4, ResumingRead
  <2>2. PICK plan : Resumes(w, Len(tokens), current, frames, plan)
    BY <1>1, <1>3, <1>4, ResumingRead
  <2>3. /\ Top = frames[Len(frames)] /\ Len(frames) \in Nat /\ Len(frames) > 0
        /\ Len(frames) \in 1..Len(frames) /\ Top = frames[Len(frames)]
    BY <1>1, TopIs
  <2>4. Works(w, Len(tokens), w[Len(tokens) + 1], Top, plan[Len(frames)])
    BY <2>1, <2>2, <2>3 DEF Resumes
  <2>6. PICK g : g = plan[Len(frames)]
    OBVIOUS
  <2>7. g.from = plan[Len(frames)].from
    BY <2>6 DEF Plan
  <2>8. f.at = "unary" /\ f.min = Top.min /\ f.op = Len(tokens) + 1
    BY <1>2, ShapeIs
  <2>9. Waits(w, f, g, Len(tokens) + 1 + 1, 40)
    BY <1>1, <1>3, <2>1, <2>4, <2>6, <2>8, UnaryWaits
  <2>10. Fits(w, Len(tokens), current, frames, plan) /\ Len(tokens) + 1 \in Nat
    BY <2>1, <2>2 DEF Resumes
  <2>11. PICK p \in Nat : p = Len(tokens) + 1
    BY <2>10
  <2>12. Waits(w, f, g, p + 1, 40)
    BY <2>9, <2>11
  <2>13. Planned(w, p, type, frames')
    BY <1>3, <2>3, <2>7, <2>8, <2>10, <2>12, PlanPushed
  <2> QED  BY <2>1, <2>11, <2>13
<1> QED  BY <1>4, PlanningReads

LEMMA ReadLiteralPlanned ==
  ASSUME Typed, Planning, ReadLiteral
  PROVE  Planning'
<1>1. outcome = "parsing" /\ Top.at = "operand"
  BY DEF ReadLiteral, At, Continues, Returns, ReturnsIn
<1>2. PICK f : f = Shape("loop", Top.min, Top.op, Leaf(Len(tokens) + 1), <<>>)
  OBVIOUS
<1>3. current \in Literals /\ Reads /\ Replaces(frames, frames', Len(frames), f)
  BY <1>2, ReadLiteralTyped DEF ReadLiteralDoes
<1>4. ASSUME NEW w, NEW type, NEW site, Extends(w, tokens', type, site)
      PROVE  Planned(w, Len(tokens'), type, frames')
  <2>1. /\ Len(w) \in Nat /\ Len(tokens) \in Nat /\ Len(tokens') = Len(tokens) + 1
        /\ Len(tokens) + 1 <= Len(w) /\ w[Len(tokens) + 1] = current
    BY <1>1, <1>3, <1>4, ResumingRead
  <2>2. PICK plan : Resumes(w, Len(tokens), current, frames, plan)
    BY <1>1, <1>3, <1>4, ResumingRead
  <2>3. /\ Top = frames[Len(frames)] /\ Len(frames) \in Nat /\ Len(frames) > 0
        /\ Len(frames) \in 1..Len(frames) /\ Top = frames[Len(frames)]
    BY <1>1, TopIs
  <2>4. Works(w, Len(tokens), w[Len(tokens) + 1], Top, plan[Len(frames)])
    BY <2>1, <2>2, <2>3 DEF Resumes
  <2>6. PICK g : g = plan[Len(frames)]
    OBVIOUS
  <2>7. g.from = plan[Len(frames)].from
    BY <2>6 DEF Plan
  <2>8. f.at = "loop" /\ f.min = Top.min /\ f.left = Leaf(Len(tokens) + 1) /\ f.parts = <<>>
    BY <1>2, ShapeIs
  <2>9. Works(w, Len(tokens) + 1, type, f, g)
    BY <1>1, <1>3, <2>1, <2>4, <2>6, <2>8, LiteralWorks
  <2>10. Fits(w, Len(tokens), current, frames, plan)
    BY <2>2 DEF Resumes
  <2>11. Planned(w, Len(tokens) + 1, type, frames')
    BY <1>3, <2>3, <2>7, <2>8, <2>9, <2>10, PlanReplaced
  <2> QED  BY <2>1, <2>11
<1> QED  BY <1>4, PlanningReads

LEMMA OpenGroupPlanned ==
  ASSUME Typed, Planning, OpenGroup
  PROVE  Planning'
<1>1. outcome = "parsing" /\ Top.at = "operand"
  BY DEF OpenGroup, At, Continues, Returns, ReturnsIn
<1>2. PICK f : f = Shape("group", Top.min, Top.op, Top.left, Top.parts)
  OBVIOUS
<1>3. current = "OPEN_PAREN" /\ Reads /\ Pushes(frames, frames', Len(frames), f, 0)
  BY <1>2, OpenGroupTyped DEF OpenGroupDoes
<1>4. ASSUME NEW w, NEW type, NEW site, Extends(w, tokens', type, site)
      PROVE  Planned(w, Len(tokens'), type, frames')
  <2>1. /\ Len(w) \in Nat /\ Len(tokens) \in Nat /\ Len(tokens') = Len(tokens) + 1
        /\ Len(tokens) + 1 <= Len(w) /\ w[Len(tokens) + 1] = current
    BY <1>1, <1>3, <1>4, ResumingRead
  <2>2. PICK plan : Resumes(w, Len(tokens), current, frames, plan)
    BY <1>1, <1>3, <1>4, ResumingRead
  <2>3. /\ Top = frames[Len(frames)] /\ Len(frames) \in Nat /\ Len(frames) > 0
        /\ Len(frames) \in 1..Len(frames) /\ Top = frames[Len(frames)]
    BY <1>1, TopIs
  <2>4. Works(w, Len(tokens), w[Len(tokens) + 1], Top, plan[Len(frames)])
    BY <2>1, <2>2, <2>3 DEF Resumes
  <2>6. PICK g : g = plan[Len(frames)]
    OBVIOUS
  <2>7. g.from = plan[Len(frames)].from
    BY <2>6 DEF Plan
  <2>8. f.at = "group" /\ f.min = Top.min
    BY <1>2, ShapeIs
  <2>9. Waits(w, f, g, Len(tokens) + 1 + 1, 0)
    BY <1>1, <1>3, <2>1, <2>4, <2>6, <2>8, GroupWaits
  <2>10. Fits(w, Len(tokens), current, frames, plan) /\ Len(tokens) + 1 \in Nat
    BY <2>1, <2>2 DEF Resumes
  <2>11. PICK p \in Nat : p = Len(tokens) + 1
    BY <2>10
  <2>12. Waits(w, f, g, p + 1, 0)
    BY <2>9, <2>11
  <2>13. Planned(w, p, type, frames')
    BY <1>3, <2>3, <2>7, <2>8, <2>10, <2>12, PlanPushed
  <2> QED  BY <2>1, <2>11, <2>13
<1> QED  BY <1>4, PlanningReads

LEMMA OpenArrayPlanned ==
  ASSUME Typed, Planning, OpenArray
  PROVE  Planning'
<1>1. outcome = "parsing" /\ Top.at = "operand"
  BY DEF OpenArray, At, Continues, Returns, ReturnsIn
<1>2. PICK f : f = Shape("array", Top.min, Top.op, Top.left, Top.parts)
  OBVIOUS
<1>3. current = "OPEN_BRACKET" /\ Reads /\ Replaces(frames, frames', Len(frames), f)
  BY <1>2, OpenArrayTyped DEF OpenArrayDoes
<1>4. ASSUME NEW w, NEW type, NEW site, Extends(w, tokens', type, site)
      PROVE  Planned(w, Len(tokens'), type, frames')
  <2>1. /\ Len(w) \in Nat /\ Len(tokens) \in Nat /\ Len(tokens') = Len(tokens) + 1
        /\ Len(tokens) + 1 <= Len(w) /\ w[Len(tokens) + 1] = current
    BY <1>1, <1>3, <1>4, ResumingRead
  <2>2. PICK plan : Resumes(w, Len(tokens), current, frames, plan)
    BY <1>1, <1>3, <1>4, ResumingRead
  <2>3. /\ Top = frames[Len(frames)] /\ Len(frames) \in Nat /\ Len(frames) > 0
        /\ Len(frames) \in 1..Len(frames) /\ Top = frames[Len(frames)]
    BY <1>1, TopIs
  <2>4. Works(w, Len(tokens), w[Len(tokens) + 1], Top, plan[Len(frames)])
    BY <2>1, <2>2, <2>3 DEF Resumes
  <2>6. PICK g : g = Plan(plan[Len(frames)].from, plan[Len(frames)].from)
    OBVIOUS
  <2>7. g.from = plan[Len(frames)].from
    BY <2>6 DEF Plan
  <2>8. f.at = "array" /\ f.min = Top.min /\ f.parts = Top.parts
    BY <1>2, ShapeIs
  <2>9. Works(w, Len(tokens) + 1, type, f, g)
    BY <1>1, <1>3, <2>1, <2>4, <2>6, <2>8, ArrayWorks
  <2>10. Fits(w, Len(tokens), current, frames, plan)
    BY <2>2 DEF Resumes
  <2>11. Planned(w, Len(tokens) + 1, type, frames')
    BY <1>3, <2>3, <2>7, <2>8, <2>9, <2>10, PlanReplaced
  <2> QED  BY <2>1, <2>11
<1> QED  BY <1>4, PlanningReads

LEMMA OpenCallPlanned ==
  ASSUME Typed, Planning, OpenCall
  PROVE  Planning'
<1>1. outcome = "parsing" /\ Top.at = "loop"
  BY DEF OpenCall, At, Continues, Returns, ReturnsIn
<1>2. PICK f : f = Shape("call", Top.min, Top.op, Top.left, Top.parts)
  OBVIOUS
<1>3. current = "OPEN_PAREN" /\ Reads /\ Replaces(frames, frames', Len(frames), f)
  BY <1>2, OpenCallTyped DEF OpenCallDoes
<1>4. ASSUME NEW w, NEW type, NEW site, Extends(w, tokens', type, site)
      PROVE  Planned(w, Len(tokens'), type, frames')
  <2>1. /\ Len(w) \in Nat /\ Len(tokens) \in Nat /\ Len(tokens') = Len(tokens) + 1
        /\ Len(tokens) + 1 <= Len(w) /\ w[Len(tokens) + 1] = current
    BY <1>1, <1>3, <1>4, ResumingRead
  <2>2. PICK plan : Resumes(w, Len(tokens), current, frames, plan)
    BY <1>1, <1>3, <1>4, ResumingRead
  <2>3. /\ Top = frames[Len(frames)] /\ Len(frames) \in Nat /\ Len(frames) > 0
        /\ Len(frames) \in 1..Len(frames) /\ Top = frames[Len(frames)]
    BY <1>1, TopIs
  <2>4. Works(w, Len(tokens), w[Len(tokens) + 1], Top, plan[Len(frames)])
    BY <2>1, <2>2, <2>3 DEF Resumes
  <2>6. PICK g : g = Plan(plan[Len(frames)].from, Len(tokens) + 1)
    OBVIOUS
  <2>7. g.from = plan[Len(frames)].from
    BY <2>6 DEF Plan
  <2>8. f.at = "call" /\ f.min = Top.min /\ f.left = Top.left /\ f.parts = Top.parts
    BY <1>2, ShapeIs
  <2>9. Works(w, Len(tokens) + 1, type, f, g)
    BY <1>1, <1>3, <2>1, <2>4, <2>6, <2>8, CallWorks
  <2>10. Fits(w, Len(tokens), current, frames, plan)
    BY <2>2 DEF Resumes
  <2>11. Planned(w, Len(tokens) + 1, type, frames')
    BY <1>3, <2>3, <2>7, <2>8, <2>9, <2>10, PlanReplaced
  <2> QED  BY <2>1, <2>11
<1> QED  BY <1>4, PlanningReads

LEMMA OpenIndexPlanned ==
  ASSUME Typed, Planning, OpenIndex
  PROVE  Planning'
<1>1. outcome = "parsing" /\ Top.at = "loop"
  BY DEF OpenIndex, At, Continues, Returns, ReturnsIn
<1>2. PICK f : f = Shape("index", Top.min, Top.op, Top.left, Top.parts)
  OBVIOUS
<1>3. current = "OPEN_BRACKET" /\ Reads /\ Pushes(frames, frames', Len(frames), f, 0)
  BY <1>2, OpenIndexTyped DEF OpenIndexDoes
<1>4. ASSUME NEW w, NEW type, NEW site, Extends(w, tokens', type, site)
      PROVE  Planned(w, Len(tokens'), type, frames')
  <2>1. /\ Len(w) \in Nat /\ Len(tokens) \in Nat /\ Len(tokens') = Len(tokens) + 1
        /\ Len(tokens) + 1 <= Len(w) /\ w[Len(tokens) + 1] = current
    BY <1>1, <1>3, <1>4, ResumingRead
  <2>2. PICK plan : Resumes(w, Len(tokens), current, frames, plan)
    BY <1>1, <1>3, <1>4, ResumingRead
  <2>3. /\ Top = frames[Len(frames)] /\ Len(frames) \in Nat /\ Len(frames) > 0
        /\ Len(frames) \in 1..Len(frames) /\ Top = frames[Len(frames)]
    BY <1>1, TopIs
  <2>4. Works(w, Len(tokens), w[Len(tokens) + 1], Top, plan[Len(frames)])
    BY <2>1, <2>2, <2>3 DEF Resumes
  <2>6. PICK g : g = Plan(plan[Len(frames)].from, Len(tokens) + 1)
    OBVIOUS
  <2>7. g.from = plan[Len(frames)].from
    BY <2>6 DEF Plan
  <2>8. f.at = "index" /\ f.min = Top.min /\ f.left = Top.left
    BY <1>2, ShapeIs
  <2>9. Waits(w, f, g, Len(tokens) + 1 + 1, 0)
    BY <1>1, <1>3, <2>1, <2>4, <2>6, <2>8, IndexWaits
  <2>10. Fits(w, Len(tokens), current, frames, plan) /\ Len(tokens) + 1 \in Nat
    BY <2>1, <2>2 DEF Resumes
  <2>11. PICK p \in Nat : p = Len(tokens) + 1
    BY <2>10
  <2>12. Waits(w, f, g, p + 1, 0)
    BY <2>9, <2>11
  <2>13. Planned(w, p, type, frames')
    BY <1>3, <2>3, <2>7, <2>8, <2>10, <2>12, PlanPushed
  <2> QED  BY <2>1, <2>11, <2>13
<1> QED  BY <1>4, PlanningReads

LEMMA ReadOperatorPlanned ==
  ASSUME Typed, Planning, ReadOperator
  PROVE  Planning'
<1>1. outcome = "parsing" /\ Top.at = "loop"
  BY DEF ReadOperator, At, Continues, Returns, ReturnsIn
<1>2. PICK f : f = Shape("binary", Top.min, Len(tokens) + 1, Top.left, Top.parts)
  OBVIOUS
<1>3. IsOperator(current) /\ getPrecedence(current) >= Top.min /\ Reads /\ Pushes(frames, frames', Len(frames), f, getPrecedence(current) + 1)
  BY <1>2, ReadOperatorTyped DEF ReadOperatorDoes
<1>4. ASSUME NEW w, NEW type, NEW site, Extends(w, tokens', type, site)
      PROVE  Planned(w, Len(tokens'), type, frames')
  <2>1. /\ Len(w) \in Nat /\ Len(tokens) \in Nat /\ Len(tokens') = Len(tokens) + 1
        /\ Len(tokens) + 1 <= Len(w) /\ w[Len(tokens) + 1] = current
    BY <1>1, <1>3, <1>4, ResumingRead
  <2>2. PICK plan : Resumes(w, Len(tokens), current, frames, plan)
    BY <1>1, <1>3, <1>4, ResumingRead
  <2>3. /\ Top = frames[Len(frames)] /\ Len(frames) \in Nat /\ Len(frames) > 0
        /\ Len(frames) \in 1..Len(frames) /\ Top = frames[Len(frames)]
    BY <1>1, TopIs
  <2>4. Works(w, Len(tokens), w[Len(tokens) + 1], Top, plan[Len(frames)])
    BY <2>1, <2>2, <2>3 DEF Resumes
  <2>6. PICK g : g = plan[Len(frames)]
    OBVIOUS
  <2>7. g.from = plan[Len(frames)].from
    BY <2>6 DEF Plan
  <2>8. f.at = "binary" /\ f.min = Top.min /\ f.left = Top.left /\ f.op = Len(tokens) + 1
    BY <1>2, ShapeIs
  <2>9. Waits(w, f, g, Len(tokens) + 1 + 1, getPrecedence(current) + 1)
    BY <1>1, <1>3, <2>1, <2>4, <2>6, <2>8, OperatorWaits
  <2>10. Fits(w, Len(tokens), current, frames, plan) /\ Len(tokens) + 1 \in Nat
    BY <2>1, <2>2 DEF Resumes
  <2>11. PICK p \in Nat : p = Len(tokens) + 1
    BY <2>10
  <2>12. Waits(w, f, g, p + 1, getPrecedence(current) + 1)
    BY <2>9, <2>11
  <2>13. Planned(w, p, type, frames')
    BY <1>3, <2>3, <2>7, <2>8, <2>10, <2>12, PlanPushed
  <2> QED  BY <2>1, <2>11, <2>13
<1> QED  BY <1>4, PlanningReads

LEMMA EndCallPlanned ==
  ASSUME Typed, Planning, EndCall
  PROVE  Planning'
<1>1. outcome = "parsing" /\ Top.at = "call"
  BY DEF EndCall, At, Continues, Returns, ReturnsIn
<1>2. PICK f : f = Shape("loop", Top.min, Top.op, CallNode(Top.left, Top.parts), <<>>)
  OBVIOUS
<1>3. current = "CLOSE_PAREN" /\ Reads /\ Replaces(frames, frames', Len(frames), f)
  BY <1>2, EndCallTyped DEF EndCallDoes
<1>4. ASSUME NEW w, NEW type, NEW site, Extends(w, tokens', type, site)
      PROVE  Planned(w, Len(tokens'), type, frames')
  <2>1. /\ Len(w) \in Nat /\ Len(tokens) \in Nat /\ Len(tokens') = Len(tokens) + 1
        /\ Len(tokens) + 1 <= Len(w) /\ w[Len(tokens) + 1] = current
    BY <1>1, <1>3, <1>4, ResumingRead
  <2>2. PICK plan : Resumes(w, Len(tokens), current, frames, plan)
    BY <1>1, <1>3, <1>4, ResumingRead
  <2>3. /\ Top = frames[Len(frames)] /\ Len(frames) \in Nat /\ Len(frames) > 0
        /\ Len(frames) \in 1..Len(frames) /\ Top = frames[Len(frames)]
    BY <1>1, TopIs
  <2>4. Works(w, Len(tokens), w[Len(tokens) + 1], Top, plan[Len(frames)])
    BY <2>1, <2>2, <2>3 DEF Resumes
  <2>6. PICK g : g = plan[Len(frames)]
    OBVIOUS
  <2>7. g.from = plan[Len(frames)].from
    BY <2>6 DEF Plan
  <2>8. f.at = "loop" /\ f.min = Top.min /\ f.left = CallNode(Top.left, Top.parts) /\ f.parts = <<>>
    BY <1>2, ShapeIs
  <2>9. Works(w, Len(tokens) + 1, type, f, g)
    BY <1>1, <1>3, <2>1, <2>4, <2>6, <2>8, CallEnds
  <2>10. Fits(w, Len(tokens), current, frames, plan)
    BY <2>2 DEF Resumes
  <2>11. Planned(w, Len(tokens) + 1, type, frames')
    BY <1>3, <2>3, <2>7, <2>8, <2>9, <2>10, PlanReplaced
  <2> QED  BY <2>1, <2>11
<1> QED  BY <1>4, PlanningReads

LEMMA EndArrayPlanned ==
  ASSUME Typed, Planning, EndArray
  PROVE  Planning'
<1>1. outcome = "parsing" /\ Top.at = "array"
  BY DEF EndArray, At, Continues, Returns, ReturnsIn
<1>2. PICK f : f = Shape("loop", Top.min, Top.op, ArrayNode(Top.parts), <<>>)
  OBVIOUS
<1>3. current = "CLOSE_BRACKET" /\ Reads /\ Replaces(frames, frames', Len(frames), f)
  BY <1>2, EndArrayTyped DEF EndArrayDoes
<1>4. ASSUME NEW w, NEW type, NEW site, Extends(w, tokens', type, site)
      PROVE  Planned(w, Len(tokens'), type, frames')
  <2>1. /\ Len(w) \in Nat /\ Len(tokens) \in Nat /\ Len(tokens') = Len(tokens) + 1
        /\ Len(tokens) + 1 <= Len(w) /\ w[Len(tokens) + 1] = current
    BY <1>1, <1>3, <1>4, ResumingRead
  <2>2. PICK plan : Resumes(w, Len(tokens), current, frames, plan)
    BY <1>1, <1>3, <1>4, ResumingRead
  <2>3. /\ Top = frames[Len(frames)] /\ Len(frames) \in Nat /\ Len(frames) > 0
        /\ Len(frames) \in 1..Len(frames) /\ Top = frames[Len(frames)]
    BY <1>1, TopIs
  <2>4. Works(w, Len(tokens), w[Len(tokens) + 1], Top, plan[Len(frames)])
    BY <2>1, <2>2, <2>3 DEF Resumes
  <2>6. PICK g : g = plan[Len(frames)]
    OBVIOUS
  <2>7. g.from = plan[Len(frames)].from
    BY <2>6 DEF Plan
  <2>8. f.at = "loop" /\ f.min = Top.min /\ f.left = ArrayNode(Top.parts) /\ f.parts = <<>>
    BY <1>2, ShapeIs
  <2>9. Works(w, Len(tokens) + 1, type, f, g)
    BY <1>1, <1>3, <2>1, <2>4, <2>6, <2>8, ArrayEnds
  <2>10. Fits(w, Len(tokens), current, frames, plan)
    BY <2>2 DEF Resumes
  <2>11. Planned(w, Len(tokens) + 1, type, frames')
    BY <1>3, <2>3, <2>7, <2>8, <2>9, <2>10, PlanReplaced
  <2> QED  BY <2>1, <2>11
<1> QED  BY <1>4, PlanningReads

LEMMA EndGroupPlanned ==
  ASSUME Typed, Planning, EndGroup
  PROVE  Planning'
<1>1. outcome = "parsing" /\ Top.at = "loop" /\ Len(frames) > 1 /\ Caller.at = "group"
  BY DEF EndGroup, At, Continues, Returns, ReturnsIn
<1>2. PICK f : f = Shape("loop", Caller.min, Caller.op, Top.left, <<>>)
  OBVIOUS
<1>3. current = "CLOSE_PAREN" /\ Reads /\ Replaces(frames, frames', Len(frames) - 1, f)
  BY <1>2, EndGroupTyped DEF EndGroupDoes
<1>4. ASSUME NEW w, NEW type, NEW site, Extends(w, tokens', type, site)
      PROVE  Planned(w, Len(tokens'), type, frames')
  <2>1. /\ Len(w) \in Nat /\ Len(tokens) \in Nat /\ Len(tokens') = Len(tokens) + 1
        /\ Len(tokens) + 1 <= Len(w) /\ w[Len(tokens) + 1] = current
    BY <1>1, <1>3, <1>4, ResumingRead
  <2>2. PICK plan : Resumes(w, Len(tokens), current, frames, plan)
    BY <1>1, <1>3, <1>4, ResumingRead
  <2>3. /\ Top = frames[Len(frames)] /\ Len(frames) \in Nat /\ Len(frames) > 0
        /\ Len(frames) - 1 \in 1..Len(frames) /\ Caller = frames[Len(frames) - 1]
    BY <1>1, TopIs
  <2>4. Works(w, Len(tokens), w[Len(tokens) + 1], Top, plan[Len(frames)])
    BY <2>1, <2>2, <2>3 DEF Resumes
  <2>5. Waits(w, Caller, plan[Len(frames) - 1], plan[Len(frames)].from, Top.min)
    BY <1>1, <2>2, <2>3 DEF Resumes
  <2>6. PICK g : g = plan[Len(frames) - 1]
    OBVIOUS
  <2>7. g.from = plan[Len(frames) - 1].from
    BY <2>6 DEF Plan
  <2>8. f.at = "loop" /\ f.min = Caller.min /\ f.left = Top.left /\ f.parts = <<>>
    BY <1>2, ShapeIs
  <2>9. Works(w, Len(tokens) + 1, type, f, g)
    BY <1>1, <1>3, <2>1, <2>4, <2>5, <2>6, <2>8, GroupEnds
  <2>10. Fits(w, Len(tokens), current, frames, plan)
    BY <2>2 DEF Resumes
  <2>11. Planned(w, Len(tokens) + 1, type, frames')
    BY <1>3, <2>3, <2>7, <2>8, <2>9, <2>10, PlanReplaced
  <2> QED  BY <2>1, <2>11
<1> QED  BY <1>4, PlanningReads

LEMMA EndIndexPlanned ==
  ASSUME Typed, Planning, EndIndex
  PROVE  Planning'
<1>1. outcome = "parsing" /\ Top.at = "loop" /\ Len(frames) > 1 /\ Caller.at = "index"
  BY DEF EndIndex, At, Continues, Returns, ReturnsIn
<1>2. PICK f : f = Shape("loop", Caller.min, Caller.op, AccessNode(Caller.left, Top.left), <<>>)
  OBVIOUS
<1>3. current = "CLOSE_BRACKET" /\ Reads /\ Replaces(frames, frames', Len(frames) - 1, f)
  BY <1>2, EndIndexTyped DEF EndIndexDoes
<1>4. ASSUME NEW w, NEW type, NEW site, Extends(w, tokens', type, site)
      PROVE  Planned(w, Len(tokens'), type, frames')
  <2>1. /\ Len(w) \in Nat /\ Len(tokens) \in Nat /\ Len(tokens') = Len(tokens) + 1
        /\ Len(tokens) + 1 <= Len(w) /\ w[Len(tokens) + 1] = current
    BY <1>1, <1>3, <1>4, ResumingRead
  <2>2. PICK plan : Resumes(w, Len(tokens), current, frames, plan)
    BY <1>1, <1>3, <1>4, ResumingRead
  <2>3. /\ Top = frames[Len(frames)] /\ Len(frames) \in Nat /\ Len(frames) > 0
        /\ Len(frames) - 1 \in 1..Len(frames) /\ Caller = frames[Len(frames) - 1]
    BY <1>1, TopIs
  <2>4. Works(w, Len(tokens), w[Len(tokens) + 1], Top, plan[Len(frames)])
    BY <2>1, <2>2, <2>3 DEF Resumes
  <2>5. Waits(w, Caller, plan[Len(frames) - 1], plan[Len(frames)].from, Top.min)
    BY <1>1, <2>2, <2>3 DEF Resumes
  <2>6. PICK g : g = plan[Len(frames) - 1]
    OBVIOUS
  <2>7. g.from = plan[Len(frames) - 1].from
    BY <2>6 DEF Plan
  <2>8. f.at = "loop" /\ f.min = Caller.min /\ f.left = AccessNode(Caller.left, Top.left) /\ f.parts = <<>>
    BY <1>2, ShapeIs
  <2>9. Works(w, Len(tokens) + 1, type, f, g)
    BY <1>1, <1>3, <2>1, <2>4, <2>5, <2>6, <2>8, IndexEnds
  <2>10. Fits(w, Len(tokens), current, frames, plan)
    BY <2>2 DEF Resumes
  <2>11. Planned(w, Len(tokens) + 1, type, frames')
    BY <1>3, <2>3, <2>7, <2>8, <2>9, <2>10, PlanReplaced
  <2> QED  BY <2>1, <2>11
<1> QED  BY <1>4, PlanningReads


LEMMA ReturnsStop ==
  ASSUME Typed, outcome = "parsing", Breaks
  PROVE  Stops(current, Top.min) /\ Top.min \in {0, 6, 11, 21, 31, 40}
<1>1. Top.min \in {0, 6, 11, 21, 31, 40}
  BY TopIs DEF WellMade
<1>2. Stops(current, Top.min)
  BY DEF Breaks, Stops
<1> QED  BY <1>1, <1>2

LEMMA EndUnaryPlanned ==
  ASSUME Typed, Planning, EndUnary
  PROVE  Planning'
<1>1. outcome = "parsing" /\ Top.at = "loop" /\ Len(frames) > 1 /\ Caller.at = "unary" /\ Breaks
  BY DEF EndUnary, At, Returns, ReturnsIn
<1>2. PICK f : f = Shape("loop", Caller.min, Caller.op, UnaryNode(Caller.op, Top.left), <<>>)
  OBVIOUS
<1>3. Peek /\ Replaces(frames, frames', Len(frames) - 1, f)
  BY <1>2, EndUnaryTyped DEF EndUnaryDoes
<1>4. ASSUME NEW w, NEW plan, Len(w) \in Nat, Resumes(w, Len(tokens), current, frames, plan)
      PROVE  Planned(w, Len(tokens), current, frames')
  <2>1. /\ Top = frames[Len(frames)] /\ Len(frames) \in Nat /\ Len(frames) > 0
        /\ Len(frames) - 1 \in 1..Len(frames) /\ Caller = frames[Len(frames) - 1]
    BY <1>1, TopIs
  <2>2. Works(w, Len(tokens), current, Top, plan[Len(frames)])
    BY <1>4, <2>1 DEF Resumes
  <2>3. Waits(w, Caller, plan[Len(frames) - 1], plan[Len(frames)].from, Top.min)
    BY <1>1, <1>4, <2>1 DEF Resumes
  <2>4. PICK g : g = plan[Len(frames) - 1]
    OBVIOUS
  <2>5. f.at = "loop" /\ f.min = Caller.min /\ f.left = UnaryNode(Caller.op, Top.left) /\ f.parts = <<>>
    BY <1>2, ShapeIs
  <2>6. Stops(current, Top.min) /\ Top.min \in {0, 6, 11, 21, 31, 40}
    BY <1>1, ReturnsStop
  <2>7. Caller.min \in Int
    <3>1. Caller.min \in {0, 6, 11, 21, 31, 40}
      BY <1>1, TopIs DEF WellMade
    <3> QED  BY <3>1
  <2>8. Works(w, Len(tokens), current, f, g)
    BY <1>1, <2>2, <2>3, <2>4, <2>5, <2>6, <2>7, UnaryEnds
  <2>9. Fits(w, Len(tokens), current, frames, plan)
    BY <1>4 DEF Resumes
  <2> QED  BY <1>3, <2>1, <2>4, <2>5, <2>8, <2>9, PlanReplaced
<1> QED  BY <1>1, <1>3, <1>4, PlanningPeeks

LEMMA EndBinaryPlanned ==
  ASSUME Typed, Planning, EndBinary
  PROVE  Planning'
<1>1. outcome = "parsing" /\ Top.at = "loop" /\ Len(frames) > 1 /\ Caller.at = "binary" /\ Breaks
  BY DEF EndBinary, At, Returns, ReturnsIn
<1>2. PICK f : f = Shape("loop", Caller.min, Caller.op,
                      createBinaryNode(Caller.op, Caller.left, Top.left), <<>>)
  OBVIOUS
<1>3. Peek /\ Replaces(frames, frames', Len(frames) - 1, f)
  BY <1>2, EndBinaryTyped DEF EndBinaryDoes
<1>4. ASSUME NEW w, NEW plan, Len(w) \in Nat, Resumes(w, Len(tokens), current, frames, plan)
      PROVE  Planned(w, Len(tokens), current, frames')
  <2>1. /\ Top = frames[Len(frames)] /\ Len(frames) \in Nat /\ Len(frames) > 0
        /\ Len(frames) - 1 \in 1..Len(frames) /\ Caller = frames[Len(frames) - 1]
    BY <1>1, TopIs
  <2>2. Works(w, Len(tokens), current, Top, plan[Len(frames)])
    BY <1>4, <2>1 DEF Resumes
  <2>3. Waits(w, Caller, plan[Len(frames) - 1], plan[Len(frames)].from, Top.min)
    BY <1>1, <1>4, <2>1 DEF Resumes
  <2>4. PICK g : g = plan[Len(frames) - 1]
    OBVIOUS
  <2>5. f.at = "loop" /\ f.min = Caller.min /\ f.left = createBinaryNode(Caller.op, Caller.left, Top.left) /\ f.parts = <<>>
    BY <1>2, ShapeIs
  <2>6. Stops(current, Top.min) /\ Top.min \in {0, 6, 11, 21, 31, 40}
    BY <1>1, ReturnsStop
  <2>7. Caller.min \in Int
    <3>1. Caller.min \in {0, 6, 11, 21, 31, 40}
      BY <1>1, TopIs DEF WellMade
    <3> QED  BY <3>1
  <2>8. Works(w, Len(tokens), current, f, g)
    BY <1>1, <2>2, <2>3, <2>4, <2>5, <2>6, <2>7, BinaryEnds
  <2>9. Fits(w, Len(tokens), current, frames, plan)
    BY <1>4 DEF Resumes
  <2> QED  BY <1>3, <2>1, <2>4, <2>5, <2>8, <2>9, PlanReplaced
<1> QED  BY <1>1, <1>3, <1>4, PlanningPeeks

LEMMA NextArgumentPlanned ==
  ASSUME Typed, Planning, NextArgument
  PROVE  Planning'
<1>1. outcome = "parsing" /\ Top.at = "call" /\ current \notin NoArgument
  BY DEF NextArgument, At
<1>2. PICK f : f = Top
  OBVIOUS
<1>3. Peek /\ Pushes(frames, frames', Len(frames), f, 0)
  BY <1>2, NextArgumentTyped DEF NextArgumentDoes
<1>4. Top.at' = "operand"
  <2>1. Len(frames') = Len(frames) + 1 /\ frames'[Len(frames) + 1] = Operand(0)
    BY <1>3 DEF Pushes
  <2> QED  BY <2>1 DEF Top, Operand
<1>5. ASSUME NEW w, NEW plan, Len(w) \in Nat, Extends(w, tokens, current, "operand"),
             Resumes(w, Len(tokens), current, frames, plan)
      PROVE  Planned(w, Len(tokens), current, frames')
  <2>1. /\ Top = frames[Len(frames)] /\ Len(frames) \in Nat /\ Len(frames) > 0
        /\ Len(tokens) \in Nat
    BY <1>1, TopIs
  <2>2. Len(tokens) < Len(w) => w[Len(tokens) + 1] = current
    BY <1>5 DEF Extends
  <2>3. PICK g : g = plan[Len(frames)]
    OBVIOUS
  <2>4. Works(w, Len(tokens), current, f, g)
    BY <1>2, <1>5, <2>1, <2>2, <2>3 DEF Resumes
  <2>5. Waits(w, f, g, Len(tokens) + 1, 0)
    BY <1>1, <1>2, <2>1, <2>2, <2>4, PartWaits
  <2>6. Fits(w, Len(tokens), current, frames, plan)
    BY <1>5 DEF Resumes
  <2> QED  BY <1>2, <1>3, <2>1, <2>3, <2>5, <2>6, PlanPushed
<1> QED  BY <1>1, <1>3, <1>4, <1>5, PlanningPeeks

LEMMA NextElementPlanned ==
  ASSUME Typed, Planning, NextElement
  PROVE  Planning'
<1>1. outcome = "parsing" /\ Top.at = "array" /\ current \notin NoElement
  BY DEF NextElement, At
<1>2. PICK f : f = Top
  OBVIOUS
<1>3. Peek /\ Pushes(frames, frames', Len(frames), f, 0)
  BY <1>2, NextElementTyped DEF NextElementDoes
<1>4. Top.at' = "operand"
  <2>1. Len(frames') = Len(frames) + 1 /\ frames'[Len(frames) + 1] = Operand(0)
    BY <1>3 DEF Pushes
  <2> QED  BY <2>1 DEF Top, Operand
<1>5. ASSUME NEW w, NEW plan, Len(w) \in Nat, Extends(w, tokens, current, "operand"),
             Resumes(w, Len(tokens), current, frames, plan)
      PROVE  Planned(w, Len(tokens), current, frames')
  <2>1. /\ Top = frames[Len(frames)] /\ Len(frames) \in Nat /\ Len(frames) > 0
        /\ Len(tokens) \in Nat
    BY <1>1, TopIs
  <2>2. Len(tokens) < Len(w) => w[Len(tokens) + 1] = current
    BY <1>5 DEF Extends
  <2>3. PICK g : g = plan[Len(frames)]
    OBVIOUS
  <2>4. Works(w, Len(tokens), current, f, g)
    BY <1>2, <1>5, <2>1, <2>2, <2>3 DEF Resumes
  <2>5. Waits(w, f, g, Len(tokens) + 1, 0)
    BY <1>1, <1>2, <2>1, <2>2, <2>4, PartWaits
  <2>6. Fits(w, Len(tokens), current, frames, plan)
    BY <1>5 DEF Resumes
  <2> QED  BY <1>2, <1>3, <2>1, <2>3, <2>5, <2>6, PlanPushed
<1> QED  BY <1>1, <1>3, <1>4, <1>5, PlanningPeeks

LEMMA EndArgumentPlanned ==
  ASSUME Typed, Planning, EndArgument
  PROVE  Planning'
<1>1. outcome = "parsing" /\ Top.at = "loop" /\ Len(frames) > 1 /\ Caller.at = "call" /\ Breaks
  BY DEF EndArgument, At, Returns, ReturnsIn
<1>2. PICK f : f = Shape("call", Caller.min, Caller.op, Caller.left, Append(Caller.parts, Top.left))
  OBVIOUS
<1>3. /\ (current = "COMMA" /\ Reads) \/ (current # "COMMA" /\ Peek)
      /\ Replaces(frames, frames', Len(frames) - 1, f)
  BY <1>2, EndArgumentTyped DEF EndArgumentDoes
<1>4. /\ Top = frames[Len(frames)] /\ Len(frames) \in Nat /\ Len(frames) > 0
      /\ Len(frames) - 1 \in 1..Len(frames) /\ Caller = frames[Len(frames) - 1]
      /\ Len(tokens) \in Nat
  BY <1>1, TopIs
<1>5. /\ f.at = "call" /\ f.min = Caller.min /\ f.left = Caller.left
      /\ f.parts = Append(Caller.parts, Top.left)
  <2>1. PICK parts : parts = Append(Caller.parts, Top.left)
    OBVIOUS
  <2>2. f = Shape("call", Caller.min, Caller.op, Caller.left, parts)
    BY <1>2, <2>1
  <2>3. f.at = "call" /\ f.min = Caller.min /\ f.left = Caller.left /\ f.parts = parts
    BY <2>2, ShapeIs
  <2> QED  BY <2>1, <2>3
<1>6. ASSUME NEW w, NEW plan, Resumes(w, Len(tokens), current, frames, plan)
      PROVE  /\ Works(w, Len(tokens), current, Top, plan[Len(frames)])
             /\ Waits(w, Caller, plan[Len(frames) - 1], plan[Len(frames)].from, Top.min)
             /\ Fits(w, Len(tokens), current, frames, plan)
  BY <1>1, <1>4, <1>6 DEF Resumes
<1>7. CASE current = "COMMA" /\ Reads
  <2>1. ASSUME NEW w, NEW type, NEW site, Extends(w, tokens', type, site)
        PROVE  Planned(w, Len(tokens'), type, frames')
    <3>1. /\ Len(w) \in Nat /\ Len(tokens') = Len(tokens) + 1
          /\ Len(tokens) + 1 <= Len(w) /\ w[Len(tokens) + 1] = "COMMA"
      BY <1>1, <1>7, <2>1, ResumingRead
    <3>2. PICK plan : Resumes(w, Len(tokens), current, frames, plan)
      BY <1>1, <1>7, <2>1, ResumingRead
    <3>3. PICK g : g = plan[Len(frames) - 1]
      OBVIOUS
    <3>4. Works(w, Len(tokens) + 1, type, f, g)
      BY <1>1, <1>4, <1>5, <1>6, <3>1, <3>2, <3>3, CommaWorks
    <3>5. Planned(w, Len(tokens) + 1, type, frames')
      BY <1>3, <1>4, <1>5, <1>6, <3>2, <3>3, <3>4, PlanReplaced
    <3> QED  BY <3>1, <3>5
  <2> QED  BY <2>1, PlanningReads
<1>8. CASE current # "COMMA" /\ Peek
  <2>1. ASSUME NEW w, NEW plan, Len(w) \in Nat, Resumes(w, Len(tokens), current, frames, plan)
        PROVE  Planned(w, Len(tokens), current, frames')
    <3>1. PICK g : g = plan[Len(frames) - 1]
      OBVIOUS
    <3>2. Stops(current, Top.min)
      BY <1>1, ReturnsStop
    <3>3. Works(w, Len(tokens), current, f, g)
      BY <1>1, <1>4, <1>5, <1>6, <1>8, <2>1, <3>1, <3>2, PartWorks
    <3> QED  BY <1>3, <1>4, <1>5, <1>6, <2>1, <3>1, <3>3, PlanReplaced
  <2> QED  BY <1>1, <1>8, <2>1, PlanningPeeks
<1> QED  BY <1>3, <1>7, <1>8

LEMMA EndElementPlanned ==
  ASSUME Typed, Planning, EndElement
  PROVE  Planning'
<1>1. outcome = "parsing" /\ Top.at = "loop" /\ Len(frames) > 1 /\ Caller.at = "array" /\ Breaks
  BY DEF EndElement, At, Returns, ReturnsIn
<1>2. PICK f : f = Shape("array", Caller.min, Caller.op, Caller.left, Append(Caller.parts, Top.left))
  OBVIOUS
<1>3. /\ (current = "COMMA" /\ Reads) \/ ( current = "CLOSE_BRACKET" /\ Peek)
      /\ Replaces(frames, frames', Len(frames) - 1, f)
  BY <1>2, EndElementTyped DEF EndElementDoes
<1>4. /\ Top = frames[Len(frames)] /\ Len(frames) \in Nat /\ Len(frames) > 0
      /\ Len(frames) - 1 \in 1..Len(frames) /\ Caller = frames[Len(frames) - 1]
      /\ Len(tokens) \in Nat
  BY <1>1, TopIs
<1>5. /\ f.at = "array" /\ f.min = Caller.min /\ f.left = Caller.left
      /\ f.parts = Append(Caller.parts, Top.left)
  <2>1. PICK parts : parts = Append(Caller.parts, Top.left)
    OBVIOUS
  <2>2. f = Shape("array", Caller.min, Caller.op, Caller.left, parts)
    BY <1>2, <2>1
  <2>3. f.at = "array" /\ f.min = Caller.min /\ f.left = Caller.left /\ f.parts = parts
    BY <2>2, ShapeIs
  <2> QED  BY <2>1, <2>3
<1>6. ASSUME NEW w, NEW plan, Resumes(w, Len(tokens), current, frames, plan)
      PROVE  /\ Works(w, Len(tokens), current, Top, plan[Len(frames)])
             /\ Waits(w, Caller, plan[Len(frames) - 1], plan[Len(frames)].from, Top.min)
             /\ Fits(w, Len(tokens), current, frames, plan)
  BY <1>1, <1>4, <1>6 DEF Resumes
<1>7. CASE current = "COMMA" /\ Reads
  <2>1. ASSUME NEW w, NEW type, NEW site, Extends(w, tokens', type, site)
        PROVE  Planned(w, Len(tokens'), type, frames')
    <3>1. /\ Len(w) \in Nat /\ Len(tokens') = Len(tokens) + 1
          /\ Len(tokens) + 1 <= Len(w) /\ w[Len(tokens) + 1] = "COMMA"
      BY <1>1, <1>7, <2>1, ResumingRead
    <3>2. PICK plan : Resumes(w, Len(tokens), current, frames, plan)
      BY <1>1, <1>7, <2>1, ResumingRead
    <3>3. PICK g : g = plan[Len(frames) - 1]
      OBVIOUS
    <3>4. Works(w, Len(tokens) + 1, type, f, g)
      BY <1>1, <1>4, <1>5, <1>6, <3>1, <3>2, <3>3, CommaWorks
    <3>5. Planned(w, Len(tokens) + 1, type, frames')
      BY <1>3, <1>4, <1>5, <1>6, <3>2, <3>3, <3>4, PlanReplaced
    <3> QED  BY <3>1, <3>5
  <2> QED  BY <2>1, PlanningReads
<1>8. CASE current = "CLOSE_BRACKET" /\ Peek
  <2>1. ASSUME NEW w, NEW plan, Len(w) \in Nat, Resumes(w, Len(tokens), current, frames, plan)
        PROVE  Planned(w, Len(tokens), current, frames')
    <3>1. PICK g : g = plan[Len(frames) - 1]
      OBVIOUS
    <3>2. Stops(current, Top.min)
      BY <1>1, ReturnsStop
    <3>3. Works(w, Len(tokens), current, f, g)
      BY <1>1, <1>4, <1>5, <1>6, <1>8, <2>1, <3>1, <3>2, PartWorks
    <3> QED  BY <1>3, <1>4, <1>5, <1>6, <2>1, <3>1, <3>3, PlanReplaced
  <2> QED  BY <1>1, <1>8, <2>1, PlanningPeeks
<1> QED  BY <1>3, <1>7, <1>8

LEMMA ReturnParsed ==
  ASSUME Typed, Planning, Return
  PROVE  ParsesAsWritten'
<1>1. /\ outcome = "parsing" /\ Top.at = "loop" /\ Len(frames) = 1
      /\ tree' = Top.left /\ tokens' = tokens
  BY DEF Return, Returns, At, Peek
<1>2. Extends(tokens, tokens, current, Top.at)
  <2>1. Len(tokens) \in Nat
    BY <1>1, TopIs
  <2> QED  BY <1>1, <2>1 DEF Extends
<1>3. PICK plan : Resumes(tokens, Len(tokens), current, frames, plan)
  BY <1>1, <1>2, Resuming
<1>4. plan[1].from = 1 /\ Works(tokens, Len(tokens), current, Top, plan[1])
  BY <1>1, <1>3 DEF Resumes, Fits, Top
<1>5. Expr(tokens, 1, Len(tokens), Top.left)
  BY <1>1, <1>4 DEF Works
<1>6. tree' = Meaning(tokens', 1, Len(tokens'))
  BY <1>1, <1>5 DEF Expr
<1> QED  BY <1>6 DEF ParsesAsWritten

LEMMA InitPlanned ==
  ASSUME Init
  PROVE  Planning
<1>1. PICK f : f = Operand(0)
  OBVIOUS
<1>2. frames = <<f>> /\ Len(frames) = 1 /\ frames[1] = f /\ Len(tokens) = 0
  BY <1>1 DEF Init
<1>3. f.at = "operand" /\ f.parts = <<>> /\ f.min = 0
  BY <1>1 DEF Operand
<1>4. ASSUME NEW w
      PROVE  Planned(w, Len(tokens), current, frames)
  <2>1. PICK g : g = Plan(1, 0)
    OBVIOUS
  <2>2. g.from = 1 /\ g.open = 0
    BY <2>1 DEF Plan
  <2>3. PICK plan : plan = <<g>>
    OBVIOUS
  <2>4. plan[1] = g
    BY <2>3
  <2>5. Works(w, 0, current, f, g)
    BY <1>3, <2>2 DEF Works
  <2>6. \A k \in 1..(Len(frames) - 1) : FALSE
    BY <1>2
  <2>7. Fits(w, 0, current, frames, plan)
    BY <1>2, <1>3, <2>2, <2>4, <2>5, <2>6 DEF Fits
  <2> QED  BY <1>2, <2>7 DEF Planned
<1> QED  BY <1>4 DEF Planning

Parsed == Typed /\ Planning /\ ParsesAsWritten

LEMMA NextParsed ==
  ASSUME Parsed, [Next]_vars
  PROVE  Parsed'
<1>0. Typed /\ Planning /\ ParsesAsWritten
  BY DEF Parsed
<1>1. Typed'
  BY <1>0, NextTyped
<1>2. CASE ReadUnary \/ ReadLiteral \/ OpenGroup \/ OpenArray \/ OpenCall \/ OpenIndex
             \/ ReadOperator \/ EndUnary \/ EndBinary \/ EndGroup \/ EndIndex \/ NextArgument
             \/ EndArgument \/ EndCall \/ NextElement \/ EndElement \/ EndArray
  <2>1. Planning'
    BY <1>0, <1>2, ReadUnaryPlanned, ReadLiteralPlanned, OpenGroupPlanned, OpenArrayPlanned,
       OpenCallPlanned, OpenIndexPlanned, ReadOperatorPlanned, EndUnaryPlanned,
       EndBinaryPlanned, EndGroupPlanned, EndIndexPlanned, NextArgumentPlanned,
       EndArgumentPlanned, EndCallPlanned, NextElementPlanned, EndElementPlanned,
       EndArrayPlanned
  <2>2. outcome = "parsing" /\ outcome' = outcome
    BY <1>2 DEF ReadUnary, ReadLiteral, OpenGroup, OpenArray, OpenCall, OpenIndex, ReadOperator,
       EndUnary, EndBinary, EndGroup, EndIndex, NextArgument, EndArgument, EndCall,
       NextElement, EndElement, EndArray, At, Continues, Returns, ReturnsIn
  <2> QED  BY <1>1, <2>1, <2>2 DEF Parsed, ParsesAsWritten
<1>3. CASE Return
  <2>1. outcome' = "done"
    BY <1>3 DEF Return
  <2> QED  BY <1>0, <1>1, <1>3, <2>1, ReturnParsed DEF Parsed, Planning
<1>4. CASE Throw
  <2>1. outcome' = "error"
    BY <1>4 DEF Throw
  <2> QED  BY <1>1, <2>1 DEF Parsed, Planning, ParsesAsWritten
<1>5. CASE UNCHANGED vars
  <2>1. Planning'
    BY <1>0, <1>5 DEF vars, Planning, Top
  <2> QED  BY <1>0, <1>1, <1>5, <2>1 DEF Parsed, ParsesAsWritten, vars
<1> QED  BY <1>2, <1>3, <1>4, <1>5 DEF Next

(* What the parser returns is what its tokens mean, for streams of any     *)
(* length: operators nest by precedence and to the left, and unary         *)
(* operators, calls, accesses, groups and arrays take the operand they     *)
(* stand at, however deep its calls were.                                  *)
THEOREM ExpressionsParseAsWritten == Spec => []ParsesAsWritten
<1>1. Init => Parsed
  BY InitTyped, InitPlanned DEF Parsed, Init, ParsesAsWritten
<1>2. Parsed /\ [Next]_vars => Parsed'
  BY NextParsed
<1>3. Parsed => ParsesAsWritten
  BY DEF Parsed
<1> QED  BY <1>1, <1>2, <1>3, PTL DEF Spec

(***************************************************************************)
(* The other way: tokens that have a meaning are never refused.  A piece   *)
(* that has one is made of smaller pieces: an operator outside its         *)
(* brackets cuts it in two, its brackets close, the parts of its lists     *)
(* follow one another.  So every call of parseExpression is there to read  *)
(* a piece, and reads on until its end.                                    *)
(***************************************************************************)
LEMMA Greatest ==
  ASSUME NEW lo \in Int, NEW hi \in Int, NEW S \in SUBSET (lo..hi), S # {}
  PROVE  \E m \in S : \A k \in S : k <= m
<1> DEFINE T == {hi - k : k \in S}
<1>1. T \in SUBSET Nat /\ T # {}
  OBVIOUS
<1>2. PICK t \in T : \A k \in T : t <= k
  <2> HIDE DEF T
  <2> QED  BY <1>1, Least
<1>3. PICK m \in S : t = hi - m
  BY <1>2
<1>4. ASSUME NEW k \in S PROVE k <= m
  <2>1. t <= hi - k
    BY <1>2
  <2> QED  BY <1>3, <2>1
<1> QED  BY <1>4

LEMMA RanksExist ==
  ASSUME NEW lo \in Int, NEW n \in Nat
  PROVE  \A S \in SUBSET (lo..(lo + n - 1)) : Ranked(S)
<1> DEFINE bad == {m \in Nat : ~ \A S \in SUBSET (lo..(lo + m - 1)) : Ranked(S)}
<1> SUFFICES ASSUME bad # {} PROVE FALSE
  OBVIOUS
<1>1. PICK m \in bad : \A k \in bad : m <= k
  <2>1. bad \in SUBSET Nat
    OBVIOUS
  <2> HIDE DEF bad
  <2> QED  BY <2>1, Least
<1>2. PICK S \in SUBSET (lo..(lo + m - 1)) : ~ Ranked(S)
  BY <1>1
<1>3. CASE m = 0
  <2>1. S = {}
    BY <1>2, <1>3
  <2>2. Cardinality(S) = 0
    BY <2>1, FS_EmptySet
  <2> QED  BY <1>2, <2>2 DEF Ranked
<1>4. CASE m # 0
  <2>1. m \in Nat /\ m - 1 \in Nat /\ ~ (m <= m - 1)
    BY <1>1, <1>4
  <2>2. \A U \in SUBSET (lo..(lo + (m - 1) - 1)) : Ranked(U)
    BY <1>1, <2>1
  <2>3. PICK x \in Int : x = lo + m - 1
    BY <2>1
  <2> DEFINE U == S \ {x}
  <2>4. U \in SUBSET (lo..(lo + (m - 1) - 1)) /\ U \in SUBSET Int /\ \A j \in U : j < x
    BY <1>2, <2>1, <2>3
  <2>5. Ranked(U) /\ IsFiniteSet(U)
    <3>1. lo + (m - 1) - 1 \in Int
      BY <2>1
    <3>2. IsFiniteSet(lo..(lo + (m - 1) - 1))
      BY <3>1, FS_Interval
    <3> QED  BY <2>2, <2>4, <3>2, FS_Subset
  <2> HIDE DEF U
  <2>6. Ranked(U \cup {x})
    BY <2>4, <2>5, RankedAdds
  <2>7. S = U \/ S = U \cup {x}
    BY DEF U
  <2> QED  BY <1>2, <2>5, <2>6, <2>7
<1> QED  BY <1>3, <1>4

LEMMA RanksOfStarts ==
  ASSUME NEW w, NEW o \in Int, NEW hi \in Int, o <= hi
  PROVE  Ranked(PartStarts(w, o, hi))
<1>1. PICK lo \in Int, n \in Nat : lo = o + 1 /\ n = hi - o
  OBVIOUS
<1>2. lo + n - 1 = hi
  BY <1>1
<1>3. PartStarts(w, o, hi) \in SUBSET (lo..(lo + n - 1))
  BY <1>1, <1>2, StartsAreWithin
<1> QED  BY <1>3, RanksExist

LEMMA RootExists ==
  ASSUME NEW w, NEW lo \in Int, NEW hi \in Int, ~ NoOperator(w, lo, hi)
  PROVE  \E i \in lo..hi : IsRoot(w, lo, hi, i) /\ Root(w, lo, hi) = i
<1> DEFINE B == BinaryOperators(w, lo, hi)
           L == {Level(w[i]) : i \in B}
<1>1. B \in SUBSET (lo..hi) /\ B # {}
  BY OutsideIsWithin DEF NoOperator
<1>2. \A i \in B : Level(w[i]) \in 1..4
  <2>1. \A i \in B : IsOperator(w[i])
    BY DEF BinaryOperators, IsBinary
  <2> QED  BY <2>1, OperatorHasLevel
<1> HIDE DEF B
<1>3. L \in SUBSET Nat /\ L # {}
  BY <1>1, <1>2
<1>4. PICK m \in L : \A k \in L : m <= k
  <2> HIDE DEF L
  <2> QED  BY <1>3, Least
<1> DEFINE T == {i \in B : Level(w[i]) = m}
<1>5. T \in SUBSET (lo..hi) /\ T # {}
  BY <1>1, <1>4
<1>6. PICK i \in T : \A k \in T : k <= i
  <2> HIDE DEF T
  <2> QED  BY <1>5, Greatest
<1>7. ASSUME NEW j \in B
      PROVE  Level(w[i]) < Level(w[j]) \/ (Level(w[i]) = Level(w[j]) /\ j <= i)
  <2>1. Level(w[i]) = m /\ m <= Level(w[j]) /\ Level(w[j]) \in Int /\ m \in Int
    BY <1>2, <1>3, <1>4, <1>6
  <2>2. CASE Level(w[j]) = m
    BY <1>6, <2>1, <2>2
  <2>3. CASE Level(w[j]) # m
    BY <2>1, <2>3
  <2> QED  BY <2>2, <2>3
<1>8. i \in B /\ i \in lo..hi
  BY <1>1, <1>6
<1>9. IsRoot(w, lo, hi, i)
  BY <1>7, <1>8 DEF IsRoot, B
<1> QED  BY <1>8, <1>9, RootIs

LEMMA LastBracketIs ==
  ASSUME NEW w, NEW lo \in Int, NEW hi \in Int, OuterBrackets(w, lo, hi) # {}
  PROVE  LastBracket(w, lo, hi) \in OuterBrackets(w, lo, hi)
<1> DEFINE S == OuterBrackets(w, lo, hi)
<1>1. S \in SUBSET (lo..hi) /\ S # {}
  BY DEF OuterBrackets, Outside
<1> HIDE DEF S
<1>2. PICK m \in S : \A k \in S : k <= m
  BY <1>1, Greatest
<1>3. \A k \in S : m >= k
  BY <1>1, <1>2
<1>4. Max(S) \in S
  BY <1>2, <1>3, Zenon DEF Max
<1> QED  BY <1>4 DEF S, LastBracket

(* What a piece that has a meaning is composed of.                         *)
Sound(w, a, b) == Meaning(w, a, b) # Malformed
Sounds(w, o, hi) ==
  \A k \in 1..Cardinality(PartStarts(w, o, hi)) :
    Sound(w, Nth(PartStarts(w, o, hi), k), PartEnd(w, PartStarts(w, o, hi), hi, k))
AllSound(parts) == \A k \in DOMAIN parts : parts[k] # Malformed

(* The bracket at o encloses one expression, that of a group or an index,  *)
(* and no list.                                                            *)
Single(w, lo, o) == o = lo <=> w[o] = "OPEN_PAREN"

OfOperator(w, lo, hi) ==
  \E i \in lo..hi : IsRoot(w, lo, hi, i) /\ Sound(w, lo, i - 1) /\ Sound(w, i + 1, hi)
OfUnary(w, lo, hi) == w[lo] \in UnaryOperators /\ Sound(w, lo + 1, hi)
OfLiteral(w, lo, hi) == lo = hi /\ w[lo] \in Literals
OfBracket(w, lo, o, hi) ==
  /\ o \in lo..(hi - 1) /\ w[o] \in Openers /\ Matches(w[o], w[hi]) /\ w[lo] \notin UnaryOperators
  /\ o # lo => Sound(w, lo, o - 1)
  /\ Single(w, lo, o) => Sound(w, o + 1, hi - 1)
  /\ ~ Single(w, lo, o) => Sounds(w, o, hi - 1)
Composes(w, lo, hi) ==
  /\ lo <= hi
  /\ \/ OfOperator(w, lo, hi)
     \/ /\ NoOperator(w, lo, hi)
        /\ OfUnary(w, lo, hi) \/ OfLiteral(w, lo, hi) \/ \E o \in lo..hi : OfBracket(w, lo, o, hi)

LEMMA ValidHasParts ==
  ASSUME NEW parts, NEW node, Valid(parts, node) # Malformed
  PROVE  AllSound(parts)
  BY DEF Valid, AllSound

SoundParts(w, o, hi, parts) ==
  /\ AllSound(parts) => Sounds(w, o, hi)
  /\ \E n \in Nat : parts = [k \in 1..n |-> parts[k]]

LEMMA PartsAreSound ==
  ASSUME NEW w, Len(w) \in Nat, NEW lo \in Int, NEW hi \in Int, 1 <= lo, hi <= Len(w),
         NEW h \in Int, h = hi - 1, NEW o \in lo..(hi - 1), NEW parts,
         parts = List(Meanings(w, lo, hi), w, o + 1, h, w[o] = "OPEN_PAREN")
  PROVE  SoundParts(w, o, h, parts)
<1> DEFINE S == PartStarts(w, o, h)
           f == Meanings(w, lo, hi)
           n == Cardinality(S)
<1>0. o \in Int /\ o <= h /\ h \in Int /\ h < hi /\ 1 <= o /\ lo <= o /\ h <= Len(w)
  OBVIOUS
<1>1. S \in SUBSET ((o + 1)..h) /\ n \in Nat /\ Ranked(S)
  BY <1>0, StartsAreWithin, RanksOfStarts
<1>2. parts = [k \in 1..n |-> f[<<Nth(S, k), PartEnd(w, S, h, k)>>]]
  BY DEF List, PartEnd, PartLast, PartStarts
<1> HIDE DEF S
<1>3. ASSUME AllSound(parts), NEW k \in 1..n
      PROVE  Sound(w, Nth(S, k), PartEnd(w, S, h, k))
  <2>1. \A i \in 1..n : Nth(S, i) \in (o + 1)..h
    BY <1>1 DEF Ranked
  <2>2. PartLast(S, h, k) \in o..h
    <3>1. CASE k = n
      BY <1>0, <3>1 DEF PartLast
    <3>2. CASE k # n
      <4>1. k + 1 \in 1..n
        BY <1>1, <3>2
      <4>2. Nth(S, k + 1) \in (o + 1)..h
        BY <2>1, <4>1
      <4> QED  BY <1>0, <3>2, <4>2 DEF PartLast
    <3> QED  BY <3>1, <3>2
  <2>3. PartEnd(w, S, h, k) \in (o - 1)..h
    BY <1>0, <2>2 DEF PartEnd
  <2>4. Nth(S, k) \in (o + 1)..h
    BY <2>1
  <2>5. PICK a \in Int, c \in Int : a = Nth(S, k) /\ c = PartEnd(w, S, h, k)
    BY <2>3, <2>4
  <2>6. a \in 1..(Len(w) + 1) /\ c \in 0..Len(w) /\ c - a < hi - lo
    BY <1>0, <2>3, <2>4, <2>5
  <2>7. f[<<a, c>>] = Meaning(w, a, c)
    BY <2>6, MeaningsAt
  <2>8. k \in DOMAIN parts /\ parts[k] = f[<<Nth(S, k), PartEnd(w, S, h, k)>>]
    BY <1>2
  <2>9. f[<<a, c>>] # Malformed
    BY <1>3, <2>5, <2>8 DEF AllSound
  <2> HIDE DEF f
  <2> QED  BY <2>5, <2>7, <2>9 DEF Sound
<1>4. \E m \in Nat : parts = [k \in 1..m |-> parts[k]]
  BY <1>1, <1>2
<1> QED  BY <1>3, <1>4 DEF S, Sounds, SoundParts

LEMMA ConcatSound ==
  ASSUME NEW a, NEW n \in Nat, NEW parts, parts = [k \in 1..n |-> parts[k]],
         AllSound(<<a>> \o parts)
  PROVE  a # Malformed /\ AllSound(parts)
<1> DEFINE X == {parts[k] : k \in 1..n} \cup {a}
           s == <<a>>
<1>1. a \in X /\ \A k \in 1..n : parts[k] \in X
  OBVIOUS
<1> HIDE DEF X
<1>2. parts \in Seq(X) /\ Len(parts) = n
  BY <1>1, Made
<1>3. s \in Seq(X) /\ Len(s) = 1 /\ s[1] = a
  BY <1>1
<1> HIDE DEF s
<1>4. PICK c : c = s \o parts
  OBVIOUS
<1>5. /\ c \in Seq(X) /\ Len(c) = Len(s) + Len(parts)
      /\ \A i \in 1..(Len(s) + Len(parts)) : c[i] = IF i <= Len(s) THEN s[i] ELSE parts[i - Len(s)]
  BY <1>2, <1>3, <1>4, ConcatProperties
<1>6. /\ Len(c) = 1 + n
       /\ \A i \in 1..(1 + n) : c[i] = IF i <= 1 THEN s[i] ELSE parts[i - 1]
  BY <1>2, <1>3, <1>5
<1>7. DOMAIN c = 1..(1 + n) /\ DOMAIN parts = 1..n
  BY <1>2, <1>5, <1>6, Elements
<1>8. \A i \in 1..(1 + n) : c[i] # Malformed
  <2>1. AllSound(c)
    BY <1>4 DEF s
  <2> QED  BY <1>7, <2>1 DEF AllSound
<1>9. a # Malformed
  <2>1. PICK j \in 1..(1 + n) : j = 1
    OBVIOUS
  <2>2. j <= 1
    BY <2>1
  <2>3. c[j] = s[j]
    BY <1>6, <2>2
  <2> QED  BY <1>3, <1>8, <2>1, <2>3
<1>10. ASSUME NEW k \in 1..n PROVE parts[k] # Malformed
  <2>1. PICK j \in 1..(1 + n) : j = k + 1
    OBVIOUS
  <2>2. ~ (j <= 1) /\ j - 1 = k
    BY <2>1
  <2>3. c[j] = parts[j - 1]
    BY <1>6, <2>2
  <2> QED  BY <1>8, <2>2, <2>3
<1> QED  BY <1>7, <1>9, <1>10 DEF AllSound

LEMMA MatchingBrackets ==
  ASSUME NEW o, NEW c, Matches(o, c)
  PROVE  /\ o \in Openers /\ c \in Closers
         /\ o = "OPEN_PAREN" <=> c = "CLOSE_PAREN"
         /\ o = "OPEN_BRACKET" <=> c = "CLOSE_BRACKET"
  BY DEF Matches, Openers, Closers

LEMMA BracketComposes ==
  ASSUME NEW w, Len(w) \in Nat, NEW lo \in Int, NEW hi \in Int, 1 <= lo, hi <= Len(w),
         NEW o \in lo..(hi - 1), w[o] \in Openers, Matches(w[o], w[hi]),
         w[lo] \notin UnaryOperators, o = LastBracket(w, lo, hi), OuterBrackets(w, lo, hi) # {},
         NoOperator(w, lo, hi), Sound(w, lo, hi)
  PROVE  OfBracket(w, lo, o, hi)
<1> DEFINE f == Meanings(w, lo, hi)
           postfixed == f[<<lo, o - 1>>]
           inside == f[<<o + 1, hi - 1>>]
           parts == List(f, w, o + 1, hi - 1, w[o] = "OPEN_PAREN")
<1>1. Composed(f, w, lo, hi) # Malformed
  <2>1. lo \in 1..(Len(w) + 1) /\ hi \in 0..Len(w)
    OBVIOUS
  <2> QED  BY <2>1, MeaningIs DEF Sound
<1>2. Composed(f, w, lo, hi) =
        CASE o = lo /\ w[o] = "OPEN_PAREN" -> inside
          [] o = lo /\ w[o] # "OPEN_PAREN" -> Valid(parts, ArrayNode(parts))
          [] o # lo /\ w[o] = "OPEN_PAREN" ->
               Valid(<<postfixed>> \o parts, CallNode(postfixed, parts))
          [] o # lo /\ w[o] # "OPEN_PAREN" ->
               Valid(<<postfixed, inside>>, AccessNode(postfixed, inside))
  <2>1. ~ (lo > hi) /\ ~ (lo = hi) /\ BinaryOperators(w, lo, hi) = {}
    BY DEF NoOperator
  <2> HIDE DEF f
  <2> QED  BY <2>1 DEF Composed
<1>3. o # lo => postfixed = Meaning(w, lo, o - 1)
  <2>1. ASSUME o # lo PROVE lo \in 1..(Len(w) + 1) /\ o - 1 \in 0..Len(w) /\ o - 1 - lo < hi - lo
    BY <2>1
  <2> QED  BY <2>1, MeaningsAt
<1>4. inside = Meaning(w, o + 1, hi - 1)
  <2>1. o + 1 \in 1..(Len(w) + 1) /\ hi - 1 \in 0..Len(w) /\ hi - 1 - (o + 1) < hi - lo
    OBVIOUS
  <2>2. PICK a \in 1..(Len(w) + 1), b \in 0..Len(w) : a = o + 1 /\ b = hi - 1 /\ b - a < hi - lo
    BY <2>1
  <2>3. Meanings(w, lo, hi)[<<a, b>>] = Meaning(w, a, b)
    BY <2>2, MeaningsAt
  <2> QED  BY <2>2, <2>3
<1>5. (AllSound(parts) => Sounds(w, o, hi - 1)) /\ \E n \in Nat : parts = [k \in 1..n |-> parts[k]]
  <2>1. PICK h \in Int : h = hi - 1
    OBVIOUS
  <2>2. PICK p : p = List(f, w, o + 1, h, w[o] = "OPEN_PAREN")
    OBVIOUS
  <2>3. SoundParts(w, o, h, p)
    BY <2>1, <2>2, PartsAreSound
  <2>4. p = parts
    BY <2>1, <2>2
  <2> QED  BY <2>1, <2>3, <2>4 DEF SoundParts
<1> HIDE DEF f, postfixed, inside, parts
<1>6. CASE o = lo /\ w[o] = "OPEN_PAREN"
  <2>1. inside # Malformed /\ Single(w, lo, o)
    BY <1>1, <1>2, <1>6 DEF Single
  <2> QED  BY <1>4, <1>6, <2>1 DEF OfBracket, Sound
<1>7. CASE o = lo /\ w[o] # "OPEN_PAREN"
  <2>1. AllSound(parts)
    BY <1>1, <1>2, <1>7, ValidHasParts
  <2>2. ~ Single(w, lo, o)
    BY <1>7 DEF Single
  <2> QED  BY <1>5, <1>7, <2>1, <2>2 DEF OfBracket
<1>8. CASE o # lo /\ w[o] = "OPEN_PAREN"
  <2>1. AllSound(<<postfixed>> \o parts)
    BY <1>1, <1>2, <1>8, ValidHasParts
  <2>2. postfixed # Malformed /\ AllSound(parts)
    BY <1>5, <2>1, ConcatSound
  <2>3. ~ Single(w, lo, o)
    BY <1>8 DEF Single
  <2> QED  BY <1>3, <1>5, <1>8, <2>2, <2>3 DEF OfBracket, Sound
<1>9. CASE o # lo /\ w[o] # "OPEN_PAREN"
  <2>1. AllSound(<<postfixed, inside>>)
    BY <1>1, <1>2, <1>9, ValidHasParts
  <2>2. postfixed # Malformed /\ inside # Malformed
    BY <2>1 DEF AllSound
  <2>3. Single(w, lo, o)
    BY <1>9, BracketIsPlain DEF Single, Openers
  <2> QED  BY <1>3, <1>4, <1>9, <2>2, <2>3 DEF OfBracket, Sound
<1> QED  BY <1>6, <1>7, <1>8, <1>9

LEMMA SoundComposes ==
  ASSUME NEW w, Len(w) \in Nat, NEW lo \in 1..(Len(w) + 1), NEW hi \in 0..Len(w), Sound(w, lo, hi)
  PROVE  Composes(w, lo, hi)
<1> DEFINE f == Meanings(w, lo, hi)
<1>0. lo \in Int /\ hi \in Int /\ 1 <= lo /\ hi <= Len(w)
  OBVIOUS
<1>1. Composed(f, w, lo, hi) # Malformed
  BY MeaningIs DEF Sound
<1>2. lo <= hi
  <2>1. CASE lo > hi
    <3> HIDE DEF f
    <3>1. Composed(f, w, lo, hi) = Malformed
      BY <2>1 DEF Composed
    <3> QED  BY <1>1, <3>1
  <2> QED  BY <1>0, <2>1
<1>3. CASE ~ NoOperator(w, lo, hi)
  <2>1. PICK i \in lo..hi : IsRoot(w, lo, hi, i) /\ Root(w, lo, hi) = i
    BY <1>0, <1>3, RootExists
  <2>2. i \in Int /\ lo < i /\ i <= hi
    BY <1>0, <2>1 DEF IsRoot, BinaryOperators, IsBinary
  <2>3. f[<<lo, i - 1>>] = Meaning(w, lo, i - 1)
    <3>1. i - 1 \in 0..Len(w) /\ i - 1 - lo < hi - lo
      BY <1>0, <2>2
    <3> QED  BY <1>0, <3>1, MeaningsAt
  <2>4. f[<<i + 1, hi>>] = Meaning(w, i + 1, hi)
    <3>1. i + 1 \in 1..(Len(w) + 1) /\ hi - (i + 1) < hi - lo
      BY <1>0, <2>2
    <3> QED  BY <1>0, <3>1, MeaningsAt
  <2>5. Composed(f, w, lo, hi) =
          Valid(<<f[<<lo, i - 1>>], f[<<i + 1, hi>>]>>,
                createBinaryNode(i, f[<<lo, i - 1>>], f[<<i + 1, hi>>]))
    <3>1. ~ (lo > hi) /\ BinaryOperators(w, lo, hi) # {}
      BY <1>0, <1>2, <1>3 DEF NoOperator
    <3> HIDE DEF f
    <3> QED  BY <2>1, <3>1, Zenon DEF Composed
  <2>6. AllSound(<<f[<<lo, i - 1>>], f[<<i + 1, hi>>]>>)
    <3> HIDE DEF f
    <3> QED  BY <1>1, <2>5, ValidHasParts
  <2>7. f[<<lo, i - 1>>] # Malformed /\ f[<<i + 1, hi>>] # Malformed
    <3> HIDE DEF f
    <3> QED  BY <2>6 DEF AllSound
  <2>8. Sound(w, lo, i - 1) /\ Sound(w, i + 1, hi)
    <3> HIDE DEF f
    <3> QED  BY <2>3, <2>4, <2>7 DEF Sound
  <2>9. OfOperator(w, lo, hi)
    BY <2>1, <2>8 DEF OfOperator
  <2> QED  BY <1>2, <2>9 DEF Composes
<1>4. CASE NoOperator(w, lo, hi)
  <2>0. BinaryOperators(w, lo, hi) = {} /\ ~ (lo > hi)
    BY <1>0, <1>2, <1>4 DEF NoOperator
  <2>1. CASE w[lo] \in UnaryOperators
    <3>1. f[<<lo + 1, hi>>] = Meaning(w, lo + 1, hi)
      <4>1. lo + 1 \in 1..(Len(w) + 1) /\ hi - (lo + 1) < hi - lo
        BY <1>0, <1>2
      <4> QED  BY <1>0, <4>1, MeaningsAt
    <3>2. Composed(f, w, lo, hi) = Valid(<<f[<<lo + 1, hi>>]>>, UnaryNode(lo, f[<<lo + 1, hi>>]))
      <4> HIDE DEF f
      <4> QED  BY <2>0, <2>1 DEF Composed
    <3> HIDE DEF f
    <3>3. AllSound(<<f[<<lo + 1, hi>>]>>)
      BY <1>1, <3>2, ValidHasParts
    <3>4. f[<<lo + 1, hi>>] # Malformed
      BY <3>3 DEF AllSound
    <3>5. OfUnary(w, lo, hi)
      BY <2>1, <3>1, <3>4 DEF OfUnary, Sound
    <3> QED  BY <1>2, <1>4, <3>5 DEF Composes
  <2>2. CASE w[lo] \notin UnaryOperators /\ lo = hi
    <3> HIDE DEF f
    <3>1. Composed(f, w, lo, hi) = IF w[lo] \in Literals THEN Leaf(lo) ELSE Malformed
      BY <2>0, <2>2 DEF Composed
    <3>2. OfLiteral(w, lo, hi)
      BY <1>1, <2>2, <3>1 DEF OfLiteral
    <3> QED  BY <1>2, <1>4, <3>2 DEF Composes
  <2>3. CASE w[lo] \notin UnaryOperators /\ lo # hi
    <3>1. PICK o : o = LastBracket(w, lo, hi)
      OBVIOUS
    <3>2. OuterBrackets(w, lo, hi) # {} /\ Matches(w[o], w[hi])
      <4>1. CASE OuterBrackets(w, lo, hi) = {} \/ ~ Matches(w[o], w[hi])
        <5> HIDE DEF f
        <5>1. Composed(f, w, lo, hi) = Malformed
          BY <2>0, <2>3, <3>1, <4>1 DEF Composed
        <5> QED  BY <1>1, <5>1
      <4> QED  BY <4>1
    <3>3. o \in lo..hi /\ w[o] \in Openers
      <4>1. o \in OuterBrackets(w, lo, hi)
        BY <1>0, <3>1, <3>2, LastBracketIs
      <4> QED  BY <4>1 DEF OuterBrackets, Outside
    <3>4. o # hi
      BY <3>2, <3>3, MatchingBrackets, BracketIsPlain
    <3>5. o \in lo..(hi - 1)
      BY <1>0, <3>3, <3>4
    <3>6. OfBracket(w, lo, o, hi)
      BY <1>0, <1>4, <2>3, <3>1, <3>2, <3>3, <3>5, BracketComposes
    <3> QED  BY <1>2, <1>4, <3>3, <3>6 DEF Composes
  <2> QED  BY <2>1, <2>2, <2>3
<1> QED  BY <1>3, <1>4

(* A part of a piece that begins outside its brackets.                     *)
Narrows(w, lo, hi, a, b) ==
  /\ \A j \in Outside(w, a, b) : j \in Outside(w, lo, hi)
  /\ \A j \in Outside(w, lo, hi) : a <= j /\ j <= b => j \in Outside(w, a, b)
  /\ \A j \in BinaryOperators(w, a, b) : j \in BinaryOperators(w, lo, hi)
  /\ \A j \in BinaryOperators(w, lo, hi) :
       a < j /\ j <= b => j \in BinaryOperators(w, a, b)

LEMMA Narrower ==
  ASSUME NEW w, NEW lo \in Int, NEW hi \in Int, NEW a \in Int, NEW b \in Int,
         lo <= a, b <= hi, Depth(w, lo, a) = 0
  PROVE  Narrows(w, lo, hi, a, b)
<1>1. ASSUME NEW j \in Int, a <= j PROVE Depth(w, lo, j) = Depth(w, a, j) /\ Depth(w, a, j) \in Int
  BY <1>1, DepthAdds
<1>2. ASSUME NEW j \in Outside(w, a, b) PROVE j \in Outside(w, lo, hi)
  <2>1. j \in Int /\ a <= j /\ j \in lo..hi /\ Depth(w, a, j) = 0
    BY <1>2 DEF Outside
  <2>2. Depth(w, lo, j) = 0
    BY <1>1, <2>1
  <2> QED  BY <2>1, <2>2 DEF Outside
<1>3. ASSUME NEW j \in Outside(w, lo, hi), a <= j, j <= b PROVE j \in Outside(w, a, b)
  <2>1. j \in Int /\ j \in a..b /\ Depth(w, lo, j) = 0
    BY <1>3 DEF Outside
  <2>2. Depth(w, a, j) = 0
    BY <1>1, <1>3, <2>1
  <2> QED  BY <2>1, <2>2 DEF Outside
<1>4. ASSUME NEW j \in BinaryOperators(w, a, b) PROVE j \in BinaryOperators(w, lo, hi)
  <2>1. j \in Outside(w, a, b) /\ j \in Int /\ j > a /\ IsOperator(w[j]) /\ EndsOperand(w[j - 1])
    BY <1>4 DEF BinaryOperators, IsBinary, Outside
  <2>2. j > lo
    BY <2>1
  <2> QED  BY <1>2, <2>1, <2>2 DEF BinaryOperators, IsBinary
<1>5. ASSUME NEW j \in BinaryOperators(w, lo, hi), a < j, j <= b
      PROVE  j \in BinaryOperators(w, a, b)
  <2>1. j \in Outside(w, lo, hi) /\ j \in Int /\ IsOperator(w[j]) /\ EndsOperand(w[j - 1])
    BY <1>5 DEF BinaryOperators, IsBinary, Outside
  <2>2. a <= j
    BY <1>5, <2>1
  <2> QED  BY <1>3, <1>5, <2>1, <2>2 DEF BinaryOperators, IsBinary
<1> QED  BY <1>2, <1>3, <1>4, <1>5 DEF Narrows

LEMMA PlainKeepsDepth ==
  ASSUME NEW w, NEW lo \in Int, NEW i \in Int, lo <= i, Depth(w, lo, i) = 0,
         w[i] \notin Openers \cup Closers
  PROVE  Depth(w, lo, i + 1) = 0
<1>1. PICK j \in Int : j = i + 1
  OBVIOUS
<1>2. lo <= i /\ i <= j
  BY <1>1
<1>3. Depth(w, lo, j) = Depth(w, lo, i) + Depth(w, i, j)
  BY <1>2, DepthAdds
<1>4. Depth(w, i, i + 1) = 0
  BY DepthOne
<1> QED  BY <1>1, <1>3, <1>4

LEMMA RootBinds ==
  ASSUME NEW w, NEW lo \in Int, NEW hi \in Int, NEW i \in lo..hi, IsRoot(w, lo, hi, i)
  PROVE  /\ IsOperator(w[i]) /\ lo < i
         /\ Binds(w, lo, i - 1, getPrecedence(w[i]))
         /\ Binds(w, i + 1, hi, getPrecedence(w[i]) + 1)
<1>1. i \in Outside(w, lo, hi) /\ IsOperator(w[i]) /\ i > lo
  BY DEF IsRoot, BinaryOperators, IsBinary
<1>2. Depth(w, lo, i) = 0 /\ w[i] \notin Openers \cup Closers
  BY <1>1, OperatorIsPlain DEF Outside
<1>3. ASSUME NEW j \in BinaryOperators(w, lo, hi)
      PROVE  /\ getPrecedence(w[j]) >= getPrecedence(w[i])
             /\ j > i => getPrecedence(w[j]) >= getPrecedence(w[i]) + 1
  <2>1. IsOperator(w[j]) /\ j \in Int
    BY DEF BinaryOperators, IsBinary, Outside
  <2>2. Level(w[i]) < Level(w[j]) \/ (Level(w[i]) = Level(w[j]) /\ j <= i)
    BY DEF IsRoot
  <2>3. /\ \/ Level(w[i]) = 1 /\ getPrecedence(w[i]) = 5
           \/ Level(w[i]) = 2 /\ getPrecedence(w[i]) = 10
           \/ Level(w[i]) = 3 /\ getPrecedence(w[i]) = 20
           \/ Level(w[i]) = 4 /\ getPrecedence(w[i]) = 30
        /\ \/ Level(w[j]) = 1 /\ getPrecedence(w[j]) = 5
           \/ Level(w[j]) = 2 /\ getPrecedence(w[j]) = 10
           \/ Level(w[j]) = 3 /\ getPrecedence(w[j]) = 20
           \/ Level(w[j]) = 4 /\ getPrecedence(w[j]) = 30
    BY <1>1, <2>1, OperatorHasLevel
  <2> QED  BY <2>1, <2>2, <2>3
<1>4. Binds(w, lo, i - 1, getPrecedence(w[i]))
  <2>1. PICK b \in Int : b = i - 1 /\ b <= hi
    OBVIOUS
  <2>2. \A j \in BinaryOperators(w, lo, b) : j \in BinaryOperators(w, lo, hi)
    <3>1. Depth(w, lo, lo) = 0 /\ lo <= lo
      BY DepthNone
    <3>2. Narrows(w, lo, hi, lo, b)
      BY <2>1, <3>1, Narrower
    <3> QED  BY <3>2 DEF Narrows
  <2> QED  BY <1>3, <2>1, <2>2 DEF Binds
<1>5. Binds(w, i + 1, hi, getPrecedence(w[i]) + 1)
  <2>1. PICK a \in Int : a = i + 1 /\ lo <= a
    OBVIOUS
  <2>2. Depth(w, lo, a) = 0
    BY <1>1, <1>2, <2>1, PlainKeepsDepth
  <2>3. \A j \in BinaryOperators(w, a, hi) : j \in BinaryOperators(w, lo, hi)
    <3>1. hi <= hi
      OBVIOUS
    <3>2. Narrows(w, lo, hi, a, hi)
      BY <2>1, <2>2, <3>1, Narrower
    <3> QED  BY <3>2 DEF Narrows
  <2>4. \A j \in BinaryOperators(w, a, hi) : j \in Int /\ j > i
    BY <2>1, OutsideIsWithin
  <2> QED  BY <1>3, <2>1, <2>3, <2>4 DEF Binds
<1> QED  BY <1>1, <1>4, <1>5

(* A piece that has a meaning is an expression, and every token of it is   *)
(* one of those of expressions.                                            *)
Clean(w, lo, hi) == Balanced(w, lo, hi) /\ \A k \in lo..hi : OfExpressions(w[k])
Piece(w, lo, hi) == Expr(w, lo, hi, Meaning(w, lo, hi)) /\ Clean(w, lo, hi)
Assured(w, n) ==
  \A a \in 1..(Len(w) + 1) : \A b \in 0..Len(w) : b - a < n /\ Sound(w, a, b) => Piece(w, a, b)

LEMMA PieceIsWithin ==
  ASSUME NEW w, NEW lo, NEW hi, Piece(w, lo, hi)
  PROVE  /\ lo \in Int /\ hi \in Int /\ 1 <= lo /\ lo <= hi /\ hi <= Len(w) /\ Len(w) \in Nat
         /\ Clean(w, lo, hi) /\ Expr(w, lo, hi, Meaning(w, lo, hi)) /\ Balanced(w, lo, hi)
         /\ w[lo] \in BeginsOperand /\ EndsOperand(w[hi]) /\ Sound(w, lo, hi)
  BY DEF Piece, Expr, Clean, Sound

LEMMA CleanJoined ==
  ASSUME NEW w, NEW lo \in Int, NEW m \in Int, NEW hi \in Int, lo <= m + 1, m <= hi,
         Clean(w, lo, m), Clean(w, m + 1, hi)
  PROVE  Clean(w, lo, hi)
<1>1. Balanced(w, lo, hi)
  BY Joined DEF Clean
<1>2. \A k \in lo..hi : k \in lo..m \/ k \in (m + 1)..hi
  OBVIOUS
<1> QED  BY <1>1, <1>2 DEF Clean

LEMMA CleanAlone ==
  ASSUME NEW w, NEW i \in Int, w[i] \notin Openers \cup Closers, OfExpressions(w[i])
  PROVE  Clean(w, i, i)
  BY Alone DEF Clean

LEMMA CleanBrackets ==
  ASSUME NEW w, NEW lo \in Int, NEW hi \in Int, lo < hi, NEW a \in Int, a = lo + 1,
         NEW b \in Int, b = hi - 1, w[lo] \in Openers, w[hi] \in Closers, Clean(w, a, b)
  PROVE  Clean(w, lo, hi)
<1>1. Balanced(w, lo, hi)
  BY Bracketed DEF Clean
<1>2. \A k \in lo..hi : k = lo \/ k = hi \/ k \in a..b
  OBVIOUS
<1>3. OfExpressions(w[lo]) /\ OfExpressions(w[hi])
  BY DEF OfExpressions
<1> QED  BY <1>1, <1>2, <1>3 DEF Clean

(* The parts of a list cover it.                                           *)
LEMMA PartIsClean ==
  ASSUME NEW w, Len(w) \in Nat, NEW o \in Nat \ {0}, NEW hi \in Int, o <= hi, hi <= Len(w),
         Assured(w, hi - o), Sounds(w, o, hi), NEW S, S = PartStarts(w, o, hi),
         NEW k \in 1..Cardinality(S)
  PROVE  /\ Nth(S, k) \in (o + 1)..hi /\ PartLast(S, hi, k) \in Int /\ PartEnd(w, S, hi, k) \in Int
         /\ Nth(S, k) <= PartEnd(w, S, hi, k) /\ PartLast(S, hi, k) <= hi
         /\ PartEnd(w, S, hi, k) <= PartLast(S, hi, k)
         /\ Piece(w, Nth(S, k), PartEnd(w, S, hi, k))
         /\ Clean(w, Nth(S, k), PartLast(S, hi, k))
<1> DEFINE n == Cardinality(S)
<1>1. S \in SUBSET ((o + 1)..hi) /\ n \in Nat /\ Ranked(S)
  BY StartsAreWithin, RanksOfStarts
<1>2. \A i \in 1..n : Nth(S, i) \in (o + 1)..hi
  BY <1>1 DEF Ranked
<1>3. PartLast(S, hi, k) \in o..hi
  <2>1. CASE k = n
    BY <2>1 DEF PartLast
  <2>2. CASE k # n
    <3>1. k + 1 \in 1..n
      BY <1>1, <2>2
    <3>2. Nth(S, k + 1) \in (o + 1)..hi
      BY <1>2, <3>1
    <3> QED  BY <2>2, <3>2 DEF PartLast
  <2> QED  BY <2>1, <2>2
<1>4. PICK a \in Int, c \in Int, d \in Int :
        a = Nth(S, k) /\ c = PartEnd(w, S, hi, k) /\ d = PartLast(S, hi, k)
  <2>1. Nth(S, k) \in (o + 1)..hi
    BY <1>2
  <2> QED  BY <1>3, <2>1 DEF PartEnd
<1>5. c = (IF w[d] = "COMMA" THEN d - 1 ELSE d) /\ a \in (o + 1)..hi /\ d \in o..hi
  BY <1>2, <1>3, <1>4 DEF PartEnd
<1>6. Piece(w, a, c)
  <2>1. a \in 1..(Len(w) + 1) /\ c \in 0..Len(w) /\ c - a < hi - o
    BY <1>5
  <2>2. Sound(w, a, c)
    BY <1>4 DEF Sounds
  <2> QED  BY <2>1, <2>2 DEF Assured
<1>7. a <= c /\ c <= d /\ Clean(w, a, c)
  BY <1>5, <1>6, PieceIsWithin
<1>8. Clean(w, a, d)
  <2>1. CASE w[d] = "COMMA"
    <3>1. w[d] \notin Openers \cup Closers /\ OfExpressions(w[d])
      BY <2>1 DEF Openers, Closers, OfExpressions
    <3>2. Clean(w, d, d)
      BY <3>1, CleanAlone
    <3>3. c + 1 = d
      BY <1>5, <2>1
    <3>4. Clean(w, c + 1, d) /\ a <= c + 1
      BY <1>7, <3>2, <3>3
    <3> QED  BY <1>7, <3>4, CleanJoined
  <2>2. CASE w[d] # "COMMA"
    BY <1>5, <1>7, <2>2
  <2> QED  BY <2>1, <2>2
<1> QED  BY <1>2, <1>4, <1>5, <1>6, <1>7, <1>8

BeginsAt(S, i) == Cardinality(S) \in Nat /\ Cardinality(S) >= 1 /\ Nth(S, 1) = i
LEMMA FirstStart ==
  ASSUME NEW w, NEW o \in Int, NEW hi \in Int, o < hi
  PROVE  BeginsAt(PartStarts(w, o, hi), o + 1)
<1>1. PICK S : S = PartStarts(w, o, hi)
  OBVIOUS
<1>2. PICK x \in Int : x = o + 1
  OBVIOUS
<1>3. S \in SUBSET (x..hi) /\ S \in SUBSET Int /\ IsFiniteSet(S) /\ Cardinality(S) \in Nat
  BY <1>1, <1>2, StartsAreWithin
<1>4. x \in S
  <2>1. x # hi + 1
    BY <1>2
  <2> QED  BY <1>1, <1>2, <2>1, InStarts
<1>5. {j \in S : j <= x} = {x}
  <2>1. \A j \in S : j \in Int /\ x <= j
    BY <1>3
  <2>2. \A j \in S : j <= x => j = x
    BY <2>1
  <2>3. x \in S /\ x <= x
    BY <1>4
  <2> QED  BY <2>2, <2>3
<1>6. Rank(S, x) = 1
  BY <1>5, FS_Singleton DEF Rank
<1>7. Nth(S, 1) = x
  <2>1. PICK one \in Int : one = 1
    OBVIOUS
  <2>2. Rank(S, x) = one
    BY <1>6, <2>1
  <2>3. Nth(S, one) = x
    BY <1>3, <1>4, <2>2, NthIs
  <2> QED  BY <2>1, <2>3
<1>8. Cardinality(S) # 0
  BY <1>3, <1>4, FS_EmptySet
<1> QED  BY <1>1, <1>2, <1>3, <1>7, <1>8 DEF BeginsAt

LEMMA ListIsClean ==
  ASSUME NEW w, Len(w) \in Nat, NEW o \in Nat \ {0}, NEW hi \in Int, o <= hi, hi <= Len(w),
         Assured(w, hi - o), Sounds(w, o, hi), NEW x \in Int, x = o + 1
  PROVE  Clean(w, x, hi)
<1>1. CASE o = hi
  <2>1. Balanced(w, x, x - 1) /\ x - 1 = hi
    <3>1. Balanced(w, x, x - 1)
      BY Nothing
    <3> QED  BY <1>1, <3>1
  <2> QED  BY <2>1 DEF Clean
<1>2. CASE o < hi
  <2>1. PICK S : S = PartStarts(w, o, hi)
    OBVIOUS
  <2>2. PICK n : n = Cardinality(S)
    OBVIOUS
  <2>3. n \in Nat /\ n >= 1 /\ Nth(S, 1) = x
    <3>1. BeginsAt(S, o + 1)
      BY <1>2, <2>1, FirstStart
    <3> QED  BY <2>2, <3>1 DEF BeginsAt
  <2> DEFINE bad == {k \in 1..n : ~ Clean(w, x, PartLast(S, hi, k))}
  <2>4. ASSUME bad # {} PROVE FALSE
    <3>1. PICK m \in bad : \A k \in bad : m <= k
      <4>1. bad \in SUBSET Nat
        OBVIOUS
      <4> HIDE DEF bad
      <4> QED  BY <2>4, <4>1, Least
    <3>2. m \in 1..n /\ ~ Clean(w, x, PartLast(S, hi, m))
      BY <3>1
    <3>3. /\ Nth(S, m) \in (o + 1)..hi /\ PartLast(S, hi, m) \in Int
          /\ Nth(S, m) <= PartLast(S, hi, m) /\ Clean(w, Nth(S, m), PartLast(S, hi, m))
      <4>1. m \in 1..Cardinality(S)
        BY <2>2, <3>2
      <4>2. /\ Nth(S, m) \in (o + 1)..hi /\ PartLast(S, hi, m) \in Int
            /\ PartEnd(w, S, hi, m) \in Int /\ Nth(S, m) <= PartEnd(w, S, hi, m)
            /\ PartEnd(w, S, hi, m) <= PartLast(S, hi, m)
            /\ Clean(w, Nth(S, m), PartLast(S, hi, m))
        BY <2>1, <4>1, PartIsClean
      <4> QED  BY <4>2
    <3>4. CASE m = 1
      BY <2>3, <3>2, <3>3, <3>4
    <3>5. CASE m # 1
      <4>1. PICK q \in Int : q = m - 1 /\ q + 1 = m
        BY <3>2
      <4>2. q \in 1..n /\ ~ (m <= q) /\ q # n
        BY <2>3, <3>2, <3>5, <4>1
      <4>3. Clean(w, x, PartLast(S, hi, q))
        BY <3>1, <4>2
      <4>4. PartLast(S, hi, q) = Nth(S, m) - 1
        BY <2>2, <4>1, <4>2 DEF PartLast
      <4>5. PICK c \in Int, d \in Int : c = Nth(S, m) - 1 /\ d = PartLast(S, hi, m)
        BY <3>3
      <4>6. c + 1 = Nth(S, m) /\ x <= c + 1 /\ c <= d
        BY <3>3, <4>5
      <4>7. Clean(w, x, c) /\ Clean(w, c + 1, d)
        BY <3>3, <4>3, <4>4, <4>5, <4>6
      <4>8. Clean(w, x, d)
        BY <4>6, <4>7, CleanJoined
      <4> QED  BY <3>2, <4>5, <4>8
    <3> QED  BY <3>4, <3>5
  <2>5. n \in 1..n
    BY <2>3
  <2>6. Clean(w, x, PartLast(S, hi, n))
    BY <2>4, <2>5
  <2> QED  BY <2>2, <2>6 DEF PartLast
<1> QED  BY <1>1, <1>2

LEMMA ListIsListed ==
  ASSUME NEW w, Len(w) \in Nat, NEW o \in Nat \ {0}, NEW hi \in Int, o <= hi, hi <= Len(w),
         w[o] \in Openers, Assured(w, hi - o), Sounds(w, o, hi)
  PROVE  /\ \E parts : Listed(w, o, hi, parts)
         /\ \A x \in Int : x = o + 1 => Clean(w, x, hi)
<1>1. PICK S : S = PartStarts(w, o, hi)
  OBVIOUS
<1>2. PICK parts : parts = [k \in 1..Cardinality(S) |-> Meaning(w, Nth(S, k), PartEnd(w, S, hi, k))]
  OBVIOUS
<1>3. PartsMean(w, S, hi, parts)
  BY <1>1, <1>2 DEF PartsMean, Sounds, Sound
<1>4. PICK x \in Int : x = o + 1
  OBVIOUS
<1>5. Clean(w, x, hi)
  BY <1>4, ListIsClean
<1>6. Ranked(S)
  BY <1>1, RanksOfStarts
<1>7. Balanced(w, o + 1, hi) /\ o \in 1..hi /\ hi \in 1..Len(w)
  BY <1>4, <1>5 DEF Clean
<1>8. Listed(w, o, hi, parts)
  BY <1>1, <1>3, <1>6, <1>7 DEF Listed
<1>9. \A y \in Int : y = o + 1 => y = x
  BY <1>4
<1> QED  BY <1>5, <1>8, <1>9

LEMMA OperatorIsPiece ==
  ASSUME NEW w, Len(w) \in Nat, NEW lo \in 1..(Len(w) + 1), NEW hi \in 0..Len(w),
         Assured(w, hi - lo), OfOperator(w, lo, hi)
  PROVE  Piece(w, lo, hi)
<1>1. PICK i \in lo..hi : IsRoot(w, lo, hi, i) /\ Sound(w, lo, i - 1) /\ Sound(w, i + 1, hi)
  BY DEF OfOperator
<1>2. /\ i \in Int /\ IsOperator(w[i]) /\ lo < i /\ lo \in Int /\ hi \in Int
      /\ Binds(w, lo, i - 1, getPrecedence(w[i])) /\ Binds(w, i + 1, hi, getPrecedence(w[i]) + 1)
  BY <1>1, RootBinds
<1>3. Piece(w, lo, i - 1)
  <2>1. i - 1 \in 0..Len(w) /\ i - 1 - lo < hi - lo
    BY <1>1, <1>2
  <2> QED  BY <1>1, <2>1 DEF Assured
<1>4. Piece(w, i + 1, hi)
  <2>1. i + 1 \in 1..(Len(w) + 1) /\ hi - (i + 1) < hi - lo
    BY <1>1, <1>2
  <2> QED  BY <1>1, <2>1 DEF Assured
<1>5. \E node : Expr(w, lo, hi, node)
  <2>1. /\ Expr(w, lo, i - 1, Meaning(w, lo, i - 1))
        /\ Expr(w, i + 1, hi, Meaning(w, i + 1, hi))
    BY <1>3, <1>4 DEF Piece
  <2> QED  BY <1>2, <2>1, ExprBinary
<1>6. Clean(w, lo, hi)
  <2>1. Clean(w, i, i)
    BY <1>2, OperatorIsPlain, CleanAlone DEF OfExpressions
  <2>2. PICK a \in Int, b \in Int : a = i - 1 /\ b = i + 1 /\ a + 1 = i
    BY <1>2
  <2>3. Clean(w, lo, a) /\ Clean(w, b, hi) /\ b <= hi
    BY <1>3, <1>4, <2>2, PieceIsWithin
  <2>4. i <= i + 1 /\ i <= hi /\ lo <= a + 1 /\ a <= hi
    BY <1>2, <2>2, <2>3
  <2>5. Clean(w, i, hi)
    BY <1>2, <2>1, <2>2, <2>3, <2>4, CleanJoined
  <2>6. Clean(w, a + 1, hi)
    BY <2>2, <2>5
  <2> QED  BY <1>2, <2>3, <2>4, <2>6, CleanJoined
<1>7. Expr(w, lo, hi, Meaning(w, lo, hi))
  BY <1>5 DEF Expr
<1> QED  BY <1>6, <1>7 DEF Piece

LEMMA UnaryIsPiece ==
  ASSUME NEW w, Len(w) \in Nat, NEW lo \in 1..(Len(w) + 1), NEW hi \in 0..Len(w), lo <= hi,
         Assured(w, hi - lo), NoOperator(w, lo, hi), OfUnary(w, lo, hi)
  PROVE  Piece(w, lo, hi)
<1>1. PICK a \in Int : a = lo + 1
  OBVIOUS
<1>2. lo \in Int /\ hi \in Int /\ lo \in Nat \ {0} /\ lo <= a /\ hi <= hi /\ lo <= lo + 1 /\ lo <= hi
  BY <1>1
<1>3. w[lo] \in UnaryOperators /\ Sound(w, a, hi)
  BY <1>1 DEF OfUnary
<1>4. Piece(w, a, hi)
  <2>1. a \in 1..(Len(w) + 1) /\ hi - a < hi - lo
    BY <1>1
  <2> QED  BY <1>3, <2>1 DEF Assured
<1>5. w[lo] \notin Openers \cup Closers /\ OfExpressions(w[lo])
  BY <1>3, UnaryIsPlain DEF OfExpressions
<1>6. Depth(w, lo, a) = 0
  <2>1. lo <= lo /\ Depth(w, lo, lo) = 0
    BY <1>2, DepthNone
  <2> QED  BY <1>1, <1>2, <1>5, <2>1, PlainKeepsDepth
<1>7. Binds(w, a, hi, 40)
  <2>1. Narrows(w, lo, hi, a, hi)
    BY <1>2, <1>6, Narrower
  <2> QED  BY <2>1 DEF Narrows, Binds, NoOperator
<1>8. \E node : Expr(w, lo, hi, node)
  <2>1. Expr(w, lo + 1, hi, Meaning(w, a, hi)) /\ Binds(w, lo + 1, hi, 40)
    BY <1>1, <1>4, <1>7 DEF Piece
  <2> QED  BY <1>2, <1>3, <2>1, ExprUnary
<1>9. Clean(w, lo, hi)
  <2>1. Clean(w, lo, lo)
    BY <1>2, <1>5, CleanAlone
  <2>2. Clean(w, lo + 1, hi)
    BY <1>1, <1>4, PieceIsWithin
  <2> QED  BY <1>2, <2>1, <2>2, CleanJoined
<1>10. Expr(w, lo, hi, Meaning(w, lo, hi))
  BY <1>8 DEF Expr
<1> QED  BY <1>9, <1>10 DEF Piece

LEMMA LiteralIsPiece ==
  ASSUME NEW w, Len(w) \in Nat, NEW lo \in 1..(Len(w) + 1), NEW hi \in 0..Len(w),
         OfLiteral(w, lo, hi)
  PROVE  Piece(w, lo, hi)
<1>1. lo = hi /\ w[lo] \in Literals /\ lo \in 1..Len(w)
  BY DEF OfLiteral
<1>2. Expr(w, lo, lo, Leaf(lo))
  BY <1>1, ExprLeaf
<1>3. Clean(w, lo, lo)
  BY <1>1, LiteralIsPlain, CleanAlone DEF OfExpressions
<1>4. Expr(w, lo, lo, Meaning(w, lo, lo))
  BY <1>2 DEF Expr
<1> QED  BY <1>1, <1>3, <1>4 DEF Piece

(* What a bracket encloses: one expression, when it is a group where an    *)
(* operand begins or an index where one has ended, or else a list.         *)
OneInside(w, lo, o) == w[o] = "OPEN_PAREN" <=> ~ (o > lo /\ EndsOperand(w[o - 1]))
Encloses(w, lo, o, c) ==
  /\ o \in Nat \ {0} /\ c \in Int /\ o < c /\ c <= Len(w)
  /\ w[o] \in Openers /\ Matches(w[o], w[c]) /\ Clean(w, o + 1, c - 1)
  /\ OneInside(w, lo, o) => Piece(w, o + 1, c - 1)
  /\ ~ OneInside(w, lo, o) => Sounds(w, o, c - 1)

LEMMA BracketIsPiece ==
  ASSUME NEW w, Len(w) \in Nat, NEW lo \in 1..(Len(w) + 1), NEW hi \in 0..Len(w),
         NEW o, Assured(w, hi - lo), NoOperator(w, lo, hi), OfBracket(w, lo, o, hi)
  PROVE  /\ Piece(w, lo, hi) /\ Encloses(w, lo, o, hi)
         /\ o # lo => Piece(w, lo, o - 1)
<1>1. PICK a \in Int, b \in Int, h \in Int : a = o - 1 /\ b = o + 1 /\ h = hi - 1
  BY DEF OfBracket
<1>2. /\ o \in Int /\ lo \in Int /\ hi \in Int /\ 1 <= lo /\ lo <= o /\ o < hi /\ hi <= Len(w)
      /\ o \in Nat \ {0} /\ o <= h /\ h <= Len(w) /\ o \in lo..hi /\ lo \in Nat \ {0}
  BY <1>1 DEF OfBracket
<1>3. /\ w[o] \in Openers /\ Matches(w[o], w[hi]) /\ w[hi] \in Closers
      /\ w[lo] \notin UnaryOperators
      /\ o # lo => Sound(w, lo, a)
      /\ Single(w, lo, o) => Sound(w, b, h)
      /\ ~ Single(w, lo, o) => Sounds(w, o, h)
      /\ w[o] = "OPEN_PAREN" => w[hi] = "CLOSE_PAREN"
      /\ w[o] = "OPEN_BRACKET" => w[hi] = "CLOSE_BRACKET"
      /\ w[o] = "OPEN_PAREN" \/ w[o] = "OPEN_BRACKET"
  BY <1>1, MatchingBrackets DEF OfBracket, Openers
<1>4. ASSUME o # lo PROVE Piece(w, lo, a) /\ Primary(w, lo, a)
  <2>1. a \in 0..Len(w) /\ a - lo < hi - lo
    BY <1>1, <1>2
  <2>2. Piece(w, lo, a)
    BY <1>3, <1>4, <2>1 DEF Assured
  <2>3. Narrows(w, lo, hi, lo, a)
    <3>1. Depth(w, lo, lo) = 0 /\ lo <= lo /\ a <= hi
      BY <1>1, <1>2, DepthNone
    <3> QED  BY <1>1, <1>2, <3>1, Narrower
  <2>4. BinaryOperators(w, lo, a) = {}
    BY <2>3 DEF Narrows, NoOperator
  <2> QED  BY <1>3, <2>2, <2>4 DEF Primary
<1>5. Single(w, lo, o) <=> OneInside(w, lo, o)
  <2>1. CASE o = lo
    BY <1>2, <2>1 DEF Single, OneInside
  <2>2. CASE o # lo
    <3>1. EndsOperand(w[o - 1]) /\ o > lo
      BY <1>1, <1>2, <1>4, <2>2, PieceIsWithin
    <3> QED  BY <2>2, <3>1 DEF Single, OneInside
  <2> QED  BY <2>1, <2>2
<1>6. ASSUME Single(w, lo, o) PROVE Piece(w, b, h)
  <2>1. b \in 1..(Len(w) + 1) /\ h \in 0..Len(w) /\ h - b < hi - lo
    BY <1>1, <1>2
  <2> QED  BY <1>3, <1>6, <2>1 DEF Assured
<1>7. ASSUME ~ Single(w, lo, o) PROVE Clean(w, b, h) /\ \E parts : Listed(w, o, h, parts)
  <2>1. Assured(w, h - o)
    BY <1>1, <1>2 DEF Assured
  <2>2. /\ \E parts : Listed(w, o, h, parts)
        /\ \A x \in Int : x = o + 1 => Clean(w, x, h)
    BY <1>2, <1>3, <1>7, <2>1, ListIsListed
  <2> QED  BY <1>1, <2>2
<1>8. Clean(w, b, h)
  BY <1>6, <1>7, PieceIsWithin
<1>9. Encloses(w, lo, o, hi)
  BY <1>1, <1>2, <1>3, <1>5, <1>6, <1>8 DEF Encloses
<1>10. Clean(w, lo, hi)
  <2>1. Clean(w, o, hi)
    BY <1>1, <1>2, <1>3, <1>8, CleanBrackets
  <2>2. CASE o = lo
    BY <2>1, <2>2
  <2>3. CASE o # lo
    <3>1. Clean(w, lo, a) /\ a + 1 = o /\ lo <= a + 1 /\ a <= hi
      BY <1>1, <1>2, <1>4, <2>3, PieceIsWithin
    <3>2. Clean(w, a + 1, hi)
      BY <2>1, <3>1
    <3> QED  BY <1>1, <1>2, <3>1, <3>2, CleanJoined
  <2> QED  BY <2>2, <2>3
<1>11. \E node : Expr(w, lo, hi, node)
  <2>1. CASE o = lo /\ w[o] = "OPEN_PAREN"
    <3>1. Expr(w, lo + 1, hi - 1, Meaning(w, b, h))
      BY <1>1, <1>6, <2>1 DEF Single, Piece
    <3> QED  BY <1>2, <1>3, <2>1, <3>1, ExprGroup
  <2>2. CASE o = lo /\ w[o] = "OPEN_BRACKET"
    <3>1. PICK parts : Listed(w, lo, hi - 1, parts)
      BY <1>1, <1>7, <2>2 DEF Single
    <3> QED  BY <1>2, <1>3, <2>2, <3>1, ExprArray
  <2>3. CASE o # lo /\ w[o] = "OPEN_PAREN"
    <3>1. PICK parts : Listed(w, o, hi - 1, parts)
      BY <1>1, <1>7, <2>3 DEF Single
    <3>2. Expr(w, lo, o - 1, Meaning(w, lo, a)) /\ Primary(w, lo, o - 1)
      BY <1>1, <1>4, <2>3 DEF Piece
    <3> QED  BY <1>2, <1>3, <2>3, <3>1, <3>2, ExprCall
  <2>4. CASE o # lo /\ w[o] = "OPEN_BRACKET"
    <3>1. Expr(w, o + 1, hi - 1, Meaning(w, b, h))
      BY <1>1, <1>6, <2>4 DEF Single, Piece
    <3>2. Expr(w, lo, o - 1, Meaning(w, lo, a)) /\ Primary(w, lo, o - 1)
      BY <1>1, <1>4, <2>4 DEF Piece
    <3> QED  BY <1>2, <1>3, <2>4, <3>1, <3>2, ExprAccess
  <2> QED  BY <1>3, <2>1, <2>2, <2>3, <2>4
<1>12. Expr(w, lo, hi, Meaning(w, lo, hi))
  BY <1>11 DEF Expr
<1>13. Piece(w, lo, hi)
  BY <1>10, <1>12 DEF Piece
<1> QED  BY <1>1, <1>4, <1>9, <1>13

LEMMA SoundsAssured ==
  ASSUME NEW w, Len(w) \in Nat, NEW n \in Nat
  PROVE  Assured(w, n - Len(w) - 1)
<1> DEFINE bad == {m \in Nat : ~ Assured(w, m - Len(w) - 1)}
<1> SUFFICES ASSUME bad # {} PROVE FALSE
  OBVIOUS
<1>1. PICK m \in bad : \A k \in bad : m <= k
  <2>1. bad \in SUBSET Nat
    OBVIOUS
  <2> HIDE DEF bad
  <2> QED  BY <2>1, Least
<1>2. PICK lo \in 1..(Len(w) + 1), hi \in 0..Len(w) :
        hi - lo < m - Len(w) - 1 /\ Sound(w, lo, hi) /\ ~ Piece(w, lo, hi)
  BY <1>1 DEF Assured
<1>3. Assured(w, hi - lo)
  <2>1. PICK k \in Nat : k = hi - lo + Len(w) + 1
    OBVIOUS
  <2>2. k < m /\ k - Len(w) - 1 = hi - lo
    BY <1>1, <1>2, <2>1
  <2>3. ~ (m <= k)
    BY <1>1, <2>2
  <2>4. Assured(w, k - Len(w) - 1)
    BY <1>1, <2>3
  <2> QED  BY <2>2, <2>4
<1>4. Composes(w, lo, hi)
  BY <1>2, SoundComposes
<1>5. Piece(w, lo, hi)
  BY <1>3, <1>4, OperatorIsPiece, UnaryIsPiece, LiteralIsPiece, BracketIsPiece DEF Composes
<1> QED  BY <1>2, <1>5

LEMMA AllAssured ==
  ASSUME NEW w, Len(w) \in Nat, NEW m \in Int
  PROVE  Assured(w, m)
<1>1. CASE m + Len(w) + 1 \in Nat
  <2>1. PICK n \in Nat : n = m + Len(w) + 1
    BY <1>1
  <2>2. Assured(w, n - Len(w) - 1)
    BY SoundsAssured
  <2>3. n - Len(w) - 1 = m
    BY <2>1
  <2> QED  BY <2>2, <2>3
<1>2. CASE m + Len(w) + 1 \notin Nat
  <2>1. \A a \in 1..(Len(w) + 1) : \A b \in 0..Len(w) : ~ (b - a < m)
    BY <1>2
  <2> QED  BY <2>1 DEF Assured
<1> QED  BY <1>1, <1>2

LEMMA SoundIsPiece ==
  ASSUME NEW w, Len(w) \in Nat, NEW lo \in 1..(Len(w) + 1), NEW hi \in 0..Len(w), Sound(w, lo, hi)
  PROVE  Piece(w, lo, hi)
<1>1. PICK m \in Int : m = hi - lo + 1
  OBVIOUS
<1>2. Assured(w, m) /\ hi - lo < m
  BY <1>1, AllAssured
<1> QED  BY <1>2 DEF Assured

(* What a piece is made of.                                                *)
MadeByOperator(w, lo, i, hi) ==
  /\ i \in Int /\ lo < i /\ i < hi /\ IsOperator(w[i])
  /\ Piece(w, lo, i - 1) /\ Binds(w, lo, i - 1, getPrecedence(w[i]))
  /\ Piece(w, i + 1, hi) /\ Binds(w, i + 1, hi, getPrecedence(w[i]) + 1)
MadeByUnary(w, lo, hi) ==
  w[lo] \in UnaryOperators /\ Piece(w, lo + 1, hi) /\ NoOperator(w, lo, hi)
MadeByLiteral(w, lo, hi) == lo = hi /\ w[lo] \in Literals
MadeByBracket(w, lo, o, hi) ==
  /\ o \in lo..(hi - 1) /\ Encloses(w, lo, o, hi) /\ w[lo] \notin UnaryOperators
  /\ NoOperator(w, lo, hi) /\ (o # lo => Piece(w, lo, o - 1))
MadeOf(w, lo, hi) ==
  \/ \E i \in lo..hi : MadeByOperator(w, lo, i, hi)
  \/ MadeByUnary(w, lo, hi) \/ MadeByLiteral(w, lo, hi)
  \/ \E o \in lo..hi : MadeByBracket(w, lo, o, hi)

LEMMA PieceIsMade ==
  ASSUME NEW w, NEW lo, NEW hi, Piece(w, lo, hi)
  PROVE  MadeOf(w, lo, hi)
<1>1. /\ lo \in Int /\ hi \in Int /\ 1 <= lo /\ lo <= hi /\ hi <= Len(w) /\ Len(w) \in Nat
      /\ lo \in 1..(Len(w) + 1) /\ hi \in 0..Len(w) /\ Sound(w, lo, hi)
  BY PieceIsWithin
<1>2. Composes(w, lo, hi)
  BY <1>1, SoundComposes
<1>3. CASE OfOperator(w, lo, hi)
  <2>1. PICK i \in lo..hi : IsRoot(w, lo, hi, i) /\ Sound(w, lo, i - 1) /\ Sound(w, i + 1, hi)
    BY <1>3 DEF OfOperator
  <2>2. /\ i \in Int /\ IsOperator(w[i]) /\ lo < i
        /\ Binds(w, lo, i - 1, getPrecedence(w[i])) /\ Binds(w, i + 1, hi, getPrecedence(w[i]) + 1)
    BY <1>1, <2>1, RootBinds
  <2>3. Piece(w, lo, i - 1)
    <3>1. i - 1 \in 0..Len(w)
      BY <1>1, <2>1, <2>2
    <3> QED  BY <1>1, <2>1, <3>1, SoundIsPiece
  <2>4. Piece(w, i + 1, hi)
    <3>1. i + 1 \in 1..(Len(w) + 1)
      BY <1>1, <2>1, <2>2
    <3> QED  BY <1>1, <2>1, <3>1, SoundIsPiece
  <2>5. i < hi
    <3>1. i + 1 <= hi
      BY <2>4, PieceIsWithin
    <3> QED  BY <1>1, <2>2, <3>1
  <2>6. MadeByOperator(w, lo, i, hi)
    BY <2>2, <2>3, <2>4, <2>5 DEF MadeByOperator
  <2> QED  BY <2>1, <2>6 DEF MadeOf
<1>4. CASE NoOperator(w, lo, hi) /\ OfUnary(w, lo, hi)
  <2>1. lo + 1 \in 1..(Len(w) + 1)
    BY <1>1
  <2>2. Piece(w, lo + 1, hi)
    BY <1>1, <1>4, <2>1, SoundIsPiece DEF OfUnary
  <2> QED  BY <1>4, <2>2 DEF MadeOf, MadeByUnary, OfUnary
<1>5. CASE OfLiteral(w, lo, hi)
  BY <1>5 DEF MadeOf, MadeByLiteral, OfLiteral
<1>6. ASSUME NoOperator(w, lo, hi), NEW o \in lo..hi, OfBracket(w, lo, o, hi)
      PROVE  MadeOf(w, lo, hi)
  <2>1. PICK m \in Int : m = hi - lo
    BY <1>1
  <2>2. Assured(w, hi - lo)
    BY <1>1, <2>1, AllAssured
  <2>3. Encloses(w, lo, o, hi) /\ (o # lo => Piece(w, lo, o - 1))
    BY <1>1, <1>6, <2>2, BracketIsPiece
  <2>4. MadeByBracket(w, lo, o, hi)
    BY <1>6, <2>3 DEF MadeByBracket, OfBracket
  <2> QED  BY <2>4 DEF MadeOf
<1> QED  BY <1>2, <1>3, <1>4, <1>5, <1>6 DEF Composes

(***************************************************************************)
(* The operand on either side of an operator outside the brackets.         *)
(***************************************************************************)
LEMMA OperatorOutside ==
  ASSUME NEW w, NEW lo, NEW hi, Piece(w, lo, hi), NEW i \in BinaryOperators(w, lo, hi)
  PROVE  /\ i \in Int /\ lo < i /\ i <= hi /\ IsOperator(w[i])
         /\ Depth(w, lo, i) = 0 /\ Depth(w, lo, i + 1) = 0
<1>1. lo \in Int /\ hi \in Int
  BY PieceIsWithin
<1>2. i \in Int /\ lo < i /\ i <= hi /\ IsOperator(w[i]) /\ Depth(w, lo, i) = 0 /\ lo <= i
  BY <1>1 DEF BinaryOperators, IsBinary, Outside
<1> QED  BY <1>1, <1>2, OperatorIsPlain, PlainKeepsDepth

LEMMA PiecesJoin ==
  ASSUME NEW w, NEW lo, NEW i \in Int, NEW hi, Piece(w, lo, i - 1), Piece(w, i + 1, hi),
         IsOperator(w[i]), Binds(w, lo, i - 1, getPrecedence(w[i])),
         Binds(w, i + 1, hi, getPrecedence(w[i]) + 1)
  PROVE  Piece(w, lo, hi) /\ Joins(w, lo, i, hi)
<1>1. /\ Expr(w, lo, i - 1, Meaning(w, lo, i - 1)) /\ Expr(w, i + 1, hi, Meaning(w, i + 1, hi))
  BY DEF Piece
<1>2. Expr(w, lo, hi, createBinaryNode(i, Meaning(w, lo, i - 1), Meaning(w, i + 1, hi)))
      /\ Joins(w, lo, i, hi)
  BY <1>1, ExprBinary
<1>3. lo \in 1..(Len(w) + 1) /\ hi \in 0..Len(w) /\ Len(w) \in Nat /\ Sound(w, lo, hi)
  BY <1>2 DEF Expr, Sound
<1> QED  BY <1>2, <1>3, SoundIsPiece

CutAt(w, lo, i, hi) == Piece(w, lo, i - 1) /\ Piece(w, i + 1, hi)

LEMMA CutNearRoot ==
  ASSUME NEW w, NEW lo, NEW r, NEW hi, Piece(w, lo, hi), MadeByOperator(w, lo, r, hi),
         NEW i \in BinaryOperators(w, lo, hi),
         i \in BinaryOperators(w, lo, r - 1) => CutAt(w, lo, i, r - 1),
         i \in BinaryOperators(w, r + 1, hi) => CutAt(w, r + 1, i, hi)
  PROVE  CutAt(w, lo, i, hi)
<1>1. /\ lo \in Int /\ hi \in Int /\ r \in Int /\ i \in Int /\ lo < r /\ r < hi
      /\ IsOperator(w[r]) /\ Piece(w, lo, r - 1) /\ Piece(w, r + 1, hi)
      /\ Binds(w, lo, r - 1, getPrecedence(w[r])) /\ Binds(w, r + 1, hi, getPrecedence(w[r]) + 1)
  BY PieceIsWithin, OperatorOutside DEF MadeByOperator
<1>2. Joins(w, lo, r, hi)
  BY <1>1, PiecesJoin
<1>3. PICK a \in Int, b \in Int, c \in Int, d \in Int : a = r - 1 /\ b = r + 1 /\ c = i - 1 /\ d = i + 1
  BY <1>1
<1>4. CASE i = r
  BY <1>1, <1>4 DEF CutAt
<1>5. CASE i \in BinaryOperators(w, lo, a)
  <2>1. Piece(w, lo, c) /\ Piece(w, d, a)
    BY <1>3, <1>5 DEF CutAt
  <2>2. Depth(w, lo, d) = 0 /\ lo <= d /\ a <= a
    <3>1. Piece(w, lo, a)
      BY <1>1, <1>3
    <3> QED  BY <1>1, <1>3, <1>5, <3>1, OperatorOutside
  <2>3. Narrows(w, lo, a, d, a)
    BY <1>1, <1>3, <2>2, Narrower
  <2>4. Binds(w, d, a, getPrecedence(w[r]))
    BY <1>1, <1>3, <2>3 DEF Narrows, Binds
  <2>5. Piece(w, d, r - 1) /\ Binds(w, d, r - 1, getPrecedence(w[r]))
    BY <1>3, <2>1, <2>4
  <2>6. Piece(w, d, hi)
    BY <1>1, <2>5, PiecesJoin
  <2> QED  BY <1>3, <2>1, <2>6 DEF CutAt
<1>6. CASE i \in BinaryOperators(w, b, hi)
  <2>1. Piece(w, b, c) /\ Piece(w, d, hi)
    BY <1>3, <1>6 DEF CutAt
  <2>2. Depth(w, b, b) = 0 /\ b <= b /\ c <= hi
    <3>1. i \in b..hi
      BY <1>6, OutsideIsWithin
    <3> QED  BY <1>1, <1>3, <3>1, DepthNone
  <2>3. Narrows(w, b, hi, b, c)
    BY <1>1, <1>3, <2>2, Narrower
  <2>4. Binds(w, b, c, getPrecedence(w[r]) + 1)
    BY <1>1, <1>3, <2>3 DEF Narrows, Binds
  <2>5. Piece(w, r + 1, c) /\ Binds(w, r + 1, c, getPrecedence(w[r]) + 1)
    BY <1>3, <2>1, <2>4
  <2>6. Piece(w, lo, c)
    BY <1>1, <2>5, PiecesJoin
  <2> QED  BY <1>3, <2>1, <2>6 DEF CutAt
<1> QED  BY <1>2, <1>3, <1>4, <1>5, <1>6 DEF Joins

LEMMA Cut ==
  ASSUME NEW w, NEW lo, NEW hi, Piece(w, lo, hi), NEW i \in BinaryOperators(w, lo, hi)
  PROVE  CutAt(w, lo, i, hi)
<1> DEFINE Uncut(m) == \E a \in Int, b \in Int :
              /\ b - a = m /\ Piece(w, a, b)
              /\ \E j \in BinaryOperators(w, a, b) : ~ CutAt(w, a, j, b)
           bad == {m \in Nat : Uncut(m)}
<1>1. ASSUME bad # {} PROVE FALSE
  <2>1. PICK m \in Nat : Uncut(m) /\ \A k \in Nat : Uncut(k) => m <= k
    <3>1. bad \in SUBSET Nat
      OBVIOUS
    <3>2. \A k : k \in bad <=> k \in Nat /\ Uncut(k)
      OBVIOUS
    <3> HIDE DEF Uncut, bad
    <3>3. \E m \in bad : \A k \in bad : m <= k
      BY <1>1, <3>1, Least
    <3> QED  BY <3>2, <3>3
  <2>2. PICK a \in Int, b \in Int :
          b - a = m /\ Piece(w, a, b) /\ \E j \in BinaryOperators(w, a, b) : ~ CutAt(w, a, j, b)
    BY <2>1
  <2>3. PICK j \in BinaryOperators(w, a, b) : ~ CutAt(w, a, j, b)
    BY <2>2
  <2>4. ASSUME NEW x \in Int, NEW y \in Int, Piece(w, x, y), y - x < m, j \in BinaryOperators(w, x, y)
        PROVE  CutAt(w, x, j, y)
    <3>1. PICK k \in Nat : k = y - x
      BY <2>4, PieceIsWithin
    <3>2. ~ (m <= k)
      BY <2>4, <3>1
    <3>3. ~ Uncut(k)
      <4> HIDE DEF Uncut
      <4> QED  BY <2>1, <3>1, <3>2
    <3> QED  BY <2>4, <3>1, <3>3
  <2> HIDE DEF Uncut, bad
  <2>5. MadeOf(w, a, b)
    BY <2>2, PieceIsMade
  <2>6. j \in Int /\ a < j /\ j <= b
    BY <2>2, OperatorOutside
  <2>7. ASSUME NEW r, MadeByOperator(w, a, r, b) PROVE FALSE
    <3>1. PICK x \in Int, y \in Int : x = r - 1 /\ y = r + 1 /\ a < r /\ r < b
      BY <2>7 DEF MadeByOperator
    <3>2. Piece(w, a, x) /\ Piece(w, y, b)
      BY <2>7, <3>1 DEF MadeByOperator
    <3>3. x - a < m /\ b - y < m
      <4>1. r \in Int
        BY <2>7 DEF MadeByOperator
      <4> QED  BY <2>2, <3>1, <4>1
    <3>4. j \in BinaryOperators(w, a, r - 1) => CutAt(w, a, j, r - 1)
      BY <2>4, <3>1, <3>2, <3>3
    <3>5. j \in BinaryOperators(w, r + 1, b) => CutAt(w, r + 1, j, b)
      BY <2>4, <3>1, <3>2, <3>3
    <3> QED  BY <2>2, <2>3, <2>7, <3>4, <3>5, CutNearRoot
  <2>8. ~ NoOperator(w, a, b)
    BY DEF NoOperator
  <2>9. a # b
    BY <2>6
  <2> QED  BY <2>5, <2>7, <2>8, <2>9 DEF MadeOf, MadeByUnary, MadeByLiteral, MadeByBracket
<1>2. hi - lo \in Nat /\ lo \in Int /\ hi \in Int
  BY PieceIsWithin
<1>3. hi - lo \notin bad
  BY <1>1
<1>4. ~ Uncut(hi - lo)
  <2> HIDE DEF Uncut
  <2> QED  BY <1>2, <1>3
<1> QED  BY <1>2, <1>4

(***************************************************************************)
(* What follows an operand, and where a bracket closes.                    *)
(***************************************************************************)
LEMMA NotCloser ==
  ASSUME NEW w, NEW lo \in Int, NEW hi \in Int, Balanced(w, lo, hi), NEW i \in lo..hi,
         Depth(w, lo, i) = 0
  PROVE  w[i] \notin Closers
<1>1. PICK j \in Int : j = i + 1
  OBVIOUS
<1>2. lo <= i /\ i <= j /\ j \in lo..(hi + 1) /\ i \in Int
  BY <1>1
<1>3. Depth(w, lo, j) = Depth(w, lo, i) + Depth(w, i, j) /\ Depth(w, lo, j) >= 0
  BY <1>2, DepthAdds DEF Balanced
<1>4. w[i] \in Closers => Depth(w, i, i + 1) = -1
  <2>1. w[i] \in Closers => w[i] \notin Openers
    BY DEF Openers, Closers
  <2> QED  BY <1>2, <2>1, DepthOne
<1> QED  BY <1>1, <1>3, <1>4

LEMMA Spelled ==
  ASSUME NEW t, OfExpressions(t), t # "COMMA", t \notin Closers
  PROVE  t \in Openers \/ IsOperator(t) \/ t \in Literals \cup {"NOT"}
<1>1. t = "MINUS" => IsOperator(t)
  BY DEF IsOperator, Levels
<1> QED  BY <1>1 DEF OfExpressions, UnaryOperators

LEMMA Rests ==
  ASSUME NEW w, NEW a, NEW c, Piece(w, a, c), NEW b \in Int, a <= b, b < c,
         Balanced(w, a, b), EndsOperand(w[b]), NEW x \in Int, x = b + 1
  PROVE  w[x] \in Openers \/ (x \in BinaryOperators(w, a, c) /\ IsOperator(w[x]))
<1>1. a \in Int /\ c \in Int /\ Clean(w, a, c) /\ Balanced(w, a, c) /\ Unsplit(w, a, c)
  BY PieceIsWithin DEF Expr
<1>2. Depth(w, a, x) = 0 /\ x \in a..c /\ x > a
  BY <1>1 DEF Balanced
<1>3. x \in Outside(w, a, c)
  BY <1>2 DEF Outside
<1>4. w[x] # "COMMA" /\ w[x] \notin Literals \cup {"NOT"}
  <2>1. x - 1 = b
    OBVIOUS
  <2> QED  BY <1>1, <1>2, <1>3, <2>1 DEF Unsplit
<1>5. w[x] \notin Closers
  BY <1>1, <1>2, NotCloser
<1>6. OfExpressions(w[x])
  BY <1>1, <1>2 DEF Clean
<1>7. w[x] \in Openers \/ IsOperator(w[x])
  BY <1>4, <1>5, <1>6, Spelled
<1>8. IsOperator(w[x]) => x \in BinaryOperators(w, a, c)
  <2>1. x - 1 = b
    OBVIOUS
  <2> QED  BY <1>2, <1>3, <2>1 DEF BinaryOperators, IsBinary
<1> QED  BY <1>7, <1>8

LEMMA EnclosesFrom ==
  ASSUME NEW w, NEW a, NEW x, NEW o, NEW c, Encloses(w, x, o, c),
         (o > a /\ EndsOperand(w[o - 1])) <=> (o > x /\ EndsOperand(w[o - 1]))
  PROVE  Encloses(w, a, o, c)
<1>1. OneInside(w, a, o) <=> OneInside(w, x, o)
  BY DEF OneInside
<1> QED  BY <1>1 DEF Encloses

(* The bracket at o closes by the end of the piece.                        *)
Closes(w, a, o, b) == \E c \in Int : c <= b /\ Encloses(w, a, o, c)

LEMMA ClosesAfter ==
  ASSUME NEW w, NEW a \in Int, NEW x \in Int, NEW b \in Int, Piece(w, x, b), x = a + 1,
         ~ EndsOperand(w[a]), NEW o \in Int, Closes(w, x, o, b), NEW lo \in Int, lo <= a, x <= o
  PROVE  Closes(w, lo, o, b)
<1>1. PICK c \in Int : c <= b /\ Encloses(w, x, o, c)
  BY DEF Closes
<1>2. (o > lo /\ EndsOperand(w[o - 1])) <=> (o > x /\ EndsOperand(w[o - 1]))
  <2>1. CASE o = x
    <3>1. o - 1 = a
      BY <2>1
    <3> QED  BY <2>1, <3>1
  <2>2. CASE o # x
    BY <2>2
  <2> QED  BY <2>1, <2>2
<1>3. Encloses(w, lo, o, c)
  BY <1>1, <1>2, EnclosesFrom
<1> QED  BY <1>1, <1>3 DEF Closes

LEMMA ClosesInBrackets ==
  ASSUME NEW w, NEW a, NEW b, Piece(w, a, b), NEW q, MadeByBracket(w, a, q, b),
         NEW o \in Outside(w, a, b), w[o] \in Openers,
         o \in Outside(w, a, q - 1) => Closes(w, a, o, q - 1)
  PROVE  Closes(w, a, o, b)
<1>1. PICK p \in Int, x \in Int, y \in Int : p = q - 1 /\ x = q + 1 /\ y = b - 1
  BY PieceIsWithin DEF MadeByBracket
<1>2. /\ a \in Int /\ b \in Int /\ q \in Int /\ a <= q /\ q < b /\ o \in Int /\ o \in a..b
      /\ w[q] \in Openers /\ Clean(w, x, y) /\ Depth(w, a, o) = 0
  BY <1>1, PieceIsWithin DEF MadeByBracket, Encloses, Outside
<1>3. Depth(w, a, q) = 0 /\ Depth(w, a, q) \in Int
  <2>1. CASE q = a
    BY <1>2, <2>1, DepthNone
  <2>2. CASE q # a
    <3>1. Piece(w, a, p)
      BY <1>1, <2>2 DEF MadeByBracket
    <3>2. Balanced(w, a, p) /\ p + 1 = q
      BY <1>1, <1>2, <3>1, PieceIsWithin
    <3> QED  BY <3>2 DEF Balanced
  <2> QED  BY <2>1, <2>2
<1>4. CASE o = q
  BY <1>2, <1>4 DEF Closes, MadeByBracket
<1>5. CASE o < q
  <2>1. q # a
    BY <1>2, <1>5
  <2>2. o \in Outside(w, a, p)
    BY <1>1, <1>2, <1>5 DEF Outside
  <2>3. PICK c \in Int : c <= p /\ Encloses(w, a, o, c)
    BY <1>1, <2>2 DEF Closes
  <2>4. c <= b
    BY <1>1, <1>2, <2>3
  <2> QED  BY <2>3, <2>4 DEF Closes
<1>6. CASE o > q
  <2>1. Depth(w, x, o) >= 0 /\ Depth(w, x, o) \in Int
    <3>1. o \in x..(y + 1) /\ x <= o
      BY <1>1, <1>2, <1>6
    <3> QED  BY <1>2, <3>1, DepthAdds DEF Clean, Balanced
  <2>2. Depth(w, q, x) = 1
    BY <1>1, <1>2, DepthOne
  <2>3. Depth(w, q, o) = Depth(w, q, x) + Depth(w, x, o)
    <3>1. q <= x /\ x <= o
      BY <1>1, <1>2, <1>6
    <3> QED  BY <1>2, <3>1, DepthAdds
  <2>4. Depth(w, a, o) = Depth(w, a, q) + Depth(w, q, o)
    <3>1. q <= o
      BY <1>2, <1>6
    <3> QED  BY <1>2, <3>1, DepthAdds
  <2> QED  BY <1>2, <1>3, <2>1, <2>2, <2>3, <2>4
<1> QED  BY <1>2, <1>4, <1>5, <1>6

LEMMA ClosesNearRoot ==
  ASSUME NEW w, NEW a, NEW b, Piece(w, a, b), NEW r, MadeByOperator(w, a, r, b),
         NEW o \in Outside(w, a, b), w[o] \in Openers,
         o \in Outside(w, a, r - 1) => Closes(w, a, o, r - 1),
         o \in Outside(w, r + 1, b) => Closes(w, r + 1, o, b)
  PROVE  Closes(w, a, o, b)
<1>1. PICK p \in Int, x \in Int : p = r - 1 /\ x = r + 1
  BY DEF MadeByOperator
<1>2. /\ a \in Int /\ b \in Int /\ r \in Int /\ a < r /\ r < b /\ IsOperator(w[r])
      /\ Piece(w, a, p) /\ Piece(w, x, b) /\ o \in Int /\ a <= o /\ o <= b
      /\ ~ EndsOperand(w[r]) /\ w[r] \notin Openers \cup Closers
  BY <1>1, PieceIsWithin, OperatorIsPlain DEF MadeByOperator, Outside
<1>3. Depth(w, a, x) = 0
  <2>1. Balanced(w, a, p) /\ p + 1 = r
    BY <1>1, <1>2, PieceIsWithin
  <2>2. Depth(w, a, r) = 0
    BY <2>1 DEF Balanced
  <2> QED  BY <1>1, <1>2, <2>2, PlainKeepsDepth
<1>4. o # r
  BY <1>2
<1>5. CASE o < r
  <2>1. Narrows(w, a, b, a, p)
    <3>1. p <= b /\ a <= a /\ Depth(w, a, a) = 0
      BY <1>1, <1>2, DepthNone
    <3> QED  BY <1>2, <3>1, Narrower
  <2>2. o \in Outside(w, a, p)
    <3>1. o <= p
      BY <1>1, <1>2, <1>5
    <3> QED  BY <1>2, <2>1, <3>1 DEF Narrows
  <2>3. PICK c \in Int : c <= p /\ Encloses(w, a, o, c)
    BY <1>1, <2>2 DEF Closes
  <2>4. c <= b
    BY <1>1, <1>2, <2>3
  <2> QED  BY <2>3, <2>4 DEF Closes
<1>6. CASE o > r
  <2>1. a <= x /\ b <= b /\ x <= o /\ a <= r
    BY <1>1, <1>2, <1>6
  <2>2. Narrows(w, a, b, x, b)
    BY <1>2, <1>3, <2>1, Narrower
  <2>3. o \in Outside(w, x, b)
    BY <1>2, <2>1, <2>2 DEF Narrows
  <2>4. Closes(w, x, o, b)
    BY <1>1, <2>3
  <2> QED  BY <1>1, <1>2, <2>1, <2>4, ClosesAfter
<1> QED  BY <1>2, <1>4, <1>5, <1>6

LEMMA ClosesInUnary ==
  ASSUME NEW w, NEW a, NEW b, Piece(w, a, b), MadeByUnary(w, a, b),
         NEW o \in Outside(w, a, b), w[o] \in Openers,
         o \in Outside(w, a + 1, b) => Closes(w, a + 1, o, b)
  PROVE  Closes(w, a, o, b)
<1>1. a \in Int /\ b \in Int /\ o \in Int /\ a <= o /\ o <= b
  BY PieceIsWithin DEF Outside
<1>2. PICK x \in Int : x = a + 1
  BY <1>1
<1>3. /\ Piece(w, x, b) /\ ~ EndsOperand(w[a]) /\ w[a] \notin Openers \cup Closers
  BY <1>2, UnaryIsPlain DEF MadeByUnary
<1>4. o # a
  BY <1>3
<1>5. a <= x /\ b <= b /\ x <= o /\ a <= a
  BY <1>1, <1>2, <1>4
<1>6. Depth(w, a, x) = 0
  BY <1>1, <1>2, <1>3, <1>5, DepthNone, PlainKeepsDepth
<1>7. Narrows(w, a, b, x, b)
  BY <1>1, <1>5, <1>6, Narrower
<1>8. o \in Outside(w, x, b)
  BY <1>1, <1>5, <1>7 DEF Narrows
<1>9. Closes(w, x, o, b)
  BY <1>2, <1>8
<1> QED  BY <1>1, <1>2, <1>3, <1>5, <1>9, ClosesAfter

LEMMA BracketsClose ==
  ASSUME NEW w, NEW lo, NEW hi, Piece(w, lo, hi), NEW i \in Outside(w, lo, hi), w[i] \in Openers
  PROVE  Closes(w, lo, i, hi)
<1> DEFINE Open(m) == \E a \in Int, b \in Int :
              /\ b - a = m /\ Piece(w, a, b)
              /\ \E j \in Outside(w, a, b) : w[j] \in Openers /\ ~ Closes(w, a, j, b)
           bad == {m \in Nat : Open(m)}
<1>1. ASSUME bad # {} PROVE FALSE
  <2>1. PICK m \in Nat : Open(m) /\ \A k \in Nat : Open(k) => m <= k
    <3>1. bad \in SUBSET Nat
      OBVIOUS
    <3>2. \A k : k \in bad <=> k \in Nat /\ Open(k)
      OBVIOUS
    <3> HIDE DEF Open, bad
    <3>3. \E m \in bad : \A k \in bad : m <= k
      BY <1>1, <3>1, Least
    <3> QED  BY <3>2, <3>3
  <2>2. PICK a \in Int, b \in Int :
          /\ b - a = m /\ Piece(w, a, b)
          /\ \E j \in Outside(w, a, b) : w[j] \in Openers /\ ~ Closes(w, a, j, b)
    BY <2>1
  <2>3. PICK j \in Outside(w, a, b) : w[j] \in Openers /\ ~ Closes(w, a, j, b)
    BY <2>2
  <2>4. ASSUME NEW x \in Int, NEW y \in Int, Piece(w, x, y), y - x < m, j \in Outside(w, x, y)
        PROVE  Closes(w, x, j, y)
    <3>1. PICK k \in Nat : k = y - x
      BY <2>4, PieceIsWithin
    <3>2. ~ (m <= k)
      BY <2>4, <3>1
    <3>3. ~ Open(k)
      <4> HIDE DEF Open
      <4> QED  BY <2>1, <3>1, <3>2
    <3> QED  BY <2>3, <2>4, <3>1, <3>3
  <2> HIDE DEF Open, bad
  <2>5. MadeOf(w, a, b)
    BY <2>2, PieceIsMade
  <2>6. ASSUME NEW r, MadeByOperator(w, a, r, b) PROVE FALSE
    <3>1. PICK x \in Int, y \in Int : x = r - 1 /\ y = r + 1 /\ a < r /\ r < b /\ r \in Int
      BY <2>6 DEF MadeByOperator
    <3>2. Piece(w, a, x) /\ Piece(w, y, b)
      BY <2>6, <3>1 DEF MadeByOperator
    <3>3. x - a < m /\ b - y < m
      BY <2>2, <3>1
    <3>4. j \in Outside(w, a, r - 1) => Closes(w, a, j, r - 1)
      BY <2>4, <3>1, <3>2, <3>3
    <3>5. j \in Outside(w, r + 1, b) => Closes(w, r + 1, j, b)
      BY <2>4, <3>1, <3>2, <3>3
    <3> QED  BY <2>2, <2>3, <2>6, <3>4, <3>5, ClosesNearRoot
  <2>7. ~ MadeByUnary(w, a, b)
    <3>1. SUFFICES ASSUME MadeByUnary(w, a, b) PROVE FALSE
      OBVIOUS
    <3>2. PICK x \in Int : x = a + 1
      OBVIOUS
    <3>3. Piece(w, x, b) /\ b - x < m
      BY <2>2, <3>1, <3>2 DEF MadeByUnary
    <3>4. j \in Outside(w, a + 1, b) => Closes(w, a + 1, j, b)
      BY <2>4, <3>2, <3>3
    <3> QED  BY <2>2, <2>3, <3>1, <3>4, ClosesInUnary
  <2>8. ~ MadeByLiteral(w, a, b)
    <3>1. j \in a..b
      BY <2>3, OutsideIsWithin
    <3> QED  BY <2>3, <3>1, LiteralIsPlain DEF MadeByLiteral
  <2>9. ASSUME NEW q, MadeByBracket(w, a, q, b) PROVE FALSE
    <3>1. PICK x \in Int : x = q - 1 /\ q \in Int /\ a <= q /\ q < b
      BY <2>9 DEF MadeByBracket
    <3>2. x - a < m
      BY <2>2, <3>1
    <3>3. j \in Outside(w, a, q - 1) => Closes(w, a, j, q - 1)
      <4>1. CASE q = a
        <5>1. Outside(w, a, q - 1) = {}
          BY <3>1, <4>1, Nothing
        <5> QED  BY <5>1
      <4>2. CASE q # a
        <5>1. Piece(w, a, x)
          BY <2>9, <3>1, <4>2 DEF MadeByBracket
        <5> QED  BY <2>4, <3>1, <3>2, <5>1
      <4> QED  BY <4>1, <4>2
    <3> QED  BY <2>2, <2>3, <2>9, <3>3, ClosesInBrackets
  <2> QED  BY <2>5, <2>6, <2>7, <2>8, <2>9 DEF MadeOf
<1>2. hi - lo \in Nat /\ lo \in Int /\ hi \in Int
  BY PieceIsWithin
<1>3. hi - lo \notin bad
  BY <1>1
<1>4. ~ Open(hi - lo)
  <2> HIDE DEF Open
  <2> QED  BY <1>2, <1>3
<1> QED  BY <1>2, <1>4

(***************************************************************************)
(* A part of a list, from where it begins.                                 *)
(***************************************************************************)
LEMMA WithinBrackets ==
  ASSUME NEW w, NEW a, NEW o, NEW c, Encloses(w, a, o, c), NEW next \in Int, o < next,
         Balanced(w, o + 1, next - 1)
  PROVE  next <= c
<1>1. PICK x \in Int, y \in Int, z \in Int, u \in Int :
        x = o + 1 /\ y = next - 1 /\ z = c + 1 /\ u = c - 1
  BY DEF Encloses
<1>2. o \in Int /\ c \in Int /\ o < c /\ w[c] \in Closers /\ Balanced(w, x, u)
  BY <1>1, MatchingBrackets DEF Encloses, Clean
<1>3. SUFFICES ASSUME c < next PROVE FALSE
  BY <1>2
<1>4. x <= c /\ c <= z /\ z \in x..(y + 1) /\ u + 1 = c
  BY <1>1, <1>2, <1>3
<1>5. Depth(w, x, z) = Depth(w, x, c) + Depth(w, c, z)
  BY <1>2, <1>4, DepthAdds
<1>6. Depth(w, x, c) = 0
  BY <1>2, <1>4 DEF Balanced
<1>7. Depth(w, c, z) = -1
  <2>1. w[c] \notin Openers
    BY <1>2 DEF Openers, Closers
  <2> QED  BY <1>1, <1>2, <2>1, DepthOne
<1>8. Depth(w, x, z) >= 0
  BY <1>1, <1>4 DEF Balanced
<1> QED  BY <1>5, <1>6, <1>7, <1>8

LEMMA PartBegins ==
  ASSUME NEW w, NEW a, NEW o, NEW c, Encloses(w, a, o, c), NEW next \in Int, o < next, next < c,
         Balanced(w, o + 1, next - 1), Begins(w, o, next, w[next]), NEW h \in Int, h = c - 1
  PROVE  next \in PartStarts(w, o, h)
<1>1. PICK x \in Int, y \in Int : x = o + 1 /\ y = next - 1
  BY DEF Encloses
<1>2. /\ o \in Int /\ c \in Int /\ Clean(w, x, h) /\ Balanced(w, x, h) /\ Balanced(w, x, y)
      /\ next # h + 1 /\ next \in x..h /\ y + 1 = next /\ x <= next
  BY <1>1 DEF Encloses, Clean
<1>3. Depth(w, x, next) = 0
  BY <1>2 DEF Balanced
<1>4. next \in Outside(w, x, h)
  BY <1>2, <1>3 DEF Outside
<1>5. CASE next = x
  BY <1>1, <1>2, <1>5, InStarts
<1>6. CASE next # x /\ w[y] = "COMMA"
  <2>1. x <= y /\ y <= h
    BY <1>1, <1>2, <1>6
  <2>2. y \in Outside(w, x, y)
    BY <1>2, <1>6, <2>1, CommaOutside
  <2>3. y \in Outside(w, x, h)
    BY <2>1, <2>2 DEF Outside
  <2> QED  BY <1>1, <1>2, <1>6, <2>3, InStarts
<1>7. CASE /\ next # x /\ w[o] = "OPEN_PAREN" /\ EndsOperand(w[y])
           /\ getPrecedence(w[next]) < 0 /\ w[next] # "COMMA"
  <2>1. w[next] \notin Closers
    BY <1>2, <1>3, NotCloser
  <2>2. OfExpressions(w[next])
    BY <1>2 DEF Clean
  <2>3. w[next] \notin Openers /\ ~ IsOperator(w[next])
    <3>1. PICK t : t = w[next]
      OBVIOUS
    <3>2. getPrecedence(t) < 0
      BY <1>7, <3>1
    <3> QED  BY <3>1, <3>2, PrecedenceIs
  <2>4. w[next] \in Literals \cup {"NOT"}
    BY <1>7, <2>1, <2>2, <2>3, Spelled
  <2>5. Adjoins(w, x, next)
    <3>1. next > x
      BY <1>2, <1>7
    <3> QED  BY <1>1, <1>7, <2>4, <3>1 DEF Adjoins
  <2> QED  BY <1>1, <1>2, <1>4, <1>7, <2>5, InStarts
<1> QED  BY <1>1, <1>5, <1>6, <1>7 DEF Begins

LEMMA RankOf ==
  ASSUME NEW S \in SUBSET Int, IsFiniteSet(S), NEW i \in S
  PROVE  Rank(S, i) \in 1..Cardinality(S) /\ Nth(S, Rank(S, i)) = i
<1>1. Nth(S, Rank(S, i)) = i
  BY NthIs
<1>2. PICK T : T = {j \in S : j <= i}
  OBVIOUS
<1>3. T \subseteq S /\ T # {} /\ i \in T
  BY <1>2
<1>4. IsFiniteSet(T) /\ Cardinality(T) <= Cardinality(S)
  BY <1>3, FS_Subset
<1>5. Cardinality(T) \in Nat /\ Cardinality(S) \in Nat
  BY <1>4, FS_CardinalityType
<1>6. Cardinality(T) # 0
  BY <1>3, <1>4, FS_EmptySet
<1>7. Rank(S, i) = Cardinality(T)
  BY <1>2 DEF Rank
<1> QED  BY <1>1, <1>4, <1>5, <1>6, <1>7

(* The part that begins at next: what follows it.                          *)
PartRuns(w, o, c, next, e) ==
  /\ e \in Int /\ Piece(w, next, e) /\ e < c
  /\ \/ e + 1 = c \/ w[e + 1] = "COMMA"
     \/ w[o] = "OPEN_PAREN" /\ w[e + 1] \in Literals \cup {"NOT"}

LEMMA PartFollows ==
  ASSUME NEW w, Len(w) \in Nat, NEW a, NEW o, NEW c, Encloses(w, a, o, c), ~ OneInside(w, a, o),
         NEW next \in Int, o < next, next < c,
         Balanced(w, o + 1, next - 1), Begins(w, o, next, w[next])
  PROVE  \E e : PartRuns(w, o, c, next, e)
<1>1. PICK h \in Int : h = c - 1
  BY DEF Encloses
<1>2. /\ o \in Nat \ {0} /\ o <= h /\ h <= Len(w) /\ Sounds(w, o, h)
      /\ c \in Int /\ o \in Int /\ h + 1 = c /\ h < c
  BY <1>1 DEF Encloses
<1>3. PICK S : S = PartStarts(w, o, h)
  OBVIOUS
<1>4. S \in SUBSET Int /\ IsFiniteSet(S) /\ Cardinality(S) \in Nat /\ Ranked(S) /\ next \in S
  BY <1>1, <1>2, <1>3, StartsAreWithin, RanksOfStarts, PartBegins
<1>5. PICK k \in 1..Cardinality(S) : Nth(S, k) = next
  BY <1>4, RankOf
<1>6. PICK m \in Int : m = h - o
  BY <1>2
<1>7. Assured(w, h - o)
  BY <1>6, AllAssured
<1>8. PICK e, last : e = PartEnd(w, S, h, k) /\ last = PartLast(S, h, k)
  OBVIOUS
<1>9. /\ last \in Int /\ e \in Int /\ next <= e /\ last <= h /\ e <= last /\ Piece(w, next, e)
      /\ next \in (o + 1)..h
  BY <1>2, <1>3, <1>5, <1>7, <1>8, PartIsClean
<1>10. e < c
  BY <1>2, <1>9
<1>11. CASE w[last] = "COMMA"
  <2>1. e = last - 1
    BY <1>8, <1>11 DEF PartEnd
  <2>2. e + 1 = last
    BY <1>9, <2>1
  <2> QED  BY <1>9, <1>10, <1>11, <2>2 DEF PartRuns
<1>12. CASE w[last] # "COMMA" /\ k = Cardinality(S)
  <2>1. e = last /\ last = h
    BY <1>8, <1>12 DEF PartEnd, PartLast
  <2>2. e + 1 = c
    BY <1>2, <2>1
  <2> QED  BY <1>9, <1>10, <2>2 DEF PartRuns
<1>13. CASE w[last] # "COMMA" /\ k # Cardinality(S)
  <2>1. k + 1 \in 1..Cardinality(S)
    BY <1>4, <1>13
  <2>2. PICK t : t = Nth(S, k + 1)
    OBVIOUS
  <2>3. t \in S /\ t \in Int
    BY <1>4, <2>1, <2>2 DEF Ranked
  <2>4. e = last /\ last = t - 1
    BY <1>8, <1>13, <2>2 DEF PartEnd, PartLast
  <2>5. t = e + 1 /\ t - 1 = e /\ t # o + 1
    BY <1>2, <1>9, <2>3, <2>4
  <2>6. w[o] = "OPEN_PAREN" /\ Adjoins(w, o + 1, t)
    BY <1>1, <1>2, <1>3, <1>13, <2>3, <2>4, <2>5, InStarts
  <2> QED  BY <1>9, <1>10, <2>5, <2>6 DEF PartRuns, Adjoins
<1> QED  BY <1>11, <1>12, <1>13

(***************************************************************************)
(* What a call of parseExpression is there to read, in tokens that have a  *)
(* meaning: a piece that holds no operator below its minimum precedence,   *)
(* and is not continued.                                                   *)
(***************************************************************************)
Mins == {0, 6, 11, 21, 31, 40}
Goal(w, a, b, min) ==
  /\ Piece(w, a, b) /\ Binds(w, a, b, min) /\ min \in Mins
  /\ b < Len(w) => getPrecedence(w[b + 1]) < min

LEMMA ExprIsPiece ==
  ASSUME NEW w, NEW a, NEW b, NEW node, Expr(w, a, b, node)
  PROVE  Piece(w, a, b)
<1>1. /\ Len(w) \in Nat /\ a \in 1..(Len(w) + 1) /\ b \in 0..Len(w) /\ Sound(w, a, b)
  BY DEF Expr, Sound
<1> QED  BY <1>1, SoundIsPiece

LEMMA Continued ==
  ASSUME NEW w, NEW a, NEW b, NEW c, Piece(w, a, b), Piece(w, a, c), b < c,
         NEW min \in Mins, Binds(w, a, c, min), NEW x \in Int, x = b + 1
  PROVE  getPrecedence(w[x]) >= min
<1>1. a \in Int /\ b \in Int /\ c \in Int /\ a <= b /\ Balanced(w, a, b) /\ EndsOperand(w[b])
  BY PieceIsWithin
<1>2. w[x] \in Openers \/ (x \in BinaryOperators(w, a, c) /\ IsOperator(w[x]))
  BY <1>1, Rests
<1>3. CASE w[x] \in Openers
  <2>1. getPrecedence(w[x]) = 40
    BY <1>3, PrecedenceIs
  <2> QED  BY <2>1 DEF Mins
<1>4. CASE x \in BinaryOperators(w, a, c)
  BY <1>4 DEF Binds
<1> QED  BY <1>2, <1>3, <1>4

(* What the call has read does not go beyond it, and stops short of it     *)
(* only where the expression goes on.                                      *)
LEMMA Reach ==
  ASSUME NEW w, NEW a, NEW b, NEW min, Goal(w, a, b, min),
         NEW c, NEW node, Expr(w, a, c, node), Binds(w, a, c, min), NEW x \in Int, x = c + 1
  PROVE  /\ c \in Int /\ b \in Int /\ c <= b
         /\ c < b => getPrecedence(w[x]) >= min
<1>1. /\ Piece(w, a, b) /\ Piece(w, a, c) /\ Binds(w, a, b, min) /\ min \in Mins
      /\ a \in Int /\ b \in Int /\ c \in Int /\ Len(w) \in Nat /\ c <= Len(w) /\ min \in Int
  BY ExprIsPiece, PieceIsWithin DEF Goal, Mins
<1>2. c <= b
  <2>1. SUFFICES ASSUME b < c PROVE FALSE
    BY <1>1
  <2>2. PICK y \in Int : y = b + 1
    BY <1>1
  <2>3. getPrecedence(w[y]) >= min
    BY <1>1, <2>1, <2>2, Continued
  <2>4. getPrecedence(w[y]) < min
    <3>1. b < Len(w)
      BY <1>1, <2>1
    <3> QED  BY <2>2, <3>1 DEF Goal
  <2>5. getPrecedence(w[y]) \in Int
    <3>1. PICK t : t = w[y]
      OBVIOUS
    <3> QED  BY <3>1, PrecedenceIs
  <2> QED  BY <1>1, <2>3, <2>4, <2>5
<1>3. c < b => getPrecedence(w[x]) >= min
  BY <1>1, Continued
<1> QED  BY <1>1, <1>2, <1>3

Trimmed(w, x, b, p, e) ==
  /\ e \in Int /\ e <= b /\ Piece(w, x, e) /\ Binds(w, x, e, p)
  /\ e < b => getPrecedence(w[e + 1]) < p

(* The beginning of a piece up to its first operator below a precedence.   *)
LEMMA Trim ==
  ASSUME NEW w, NEW x, NEW b, Piece(w, x, b), NEW p \in Int
  PROVE  \E e : Trimmed(w, x, b, p, e)
<1> DEFINE J == {j \in BinaryOperators(w, x, b) : ~ (getPrecedence(w[j]) >= p)}
<1>1. x \in Int /\ b \in Int /\ 1 <= x /\ x <= b
  BY PieceIsWithin
<1>2. CASE J = {}
  <2>1. Binds(w, x, b, p)
    BY <1>2 DEF Binds
  <2> QED  BY <1>1, <2>1 DEF Trimmed
<1>3. CASE J # {}
  <2>1. J \in SUBSET Nat
    <3>1. \A j \in BinaryOperators(w, x, b) : j \in x..b
      BY OutsideIsWithin
    <3> QED  BY <1>1, <3>1
  <2>2. PICK j \in J : \A k \in J : j <= k
    <3> HIDE DEF J
    <3> QED  BY <1>3, <2>1, Least
  <2>3. j \in BinaryOperators(w, x, b) /\ ~ (getPrecedence(w[j]) >= p)
    BY <2>2
  <2>4. j \in Int /\ x < j /\ j <= b /\ Piece(w, x, j - 1)
    BY <2>3, OperatorOutside, Cut DEF CutAt
  <2>5. PICK e \in Int : e = j - 1
    BY <2>4
  <2>6. Narrows(w, x, b, x, e)
    <3>1. x <= x /\ e <= b /\ Depth(w, x, x) = 0
      BY <1>1, <2>4, <2>5, DepthNone
    <3> QED  BY <1>1, <3>1, Narrower
  <2>7. ASSUME NEW i \in BinaryOperators(w, x, e)
        PROVE  getPrecedence(w[i]) >= p
    <3>1. i \in BinaryOperators(w, x, b)
      BY <2>6, <2>7 DEF Narrows
    <3>2. i \in x..e
      BY <2>7, OutsideIsWithin
    <3>3. ~ (j <= i)
      BY <1>1, <2>4, <2>5, <3>2
    <3> QED  BY <2>2, <3>1, <3>3
  <2>8. getPrecedence(w[j]) < p
    <3>1. PICK t : t = w[j]
      OBVIOUS
    <3>2. getPrecedence(t) \in Int
      BY PrecedenceIs
    <3> QED  BY <2>3, <3>1, <3>2
  <2>9. e <= b /\ e + 1 = j
    BY <1>1, <2>4, <2>5
  <2>10. Piece(w, x, e)
    BY <2>4, <2>5
  <2>11. Binds(w, x, e, p)
    BY <2>7 DEF Binds
  <2>12. Trimmed(w, x, b, p, e)
    BY <2>5, <2>8, <2>9, <2>10, <2>11 DEF Trimmed
  <2> QED  BY <2>12
<1> QED  BY <1>2, <1>3

LEMMA BindsAll ==
  ASSUME NEW w, NEW a, NEW b
  PROVE  /\ Binds(w, a, b, 0)
         /\ Binds(w, a, b, 40) <=> NoOperator(w, a, b)
<1>1. ASSUME NEW i \in BinaryOperators(w, a, b)
      PROVE  getPrecedence(w[i]) \in {5, 10, 20, 30}
  <2>1. PICK t : t = w[i]
    OBVIOUS
  <2>2. IsOperator(t)
    BY <2>1 DEF BinaryOperators, IsBinary
  <2> QED  BY <2>1, <2>2, PrecedenceIs
<1>2. Binds(w, a, b, 0)
  BY <1>1 DEF Binds
<1>3. Binds(w, a, b, 40) => NoOperator(w, a, b)
  <2>1. ASSUME NEW i \in BinaryOperators(w, a, b), getPrecedence(w[i]) >= 40
        PROVE  FALSE
    BY <1>1, <2>1
  <2> QED  BY <2>1 DEF Binds, NoOperator
<1>4. NoOperator(w, a, b) => Binds(w, a, b, 40)
  BY DEF Binds, NoOperator
<1> QED  BY <1>2, <1>3, <1>4

LEMMA UnaryDescends ==
  ASSUME NEW w, NEW lo, NEW b, NEW min, Goal(w, lo, b, min), w[lo] \in UnaryOperators,
         NEW next \in Int, next = lo + 1
  PROVE  \E e : Goal(w, next, e, 40)
<1>1. Piece(w, lo, b) /\ min \in Mins /\ lo \in Int /\ b \in Int /\ Len(w) \in Nat
  BY PieceIsWithin DEF Goal
<1>2. PICK p \in Int : p = 40
  OBVIOUS
<1>3. PICK e : Trimmed(w, lo, b, p, e)
  BY <1>1, Trim
<1>4. /\ e \in Int /\ e <= b /\ Piece(w, lo, e) /\ NoOperator(w, lo, e) /\ lo <= e
      /\ e < b => getPrecedence(w[e + 1]) < 40
  BY <1>2, <1>3, BindsAll, PieceIsWithin DEF Trimmed
<1>5. MadeOf(w, lo, e)
  BY <1>4, PieceIsMade
<1>6. ~ \E i \in lo..e : MadeByOperator(w, lo, i, e)
  <2>1. SUFFICES ASSUME NEW i \in lo..e, MadeByOperator(w, lo, i, e) PROVE FALSE
    OBVIOUS
  <2>2. Joins(w, lo, i, e)
    BY <2>1, PiecesJoin DEF MadeByOperator
  <2> QED  BY <1>4, <2>2 DEF Joins, NoOperator
<1>7. MadeByUnary(w, lo, e)
  BY <1>5, <1>6, LiteralIsPlain DEF MadeOf, MadeByLiteral, MadeByBracket
<1>8. Piece(w, next, e)
  BY <1>7 DEF MadeByUnary
<1>9. Binds(w, next, e, 40)
  <2>1. Depth(w, lo, lo) = 0 /\ w[lo] \notin Openers \cup Closers /\ lo <= lo
    BY <1>1, DepthNone, UnaryIsPlain
  <2>2. Depth(w, lo, next) = 0
    BY <1>1, <2>1, PlainKeepsDepth
  <2>3. lo <= next /\ e <= e
    BY <1>1, <1>4
  <2>4. Narrows(w, lo, e, next, e)
    BY <1>1, <1>4, <2>2, <2>3, Narrower
  <2>5. NoOperator(w, next, e)
    BY <1>4, <2>4 DEF Narrows, NoOperator
  <2> QED  BY <2>5, BindsAll
<1>10. e < Len(w) => getPrecedence(w[e + 1]) < 40
  <2>1. CASE e < b
    BY <1>4, <2>1
  <2>2. CASE e = b
    <3>1. PICK t : t = w[e + 1]
      OBVIOUS
    <3>2. e < Len(w) => getPrecedence(t) < min
      BY <2>2, <3>1 DEF Goal
    <3>3. min <= 40 /\ min \in Int /\ getPrecedence(t) \in Int
      BY <1>1, PrecedenceIs DEF Mins
    <3> QED  BY <3>1, <3>2, <3>3
  <2> QED  BY <1>1, <1>4, <2>1, <2>2
<1> QED  BY <1>8, <1>9, <1>10 DEF Goal, Mins

(* What comes after a part that has been read is still in the piece.       *)
LEMMA GoesOn ==
  ASSUME NEW w, NEW lo, NEW b, NEW min, Goal(w, lo, b, min), NEW o \in Int, NEW node,
         Expr(w, lo, o - 1, node), Binds(w, lo, o - 1, min), o <= Len(w),
         getPrecedence(w[o]) >= min
  PROVE  /\ lo \in Int /\ b \in Int /\ lo < o /\ o <= b /\ o \in Outside(w, lo, b)
         /\ Depth(w, lo, o) = 0 /\ EndsOperand(w[o - 1])
<1>1. PICK c \in Int : c = o - 1
  OBVIOUS
<1>2. Expr(w, lo, c, node) /\ Binds(w, lo, c, min) /\ o = c + 1
  BY <1>1
<1>3. c <= b /\ b \in Int
  BY <1>2, Reach
<1>4. c # b
  <2>1. SUFFICES ASSUME c = b PROVE FALSE
    OBVIOUS
  <2>2. b < Len(w) /\ b + 1 = o /\ min \in Int
    <3>1. Len(w) \in Nat /\ min \in Int
      BY PieceIsWithin DEF Goal, Mins
    <3> QED  BY <1>2, <2>1, <3>1
  <2>3. PICK t : t = w[o]
    OBVIOUS
  <2>4. getPrecedence(t) < min /\ getPrecedence(t) >= min
    BY <2>2, <2>3 DEF Goal
  <2>5. getPrecedence(t) \in Int
    BY PrecedenceIs
  <2> QED  BY <2>2, <2>4, <2>5
<1>5. lo \in Int /\ lo <= c /\ Balanced(w, lo, c) /\ EndsOperand(w[c])
  BY <1>2 DEF Expr
<1>6. Depth(w, lo, o) = 0
  BY <1>2, <1>5 DEF Balanced
<1>7. lo < o /\ o <= b /\ o \in lo..b
  BY <1>2, <1>3, <1>4, <1>5
<1> QED  BY <1>1, <1>3, <1>5, <1>6, <1>7 DEF Outside

LEMMA BinaryDescends ==
  ASSUME NEW w, NEW lo, NEW b, NEW min, Goal(w, lo, b, min), NEW op \in Int, NEW node,
         Expr(w, lo, op - 1, node), IsOperator(w[op]), NEW p, p = getPrecedence(w[op]),
         Binds(w, lo, op - 1, p), p >= min, op <= Len(w),
         NEW next \in Int, next = op + 1
  PROVE  \E e : Goal(w, next, e, p + 1)
<1>1. Piece(w, lo, b) /\ min \in Mins /\ min \in Int
  BY DEF Goal, Mins
<1>2. p \in {5, 10, 20, 30} /\ p + 1 \in Mins
  <2>1. PICK t : t = w[op]
    OBVIOUS
  <2>2. p \in {5, 10, 20, 30}
    BY <2>1, PrecedenceIs
  <2> QED  BY <2>2 DEF Mins
<1>3. Binds(w, lo, op - 1, min)
  <2>1. ASSUME NEW i \in BinaryOperators(w, lo, op - 1)
        PROVE  getPrecedence(w[i]) >= min
    <3>1. PICK t : t = w[i]
      OBVIOUS
    <3>2. getPrecedence(t) >= p
      BY <3>1 DEF Binds
    <3>3. getPrecedence(t) \in Int
      BY PrecedenceIs
    <3> QED  BY <1>1, <1>2, <3>1, <3>2, <3>3
  <2> QED  BY <2>1 DEF Binds
<1>4. /\ lo \in Int /\ b \in Int /\ lo < op /\ op <= b /\ op \in Outside(w, lo, b)
      /\ EndsOperand(w[op - 1])
  BY <1>3, GoesOn
<1>5. op \in BinaryOperators(w, lo, b)
  BY <1>4 DEF BinaryOperators, IsBinary
<1>6. Piece(w, next, b)
  BY <1>1, <1>5, Cut DEF CutAt
<1>7. PICK q \in Int : q = p + 1
  BY <1>2
<1>8. PICK e : Trimmed(w, next, b, q, e)
  BY <1>6, Trim
<1>9. /\ e \in Int /\ e <= b /\ Piece(w, next, e) /\ Binds(w, next, e, q)
      /\ e < b => getPrecedence(w[e + 1]) < q
  BY <1>8 DEF Trimmed
<1>10. e < Len(w) => getPrecedence(w[e + 1]) < q
  <2>1. CASE e < b
    BY <1>9, <2>1
  <2>2. CASE e = b
    <3>1. PICK t : t = w[e + 1]
      OBVIOUS
    <3>2. e < Len(w) => getPrecedence(t) < min
      BY <2>2, <3>1 DEF Goal
    <3>3. getPrecedence(t) \in Int
      BY PrecedenceIs
    <3> QED  BY <1>1, <1>2, <1>7, <3>1, <3>2, <3>3
  <2> QED  BY <1>4, <1>9, <2>1, <2>2
<1> QED  BY <1>2, <1>7, <1>9, <1>10 DEF Goal

(* The part that is read inside brackets, and what follows it.             *)
Followed(w, site, e) ==
  /\ site = "group" => e < Len(w) /\ w[e + 1] = "CLOSE_PAREN"
  /\ site = "index" => e < Len(w) /\ w[e + 1] = "CLOSE_BRACKET"
  /\ site = "array" => e < Len(w) /\ w[e + 1] \in {"COMMA", "CLOSE_BRACKET"}

LEMMA UnprecededTypes ==
  ASSUME NEW t \in {"COMMA", "CLOSE_PAREN", "CLOSE_BRACKET", "NOT"} \cup Literals
  PROVE  getPrecedence(t) < 0
  BY DEF getPrecedence, Literals

LEMMA OneDescends ==
  ASSUME NEW w, NEW a, NEW o, NEW c, Encloses(w, a, o, c), OneInside(w, a, o),
         NEW next \in Int, next = o + 1
  PROVE  \E e : Goal(w, next, e, 0) /\ e < Len(w) /\ w[e + 1] = w[c]
<1>1. PICK e \in Int : e = c - 1
  BY DEF Encloses
<1>2. Piece(w, next, e) /\ c \in Int /\ c <= Len(w) /\ w[c] \in Closers
  BY <1>1, MatchingBrackets DEF Encloses
<1>3. e + 1 = c /\ e < Len(w)
  <2>1. Len(w) \in Nat
    BY <1>2, PieceIsWithin
  <2> QED  BY <1>1, <1>2, <2>1
<1>4. getPrecedence(w[c]) < 0
  <2>1. PICK t : t = w[c]
    OBVIOUS
  <2>2. t \in {"COMMA", "CLOSE_PAREN", "CLOSE_BRACKET", "NOT"} \cup Literals
    BY <1>2, <2>1 DEF Closers
  <2> QED  BY <2>1, <2>2, UnprecededTypes
<1>5. Goal(w, next, e, 0)
  BY <1>2, <1>3, <1>4, BindsAll DEF Goal, Mins
<1> QED  BY <1>3, <1>5

(* In a list of parts: its closing bracket or another part.                *)
ListAt(w, o, next) ==
  /\ next <= Len(w)
  /\ \/ Matches(w[o], w[next])
     \/ \E e \in Int :
          /\ Piece(w, next, e) /\ e < Len(w)
          /\ \/ Matches(w[o], w[e + 1]) \/ w[e + 1] = "COMMA"
             \/ w[o] = "OPEN_PAREN" /\ w[e + 1] \in Literals \cup {"NOT"}

LEMMA ListGoes ==
  ASSUME NEW w, Len(w) \in Nat, NEW a, NEW o, NEW b, Closes(w, a, o, b), ~ OneInside(w, a, o),
         NEW next \in Int, o < next, Balanced(w, o + 1, next - 1),
         next <= Len(w) => Begins(w, o, next, w[next])
  PROVE  ListAt(w, o, next)
<1>1. PICK c \in Int : c <= b /\ Encloses(w, a, o, c)
  BY DEF Closes
<1>2. next <= c /\ c <= Len(w) /\ Matches(w[o], w[c])
  BY <1>1, WithinBrackets DEF Encloses
<1>3. next <= Len(w)
  BY <1>1, <1>2
<1>4. CASE next = c
  BY <1>2, <1>3, <1>4 DEF ListAt
<1>5. CASE next < c
  <2>1. PICK e : PartRuns(w, o, c, next, e)
    BY <1>1, <1>3, <1>5, PartFollows
  <2>2. e \in Int /\ Piece(w, next, e) /\ e < Len(w)
    BY <1>1, <1>2, <2>1 DEF PartRuns
  <2> QED  BY <1>2, <1>3, <2>1, <2>2 DEF PartRuns, ListAt
<1> QED  BY <1>1, <1>2, <1>4, <1>5

LEMMA ListDescends ==
  ASSUME NEW w, NEW o, NEW next \in Int, ListAt(w, o, next), ~ Matches(w[o], w[next])
  PROVE  \E e : /\ Goal(w, next, e, 0) /\ e < Len(w)
                /\ w[o] = "OPEN_BRACKET" => w[e + 1] \in {"COMMA", "CLOSE_BRACKET"}
<1>1. PICK e \in Int :
        /\ Piece(w, next, e) /\ e < Len(w)
        /\ \/ Matches(w[o], w[e + 1]) \/ w[e + 1] = "COMMA"
           \/ w[o] = "OPEN_PAREN" /\ w[e + 1] \in Literals \cup {"NOT"}
  BY DEF ListAt
<1>2. PICK t : t = w[e + 1]
  OBVIOUS
<1>3. t \in {"COMMA", "CLOSE_PAREN", "CLOSE_BRACKET", "NOT"} \cup Literals
  BY <1>1, <1>2, MatchingBrackets DEF Closers
<1>4. Goal(w, next, e, 0)
  BY <1>1, <1>2, <1>3, UnprecededTypes, BindsAll DEF Goal, Mins
<1>5. w[o] = "OPEN_BRACKET" => t \in {"COMMA", "CLOSE_BRACKET"}
  BY <1>1, <1>2, MatchingBrackets
<1> QED  BY <1>1, <1>2, <1>4, <1>5

LEMMA FirstOpens ==
  ASSUME NEW w, NEW lo, NEW b, NEW min, Goal(w, lo, b, min), w[lo] \in Openers
  PROVE  Closes(w, lo, lo, b) /\ (OneInside(w, lo, lo) <=> w[lo] = "OPEN_PAREN")
<1>1. Piece(w, lo, b) /\ lo \in Int /\ b \in Int /\ lo <= b
  BY PieceIsWithin DEF Goal
<1>2. lo \in Outside(w, lo, b)
  BY <1>1, DepthNone DEF Outside
<1>3. ~ (lo > lo)
  BY <1>1
<1> QED  BY <1>1, <1>2, <1>3, BracketsClose DEF OneInside

LEMMA PostfixOpens ==
  ASSUME NEW w, NEW lo, NEW b, NEW min, Goal(w, lo, b, min), NEW o \in Int, NEW node,
         Expr(w, lo, o - 1, node), Primary(w, lo, o - 1), o <= Len(w), w[o] \in Openers
  PROVE  Closes(w, lo, o, b) /\ (OneInside(w, lo, o) <=> w[o] # "OPEN_PAREN")
<1>1. Piece(w, lo, b) /\ min \in Mins
  BY DEF Goal
<1>2. Binds(w, lo, o - 1, min)
  BY DEF Primary, Binds
<1>3. getPrecedence(w[o]) >= min
  <2>1. getPrecedence(w[o]) = 40
    BY PrecedenceIs
  <2> QED  BY <1>1, <2>1 DEF Mins
<1>4. lo < o /\ o \in Outside(w, lo, b) /\ EndsOperand(w[o - 1]) /\ lo \in Int
  BY <1>2, <1>3, GoesOn
<1>5. o > lo
  BY <1>4
<1> QED  BY <1>1, <1>4, <1>5, BracketsClose DEF OneInside

(* Every call that waits has called for a part of what it is there to read. *)
LEMMA WaitsDescend ==
  ASSUME NEW w, NEW f, NEW g, NEW next, NEW min, Waits(w, f, g, next, min),
         NEW b, Goal(w, g.from, b, f.min), f.op <= Len(w)
  PROVE  \E e : Goal(w, next, e, min) /\ Followed(w, f.at, e)
<1>1. g.from \in Nat \ {0} /\ g.open \in Int /\ next \in Int /\ Len(w) \in Nat
  BY PieceIsWithin DEF Waits, Goal
<1>2. PICK a, o : a = g.from /\ o = g.open
  OBVIOUS
<1>3. a \in Int /\ o \in Int /\ Goal(w, a, b, f.min)
  BY <1>1, <1>2
<1>4. CASE f.at = "unary"
  <2>1. w[a] \in UnaryOperators /\ next = a + 1 /\ min = 40
    BY <1>2, <1>4 DEF Waits
  <2>2. PICK e : Goal(w, next, e, 40)
    BY <1>1, <1>3, <2>1, UnaryDescends
  <2> QED  BY <1>4, <2>1, <2>2 DEF Followed
<1>5. CASE f.at = "binary"
  <2>1. PICK op, p : op = f.op /\ p = getPrecedence(w[op])
    OBVIOUS
  <2>2. /\ op \in Int /\ Expr(w, a, op - 1, f.left) /\ IsOperator(w[op]) /\ Binds(w, a, op - 1, p)
        /\ p >= f.min /\ next = op + 1 /\ min = p + 1 /\ op <= Len(w)
    BY <1>2, <1>5, <2>1 DEF Waits
  <2>3. PICK e : Goal(w, next, e, p + 1)
    BY <1>1, <1>3, <2>1, <2>2, BinaryDescends
  <2> QED  BY <1>5, <2>2, <2>3 DEF Followed
<1>6. CASE f.at = "group"
  <2>1. w[a] = "OPEN_PAREN" /\ next = a + 1 /\ min = 0
    BY <1>2, <1>6 DEF Waits
  <2>2. w[a] \in Openers
    BY <2>1 DEF Openers
  <2>3. Closes(w, a, a, b) /\ OneInside(w, a, a)
    BY <1>3, <2>1, <2>2, FirstOpens
  <2>4. PICK c : Encloses(w, a, a, c)
    BY <2>3 DEF Closes
  <2>5. PICK e : Goal(w, next, e, 0) /\ e < Len(w) /\ w[e + 1] = w[c]
    BY <1>1, <2>1, <2>3, <2>4, OneDescends
  <2>6. w[c] = "CLOSE_PAREN"
    BY <2>1, <2>4, MatchingBrackets DEF Encloses
  <2> QED  BY <1>6, <2>1, <2>5, <2>6 DEF Followed
<1>7. CASE f.at = "index"
  <2>1. /\ Expr(w, a, o - 1, f.left) /\ Primary(w, a, o - 1) /\ w[o] = "OPEN_BRACKET"
        /\ o <= Len(w) /\ next = o + 1 /\ min = 0
    BY <1>2, <1>7 DEF Waits, Postfixes
  <2>2. w[o] \in Openers
    BY <2>1 DEF Openers
  <2>3. Closes(w, a, o, b) /\ OneInside(w, a, o)
    BY <1>3, <2>1, <2>2, PostfixOpens
  <2>4. PICK c : Encloses(w, a, o, c)
    BY <2>3 DEF Closes
  <2>5. PICK e : Goal(w, next, e, 0) /\ e < Len(w) /\ w[e + 1] = w[c]
    BY <1>1, <2>1, <2>3, <2>4, OneDescends
  <2>6. w[c] = "CLOSE_BRACKET"
    BY <2>1, <2>4, MatchingBrackets DEF Encloses
  <2> QED  BY <1>7, <2>1, <2>5, <2>6 DEF Followed
<1>8. CASE f.at = "call"
  <2>1. /\ Expr(w, a, o - 1, f.left) /\ Primary(w, a, o - 1) /\ w[o] = "OPEN_PAREN" /\ min = 0
        /\ Listed(w, o, next - 1, f.parts) /\ Goes(w, o, next, NoArgument)
    BY <1>2, <1>8 DEF Waits, Postfixes
  <2>2. /\ Balanced(w, o + 1, next - 1) /\ o < next /\ o <= Len(w)
        /\ next <= Len(w) => Begins(w, o, next, w[next])
    BY <1>1, <1>3, <2>1 DEF Listed, Goes
  <2>3. w[o] \in Openers
    BY <2>1 DEF Openers
  <2>4. Closes(w, a, o, b) /\ ~ OneInside(w, a, o)
    BY <1>3, <2>1, <2>2, <2>3, PostfixOpens
  <2>5. ListAt(w, o, next)
    BY <1>1, <2>2, <2>4, ListGoes
  <2>6. ~ Matches(w[o], w[next])
    <3>1. w[next] # "CLOSE_PAREN"
      BY <2>1, <2>5 DEF Goes, NoArgument, ListAt
    <3> QED  BY <2>1, <3>1, MatchingBrackets
  <2>7. PICK e : Goal(w, next, e, 0)
    BY <1>1, <2>5, <2>6, ListDescends
  <2> QED  BY <1>8, <2>1, <2>7 DEF Followed
<1>9. CASE f.at = "array"
  <2>1. /\ o = a /\ w[o] = "OPEN_BRACKET" /\ min = 0
        /\ Listed(w, o, next - 1, f.parts) /\ Goes(w, o, next, NoElement)
    BY <1>2, <1>9 DEF Waits
  <2>2. /\ Balanced(w, o + 1, next - 1) /\ o < next /\ o <= Len(w)
        /\ next <= Len(w) => Begins(w, o, next, w[next])
    BY <1>1, <1>3, <2>1 DEF Listed, Goes
  <2>3. w[o] \in Openers
    BY <2>1 DEF Openers
  <2>4. Closes(w, o, o, b) /\ ~ OneInside(w, o, o)
    BY <1>3, <2>1, <2>3, FirstOpens
  <2>5. ListAt(w, o, next)
    BY <1>1, <2>2, <2>4, ListGoes
  <2>6. ~ Matches(w[o], w[next])
    <3>1. w[next] # "CLOSE_BRACKET"
      BY <2>1, <2>5 DEF Goes, NoElement, ListAt
    <3> QED  BY <2>1, <3>1, MatchingBrackets
  <2>7. PICK e : /\ Goal(w, next, e, 0) /\ e < Len(w)
                 /\ w[o] = "OPEN_BRACKET" => w[e + 1] \in {"COMMA", "CLOSE_BRACKET"}
    BY <1>1, <2>5, <2>6, ListDescends
  <2> QED  BY <1>9, <2>1, <2>7 DEF Followed
<1> QED  BY <1>4, <1>5, <1>6, <1>7, <1>8, <1>9 DEF Waits

Aimed(w, fs, plan, k) ==
  \E e : /\ Goal(w, plan[k].from, e, fs[k].min)
         /\ k > 1 => Followed(w, fs[k - 1].at, e)

LEMMA AllAimed ==
  ASSUME NEW w, Len(w) \in Nat, Sound(w, 1, Len(w)), NEW n \in Nat, n <= Len(w), NEW type,
         NEW fs, Stacked(fs, n), Len(fs) > 0, NEW plan, Fits(w, n, type, fs, plan)
  PROVE  \A k \in 1..Len(fs) : Aimed(w, fs, plan, k)
<1>1. Len(fs) \in Nat /\ plan[1].from = 1 /\ fs[1].min = 0
  BY DEF Stacked, Stack, Fits
<1>2. Aimed(w, fs, plan, 1)
  <2>1. PICK i, m : i = 1 /\ m = Len(w)
    OBVIOUS
  <2>2. i \in 1..(Len(w) + 1) /\ m \in 0..Len(w) /\ Sound(w, i, m)
    BY <2>1
  <2>3. Piece(w, i, m)
    BY <2>2, SoundIsPiece
  <2>4. Goal(w, i, m, 0)
    BY <2>1, <2>3, BindsAll DEF Goal, Mins
  <2> QED  BY <1>1, <2>1, <2>4 DEF Aimed
<1>3. ASSUME NEW k \in 1..(Len(fs) - 1), Aimed(w, fs, plan, k)
      PROVE  Aimed(w, fs, plan, k + 1)
  <2>1. PICK f, g, next, min : f = fs[k] /\ g = plan[k] /\ next = plan[k + 1].from /\ min = fs[k + 1].min
    OBVIOUS
  <2>2. Waits(w, f, g, next, min)
    BY <2>1 DEF Fits
  <2>3. PICK b : Goal(w, g.from, b, f.min)
    BY <1>3, <2>1 DEF Aimed
  <2>4. f.op <= Len(w)
    <3>1. k \in 1..Len(fs)
      BY <1>1
    <3>2. f.op \in 0..n
      BY <2>1, <3>1 DEF Stacked, WellMade
    <3> QED  BY <3>2
  <2>5. PICK e : Goal(w, next, e, min) /\ Followed(w, f.at, e)
    BY <2>2, <2>3, <2>4, WaitsDescend
  <2>6. k + 1 - 1 = k
    OBVIOUS
  <2> QED  BY <2>1, <2>5, <2>6 DEF Aimed
<1> DEFINE lost == {k \in 1..Len(fs) : ~ Aimed(w, fs, plan, k)}
<1>4. lost = {}
  <2>1. SUFFICES ASSUME lost # {} PROVE FALSE
    OBVIOUS
  <2>2. PICK m \in lost : \A k \in lost : m <= k
    <3>1. lost \in SUBSET Nat
      OBVIOUS
    <3> HIDE DEF lost
    <3> QED  BY <2>1, <3>1, Least
  <2>3. m \in 1..Len(fs) /\ m # 1
    BY <1>2
  <2>4. PICK k \in Int : k = m - 1
    BY <2>3
  <2>5. k \in 1..(Len(fs) - 1) /\ k + 1 = m /\ k \in 1..Len(fs) /\ ~ (m <= k)
    BY <1>1, <2>3, <2>4
  <2>6. Aimed(w, fs, plan, k)
    BY <2>2, <2>5
  <2>7. Aimed(w, fs, plan, k + 1)
    BY <1>3, <2>5, <2>6
  <2> QED  BY <2>2, <2>5, <2>7
<1> QED  BY <1>4

(***************************************************************************)
(* Where the parser throws, no tokens that have a meaning go on.           *)
(***************************************************************************)
LEMMA EndsThere ==
  ASSUME NEW w, NEW n \in Nat, NEW type, n < Len(w) => w[n + 1] = type,
         NEW f, NEW g, Works(w, n, type, f, g), f.at = "loop", Stops(type, f.min),
         NEW b, Goal(w, g.from, b, f.min)
  PROVE  n = b
<1>1. PICK a \in Int, x \in Int : a = g.from /\ x = n + 1
  BY PieceIsWithin DEF Goal
<1>2. Expr(w, a, n, f.left) /\ Binds(w, a, n, f.min) /\ Goal(w, a, b, f.min)
  BY <1>1 DEF Works
<1>3. n <= b /\ b \in Int /\ (n < b => getPrecedence(w[x]) >= f.min)
  BY <1>1, <1>2, Reach
<1>4. ~ (n < b)
  <2>1. SUFFICES ASSUME n < b PROVE FALSE
    OBVIOUS
  <2>2. b <= Len(w) /\ Len(w) \in Nat /\ f.min \in {0, 6, 11, 21, 31, 40}
    BY PieceIsWithin DEF Goal, Mins
  <2>3. w[x] = type
    BY <1>1, <1>3, <2>1, <2>2
  <2>4. getPrecedence(type) < f.min /\ getPrecedence(type) \in {-1, 5, 10, 20, 30, 40}
    BY <2>2, StopsAt
  <2>5. getPrecedence(type) >= f.min
    BY <1>3, <2>1, <2>3
  <2> QED  BY <2>2, <2>4, <2>5
<1> QED  BY <1>3, <1>4

LEMMA PartMissing ==
  ASSUME NEW w, NEW n \in Nat, n <= Len(w), NEW type, n < Len(w) => w[n + 1] = type,
         NEW f, NEW g, Works(w, n, type, f, g), NEW b, Goal(w, g.from, b, f.min)
  PROVE  /\ f.at = "call" => type \in BeginsOperand \cup {"CLOSE_PAREN"}
         /\ f.at = "array" => type \in BeginsOperand \cup {"CLOSE_BRACKET"}
<1>1. PICK a \in Int, o \in Int, next \in Int : a = g.from /\ o = g.open /\ next = n + 1
  BY PieceIsWithin DEF Goal, Works
<1>2. /\ Goal(w, a, b, f.min) /\ Len(w) \in Nat /\ n = next - 1
      /\ next <= Len(w) => w[next] = type
  BY <1>1, PieceIsWithin DEF Goal
<1>3. ASSUME Listed(w, o, n, f.parts), Begins(w, o, next, type), Closes(w, a, o, b),
             ~ OneInside(w, a, o)
      PROVE  Matches(w[o], type) \/ type \in BeginsOperand
  <2>1. Balanced(w, o + 1, next - 1) /\ o < next
    BY <1>2, <1>3 DEF Listed
  <2>2. next <= Len(w) => Begins(w, o, next, w[next])
    BY <1>2, <1>3
  <2>3. ListAt(w, o, next)
    BY <1>2, <1>3, <2>1, <2>2, ListGoes
  <2>4. w[next] = type
    BY <1>2, <2>3 DEF ListAt
  <2> QED  BY <2>3, <2>4, PieceIsWithin DEF ListAt
<1>4. CASE f.at = "call"
  <2>1. /\ Expr(w, a, o - 1, f.left) /\ Primary(w, a, o - 1) /\ w[o] = "OPEN_PAREN"
        /\ Listed(w, o, n, f.parts) /\ Begins(w, o, next, type) /\ o \in Int
    BY <1>1, <1>4 DEF Works, Postfixes
  <2>2. w[o] \in Openers /\ o <= Len(w)
    BY <2>1 DEF Openers, Listed
  <2>3. Closes(w, a, o, b) /\ ~ OneInside(w, a, o)
    BY <1>2, <2>1, <2>2, PostfixOpens
  <2>4. Matches(w[o], type) \/ type \in BeginsOperand
    BY <1>3, <2>1, <2>3
  <2> QED  BY <1>4, <2>1, <2>4, MatchingBrackets
<1>5. CASE f.at = "array"
  <2>1. /\ o = a /\ w[o] = "OPEN_BRACKET" /\ Listed(w, o, n, f.parts)
        /\ Begins(w, o, next, type) \/ type = "CLOSE_BRACKET"
    BY <1>1, <1>5 DEF Works
  <2>2. w[o] \in Openers
    BY <2>1 DEF Openers
  <2>3. Closes(w, a, o, b) /\ ~ OneInside(w, a, o)
    BY <1>2, <2>1, <2>2, FirstOpens
  <2>4. Matches(w[o], type) \/ type \in BeginsOperand \/ type = "CLOSE_BRACKET"
    BY <1>3, <2>1, <2>3
  <2> QED  BY <1>5, <2>1, <2>4, MatchingBrackets
<1> QED  BY <1>4, <1>5

(* The conditions of Throw, of the innermost call and the one below it.    *)
Refuses(fs, type) ==
  LET top == fs[Len(fs)]
      caller == fs[Len(fs) - 1]
      returns == top.at = "loop" /\ Stops(type, top.min) /\ Len(fs) > 1
  IN  \/ top.at = "operand" /\ type \notin BeginsOperand
      \/ returns /\ caller.at = "group" /\ type # "CLOSE_PAREN"
      \/ returns /\ caller.at = "index" /\ type # "CLOSE_BRACKET"
      \/ returns /\ caller.at = "array" /\ type \notin {"COMMA", "CLOSE_BRACKET"}
      \/ top.at = "call" /\ type \in NoArgument \ {"CLOSE_PAREN"}
      \/ top.at = "array" /\ type = "END_OF_FILE"

LEMMA MeaningfulIsRead ==
  ASSUME NEW w, Len(w) \in Nat, Sound(w, 1, Len(w)), NEW n \in Nat, n <= Len(w), NEW type,
         n < Len(w) => w[n + 1] = type,
         NEW fs, Stacked(fs, n), Len(fs) > 0, NEW plan, Fits(w, n, type, fs, plan)
  PROVE  ~ Refuses(fs, type)
<1>1. Len(fs) \in 1..Len(fs)
  BY DEF Stacked, Stack
<1>2. Aimed(w, fs, plan, Len(fs))
  BY <1>1, AllAimed
<1>3. PICK f, g, c : f = fs[Len(fs)] /\ g = plan[Len(fs)] /\ c = fs[Len(fs) - 1]
  OBVIOUS
<1>4. PICK b : Goal(w, g.from, b, f.min) /\ (Len(fs) > 1 => Followed(w, c.at, b))
  BY <1>2, <1>3 DEF Aimed
<1>5. Works(w, n, type, f, g)
  BY <1>3 DEF Fits
<1>6. ~ (f.at = "operand" /\ type \notin BeginsOperand)
  <2>1. SUFFICES ASSUME f.at = "operand" PROVE type \in BeginsOperand
    OBVIOUS
  <2>2. g.from = n + 1
    BY <1>5, <2>1 DEF Works
  <2>3. Piece(w, n + 1, b)
    BY <1>4, <2>2 DEF Goal
  <2>4. w[n + 1] \in BeginsOperand /\ n < Len(w)
    BY <2>3, PieceIsWithin
  <2> QED  BY <2>4
<1>7. ASSUME f.at = "loop", Stops(type, f.min), Len(fs) > 1
      PROVE  /\ c.at = "group" => type = "CLOSE_PAREN"
             /\ c.at = "index" => type = "CLOSE_BRACKET"
             /\ c.at = "array" => type \in {"COMMA", "CLOSE_BRACKET"}
  <2>1. n = b
    BY <1>4, <1>5, <1>7, EndsThere
  <2>2. Followed(w, c.at, b)
    BY <1>4, <1>7
  <2> QED  BY <2>1, <2>2 DEF Followed
<1>8. ~ (f.at = "call" /\ type \in NoArgument \ {"CLOSE_PAREN"})
  <2>1. f.at = "call" => type \in BeginsOperand \cup {"CLOSE_PAREN"}
    BY <1>4, <1>5, PartMissing
  <2> QED  BY <2>1 DEF NoArgument, BeginsOperand, UnaryOperators, Literals
<1>9. ~ (f.at = "array" /\ type = "END_OF_FILE")
  <2>1. f.at = "array" => type \in BeginsOperand \cup {"CLOSE_BRACKET"}
    BY <1>4, <1>5, PartMissing
  <2> QED  BY <2>1 DEF BeginsOperand, UnaryOperators, Literals
<1> QED  BY <1>3, <1>6, <1>7, <1>8, <1>9 DEF Refuses

LEMMA ThrowRefuses ==
  ASSUME Typed, Throw
  PROVE  outcome = "parsing" /\ Refuses(frames, current)
<1>1. outcome = "parsing"
  BY DEF Throw, At, ReturnsIn, Returns
<1>2. PICK f, c : f = Top /\ c = Caller
  OBVIOUS
<1>3. frames[Len(frames)] = f /\ frames[Len(frames) - 1] = c
  BY <1>2 DEF Top, Caller
<1>4. ReturnsIn(c.at) => f.at = "loop" /\ Stops(current, f.min) /\ Len(frames) > 1
  BY <1>1, <1>2, ReturnsStop DEF ReturnsIn, Returns, At
<1> QED  BY <1>1, <1>2, <1>3, <1>4 DEF Throw, Refuses, At, ReturnsIn

LEMMA RefusedIsMalformed ==
  ASSUME Typed, Planning, outcome = "parsing", Refuses(frames, current),
         NEW w, Len(w) \in Nat, Len(tokens) <= Len(w), \A k \in 1..Len(tokens) : w[k] = tokens[k],
         Len(tokens) < Len(w) => w[Len(tokens) + 1] = current
  PROVE  Meaning(w, 1, Len(w)) = Malformed
<1>1. SUFFICES ASSUME Sound(w, 1, Len(w)) PROVE FALSE
  BY DEF Sound
<1>2. Extends(w, tokens, current, Top.at)
  BY DEF Extends
<1>3. PICK plan : Fits(w, Len(tokens), current, frames, plan)
  BY <1>2 DEF Planning, Planned
<1>4. Len(tokens) \in Nat /\ Stacked(frames, Len(tokens)) /\ Len(frames) > 0
  BY TopIs
<1> QED  BY <1>1, <1>3, <1>4, MeaningfulIsRead

LEMMA ClosingIs ==
  ASSUME NEW w, Len(w) \in Nat, DOMAIN w = 1..Len(w)
  PROVE  \E X : Closing(w) \in Seq(X)
<1> DEFINE open == {k \in DOMAIN w : /\ w[k] \in Openers
                                     /\ \A m \in k..Len(w) : Depth(w, k, m + 1) > 0}
           n == Cardinality(open)
           X == {CHOOSE c \in Closers : Matches(w[Nth(open, n - k + 1)], c) : k \in 1..n}
<1>1. Closing(w) = [k \in 1..n |-> CHOOSE c \in Closers : Matches(w[Nth(open, n - k + 1)], c)]
  BY DEF Closing
<1>2. n \in Nat
  <2>1. open \in SUBSET (1..Len(w))
    OBVIOUS
  <2> HIDE DEF open
  <2>2. IsFiniteSet(1..Len(w))
    BY FS_Interval
  <2> QED  BY <2>1, <2>2, FS_Subset, FS_CardinalityType
<1>3. \A k \in 1..n : Closing(w)[k] \in X
  BY <1>1
<1>4. Closing(w) = [k \in 1..n |-> Closing(w)[k]]
  BY <1>1
<1> HIDE DEF open, n, X
<1>5. Closing(w) \in Seq(X)
  BY <1>2, <1>3, <1>4, Made
<1> QED  BY <1>5

LEMMA WholeIs ==
  ASSUME NEW X, NEW s \in Seq(X), NEW t \in X, NEW v, v = Append(s, t), NEW x \in Seq(X),
         NEW w, w = v \o x \o Closing(v)
  PROVE  /\ Len(w) \in Nat /\ Len(s) < Len(w) /\ w[Len(s) + 1] = t
         /\ \A k \in 1..Len(s) : w[k] = s[k]
<1>1. /\ v \in Seq(X) /\ Len(v) = Len(s) + 1 /\ v[Len(s) + 1] = t /\ Len(s) \in Nat
      /\ \A k \in 1..Len(s) : v[k] = s[k]
  OBVIOUS
<1>2. Len(v) \in Nat /\ DOMAIN v = 1..Len(v)
  BY <1>1, Elements
<1>3. PICK Y : Closing(v) \in Seq(Y)
  BY <1>2, ClosingIs
<1>4. PICK c : c = Closing(v)
  OBVIOUS
<1>5. PICK Z : Z = X \cup Y
  OBVIOUS
<1>6. v \in Seq(Z) /\ x \in Seq(Z) /\ c \in Seq(Z)
  BY <1>1, <1>3, <1>4, <1>5
<1>7. w = v \o x \o c
  BY <1>4
<1>8. /\ Len(v) \in Nat /\ Len(x) \in Nat /\ Len(c) \in Nat /\ Len(w) = Len(v) + Len(x) + Len(c)
      /\ \A k \in 1..Len(v) : w[k] = v[k]
  BY <1>6, <1>7
<1> QED  BY <1>1, <1>8

LEMMA ThrowRejects ==
  ASSUME Typed, Planning, Throw
  PROVE  RejectsOnlyMalformed'
<1>1. outcome = "parsing" /\ Refuses(frames, current)
  BY ThrowRefuses
<1>2. tokens' = tokens /\ current' = current
  BY DEF Throw
<1>3. tokens \in Seq(Tokens) /\ Len(tokens) \in Nat /\ current \in Tokens \cup {"END_OF_FILE"}
  BY DEF Typed
<1>4. Meaning(tokens, 1, Len(tokens)) = Malformed
  BY <1>1, <1>3, RefusedIsMalformed
<1>5. ~ Begun(Append(tokens, current))
  <2>1. PICK v : v = Append(tokens, current)
    OBVIOUS
  <2>2. ASSUME NEW operand \in {<<>>, <<"IDENTIFIER">>}, NEW w, w = v \o operand \o Closing(v)
        PROVE  Meaning(w, 1, Len(w)) = Malformed
    <3>1. PICK X : X = Tokens \cup {"END_OF_FILE", "IDENTIFIER"}
      OBVIOUS
    <3>2. tokens \in Seq(X) /\ current \in X /\ operand \in Seq(X)
      <4>1. tokens \in Seq(X) /\ current \in X
        BY <1>3, <3>1
      <4>2. operand \in Seq(X)
        <5>1. PICK t \in X : t = "IDENTIFIER"
          BY <3>1
        <5>2. <<>> \in Seq(X) /\ <<t>> \in Seq(X)
          OBVIOUS
        <5> QED  BY <5>1, <5>2
      <4> QED  BY <4>1, <4>2
    <3>3. /\ Len(w) \in Nat /\ Len(tokens) < Len(w) /\ w[Len(tokens) + 1] = current
          /\ \A k \in 1..Len(tokens) : w[k] = tokens[k]
      BY <2>1, <2>2, <3>2, WholeIs
    <3>4. Len(tokens) <= Len(w)
      BY <1>3, <3>3
    <3> QED  BY <1>1, <3>3, <3>4, RefusedIsMalformed
  <2>3. SUFFICES ASSUME Begun(v) PROVE FALSE
    BY <2>1
  <2>4. PICK operand \in {<<>>, <<"IDENTIFIER">>} :
          LET whole == v \o operand \o Closing(v)
          IN  Meaning(whole, 1, Len(whole)) # Malformed
    BY <2>3 DEF Begun
  <2>5. PICK w : w = v \o operand \o Closing(v)
    OBVIOUS
  <2>6. Meaning(w, 1, Len(w)) # Malformed
    BY <2>4, <2>5
  <2> QED  BY <2>2, <2>5, <2>6
<1> QED  BY <1>2, <1>4, <1>5 DEF RejectsOnlyMalformed

Decided == Parsed /\ RejectsOnlyMalformed

LEMMA NextDecided ==
  ASSUME Decided, [Next]_vars
  PROVE  Decided'
<1>1. Parsed'
  BY NextParsed DEF Decided
<1>2. CASE Throw
  BY <1>1, <1>2, ThrowRejects DEF Decided, Parsed
<1>3. CASE Return
  BY <1>1, <1>3 DEF Return, Decided, RejectsOnlyMalformed
<1>4. CASE UNCHANGED vars
  <2>1. RejectsOnlyMalformed'
    BY <1>4 DEF vars, Decided, RejectsOnlyMalformed
  <2> QED  BY <1>1, <2>1 DEF Decided
<1>5. CASE Next /\ ~ Throw /\ ~ Return
  <2>1. outcome' = "parsing"
    BY <1>5 DEF Next, At, Continues, ReturnsIn, Returns, ReadUnary, ReadLiteral, OpenGroup,
                OpenArray, OpenCall, OpenIndex, ReadOperator, EndUnary, EndBinary, EndGroup,
                EndIndex, NextArgument, EndArgument, EndCall, NextElement, EndElement, EndArray
  <2> QED  BY <1>1, <2>1 DEF Decided, RejectsOnlyMalformed
<1> QED  BY <1>2, <1>3, <1>4, <1>5

(* The parser rejects no expression: where it throws, what it has read is  *)
(* none, and with the token it stopped at it is not the beginning of one.  *)
THEOREM ExpressionsAreAccepted == Spec => []RejectsOnlyMalformed
<1>1. Init => Decided
  BY InitTyped, InitPlanned DEF Decided, Parsed, Init, ParsesAsWritten, RejectsOnlyMalformed
<1>2. Decided /\ [Next]_vars => Decided'
  BY NextDecided
<1>3. Decided => RejectsOnlyMalformed
  BY DEF Decided
<1> QED  BY <1>1, <1>2, <1>3, PTL DEF Spec
===============================================================================
