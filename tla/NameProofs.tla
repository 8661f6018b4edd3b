------------------------------ MODULE NameProofs ------------------------------
(***************************************************************************)
(* Proofs about module NameResolution, for any names, any statements and   *)
(* programs of any length.                                                 *)
(***************************************************************************)
EXTENDS NameResolution, Integers, FiniteSetTheorems, SequenceTheorems, TLAPS

(***************************************************************************)
(* The least and the greatest of some natural numbers.                     *)
(***************************************************************************)
LEMMA Least ==
  ASSUME NEW S \in SUBSET Nat, S # {}
  PROVE  \E m \in S : \A k \in S : m <= k
<1> DEFINE less == {p \in Nat \X Nat : p[1] < p[2]}
<1>1. IsWellFoundedOn(less, Nat)
  BY NatLessThanWellFounded, Zenon DEF OpToRel
<1>2. PICK m \in S : \A k \in S : <<k, m>> \notin less
  <2> HIDE DEF less
  <2> QED
    BY <1>1, WFMin
<1>3. ASSUME NEW k \in S PROVE m <= k
  <2>1. k \in Nat /\ m \in Nat
    OBVIOUS
  <2>2. <<k, m>> \notin less
    BY <1>2
  <2>3. ~ (k < m)
    BY <2>1, <2>2
  <2> QED
    BY <2>1, <2>3
<1> QED
  BY <1>3

LEMMA Greatest ==
  ASSUME NEW b \in Nat, NEW S \in SUBSET (0..b), S # {}
  PROVE  \E m \in S : \A k \in S : k <= m
<1> DEFINE bounds == {m \in Nat : \A k \in S : k <= m}
<1>1. b \in bounds
  OBVIOUS
<1>2. PICK m \in bounds : \A k \in bounds : m <= k
  BY <1>1, Least
<1>3. m \in S
  <2> SUFFICES ASSUME m \notin S PROVE FALSE
    OBVIOUS
  <2>1. ASSUME NEW k \in S PROVE k <= m - 1
    <3>1. k \in Nat /\ m \in Nat /\ k <= m /\ k # m
      BY <1>2
    <3> QED
      BY <3>1
  <2>2. m # 0
    <3>1. PICK a \in S : TRUE
      OBVIOUS
    <3>2. a <= m - 1 /\ a \in Nat /\ m \in Nat
      BY <2>1
    <3> QED
      BY <3>2
  <2>3. m - 1 \in bounds
    BY <1>2, <2>1, <2>2
  <2> QED
    BY <1>2, <2>3
<1> QED
  BY <1>2, <1>3

(***************************************************************************)
(* Programs as texts.                                                      *)
(***************************************************************************)
Program == Seq(Statements \cup {Close})

LEMMA Kinds ==
  ASSUME NEW s \in Statements \cup {Close}
  PROVE  /\ s.kind \in {"let", "func", "print", "return", "block", "close"}
         /\ s.kind = "close" <=> s = Close
         /\ s.kind = "let" => s.name \in Names
         /\ s.kind = "func" => s.name \in Names /\ s.param \in Names \cup {NoName}
         /\ s.kind \in {"let", "print", "return"} => s.use \in Uses
<1>1. CASE s = Close
  BY <1>1 DEF Close
<1>2. CASE s \in Statements
  <2>1. s \in Statement
    BY <1>2, StatementsAssumption
  <2>2. CASE s \in [kind : {"let"}, name : Names, use : Uses]
    BY <2>2 DEF Close
  <2>3. CASE s \in [kind : {"func"}, name : Names, param : Names \cup {NoName}]
    BY <2>3 DEF Close
  <2>4. CASE s \in [kind : {"print", "return"}, use : Uses]
    BY <2>4 DEF Close
  <2>5. CASE s = [kind |-> "block"]
    BY <2>5 DEF Close
  <2> QED
    BY <2>1, <2>2, <2>3, <2>4, <2>5 DEF Statement
<1> QED
  BY <1>1, <1>2

(* How many blocks and functions are open after the statement at j.        *)
OpensIn(text, i, j) == {k \in i..j : Opens(text[k])}
ClosesIn(text, i, j) == {k \in i..j : text[k] = Close}
Depth(text, j) == Cardinality(OpensIn(text, 1, j)) - Cardinality(ClosesIn(text, 1, j))
Moves(s) == IF Opens(s) THEN 1 ELSE IF s = Close THEN -1 ELSE 0

LEMMA Counts ==
  ASSUME NEW text, NEW i \in Nat, NEW j \in Nat
  PROVE  /\ IsFiniteSet(OpensIn(text, i, j)) /\ Cardinality(OpensIn(text, i, j)) \in Nat
         /\ IsFiniteSet(ClosesIn(text, i, j)) /\ Cardinality(ClosesIn(text, i, j)) \in Nat
<1>1. IsFiniteSet(i..j)
  BY FS_Interval
<1>2. OpensIn(text, i, j) \in SUBSET (i..j) /\ ClosesIn(text, i, j) \in SUBSET (i..j)
  BY DEF OpensIn, ClosesIn
<1> QED
  BY <1>1, <1>2, FS_Subset, FS_CardinalityType

LEMMA SizeOfDisjoint ==
  ASSUME NEW A, NEW B, IsFiniteSet(A), IsFiniteSet(B), A \cap B = {}
  PROVE  Cardinality(A \cup B) = Cardinality(A) + Cardinality(B)
<1>1. Cardinality(A \cup B) = Cardinality(A) + Cardinality(B) - Cardinality(A \cap B)
  BY FS_Union
<1>2. Cardinality(A \cap B) = 0
  BY FS_EmptySet
<1>3. Cardinality(A) \in Nat /\ Cardinality(B) \in Nat
  BY FS_CardinalityType
<1> QED
  BY <1>1, <1>2, <1>3

LEMMA CloseIsNoOpening == ~ Opens(Close)
  BY DEF Opens, Close

LEMMA DepthStep ==
  ASSUME NEW text
  PROVE  /\ Depth(text, 0) = 0
         /\ \A j \in Nat : Depth(text, j) \in Int
         /\ \A j \in Nat \ {0} : Depth(text, j) = Depth(text, j - 1) + Moves(text[j])
<1>1. Depth(text, 0) = 0
  <2>1. OpensIn(text, 1, 0) = {} /\ ClosesIn(text, 1, 0) = {}
    BY DEF OpensIn, ClosesIn
  <2> QED
    BY <2>1, FS_EmptySet DEF Depth
<1>2. ASSUME NEW j \in Nat PROVE Depth(text, j) \in Int
  BY Counts DEF Depth
<1>3. ASSUME NEW j \in Nat \ {0} PROVE Depth(text, j) = Depth(text, j - 1) + Moves(text[j])
  <2>1. j - 1 \in Nat /\ j \notin 1..(j - 1) /\ 1..j = (1..(j - 1)) \cup {j}
    OBVIOUS
  <2>2. OpensIn(text, 1, j) = OpensIn(text, 1, j - 1) \cup (IF Opens(text[j]) THEN {j} ELSE {})
    BY <2>1 DEF OpensIn
  <2>3. ClosesIn(text, 1, j) = ClosesIn(text, 1, j - 1) \cup (IF text[j] = Close THEN {j} ELSE {})
    BY <2>1 DEF ClosesIn
  <2>4. j \notin OpensIn(text, 1, j - 1) /\ j \notin ClosesIn(text, 1, j - 1)
    BY <2>1 DEF OpensIn, ClosesIn
  <2>5. Cardinality(OpensIn(text, 1, j))
          = Cardinality(OpensIn(text, 1, j - 1)) + (IF Opens(text[j]) THEN 1 ELSE 0)
    <3>1. CASE Opens(text[j])
      BY <2>1, <2>2, <2>4, <3>1, Counts, FS_AddElement
    <3>2. CASE ~ Opens(text[j])
      <4>1. OpensIn(text, 1, j) = OpensIn(text, 1, j - 1)
        BY <2>2, <3>2
      <4>2. Cardinality(OpensIn(text, 1, j - 1)) \in Nat
        BY <2>1, Counts
      <4> QED
        BY <3>2, <4>1, <4>2
    <3> QED
      BY <3>1, <3>2
  <2>6. Cardinality(ClosesIn(text, 1, j))
          = Cardinality(ClosesIn(text, 1, j - 1)) + (IF text[j] = Close THEN 1 ELSE 0)
    <3>1. CASE text[j] = Close
      BY <2>1, <2>3, <2>4, <3>1, Counts, FS_AddElement
    <3>2. CASE text[j] # Close
      <4>1. ClosesIn(text, 1, j) = ClosesIn(text, 1, j - 1)
        BY <2>3, <3>2
      <4>2. Cardinality(ClosesIn(text, 1, j - 1)) \in Nat
        BY <2>1, Counts
      <4> QED
        BY <3>2, <4>1, <4>2
    <3> QED
      BY <3>1, <3>2
  <2>7. /\ Cardinality(OpensIn(text, 1, j - 1)) \in Nat
        /\ Cardinality(ClosesIn(text, 1, j - 1)) \in Nat
    BY <2>1, Counts
  <2> QED
    BY <2>5, <2>6, <2>7, CloseIsNoOpening DEF Depth, Moves
<1> QED
  BY <1>1, <1>2, <1>3

LEMMA DepthIn ==
  ASSUME NEW text, NEW j \in Nat
  PROVE  Depth(text, j) \in Int
BY DepthStep

LEMMA OneMove ==
  ASSUME NEW text, NEW j \in Nat \ {0}
  PROVE  /\ Opens(text[j]) => Depth(text, j) = Depth(text, j - 1) + 1
         /\ text[j] = Close => Depth(text, j) = Depth(text, j - 1) - 1
         /\ ~ Opens(text[j]) /\ text[j] # Close => Depth(text, j) = Depth(text, j - 1)
         /\ Depth(text, j) >= Depth(text, j - 1) - 1
<1>1. Depth(text, j) = Depth(text, j - 1) + Moves(text[j])
  BY DepthStep
<1>2. j - 1 \in Nat
  OBVIOUS
<1>3. Depth(text, j - 1) \in Int
  BY <1>2, DepthIn
<1> QED
  BY <1>1, <1>3, CloseIsNoOpening DEF Moves

(* The depth inside a text does not depend on what follows.                *)
LEMMA DepthOfPrefix ==
  ASSUME NEW text, NEW longer, NEW j \in Nat,
         \A k \in 1..j : longer[k] = text[k]
  PROVE  Depth(longer, j) = Depth(text, j)
<1>1. OpensIn(longer, 1, j) = OpensIn(text, 1, j)
  BY DEF OpensIn
<1>2. ClosesIn(longer, 1, j) = ClosesIn(text, 1, j)
  BY DEF ClosesIn
<1> QED
  BY <1>1, <1>2 DEF Depth

(* What is opened and closed from i to j, in terms of depths.              *)
LEMMA DepthFrom ==
  ASSUME NEW text, NEW i \in Nat \ {0}, NEW j \in Nat, i <= j
  PROVE  Depth(text, j) - Depth(text, i - 1)
           = Cardinality(OpensIn(text, i, j)) - Cardinality(ClosesIn(text, i, j))
<1>1. i - 1 \in Nat /\ 1..j = (1..(i - 1)) \cup (i..j) /\ (1..(i - 1)) \cap (i..j) = {}
  OBVIOUS
<1>2. /\ OpensIn(text, 1, j) = OpensIn(text, 1, i - 1) \cup OpensIn(text, i, j)
      /\ OpensIn(text, 1, i - 1) \cap OpensIn(text, i, j) = {}
  BY <1>1 DEF OpensIn
<1>3. /\ ClosesIn(text, 1, j) = ClosesIn(text, 1, i - 1) \cup ClosesIn(text, i, j)
      /\ ClosesIn(text, 1, i - 1) \cap ClosesIn(text, i, j) = {}
  BY <1>1 DEF ClosesIn
<1>4. /\ IsFiniteSet(OpensIn(text, 1, i - 1)) /\ Cardinality(OpensIn(text, 1, i - 1)) \in Nat
      /\ IsFiniteSet(ClosesIn(text, 1, i - 1)) /\ Cardinality(ClosesIn(text, 1, i - 1)) \in Nat
  BY <1>1, Counts
<1>5. /\ IsFiniteSet(OpensIn(text, i, j)) /\ Cardinality(OpensIn(text, i, j)) \in Nat
      /\ IsFiniteSet(ClosesIn(text, i, j)) /\ Cardinality(ClosesIn(text, i, j)) \in Nat
  BY <1>1, Counts
<1>7. Cardinality(OpensIn(text, 1, j))
        = Cardinality(OpensIn(text, 1, i - 1)) + Cardinality(OpensIn(text, i, j))
  BY <1>2, <1>4, <1>5, SizeOfDisjoint
<1>8. Cardinality(ClosesIn(text, 1, j))
        = Cardinality(ClosesIn(text, 1, i - 1)) + Cardinality(ClosesIn(text, i, j))
  BY <1>3, <1>4, <1>5, SizeOfDisjoint
<1> QED
  BY <1>4, <1>5, <1>7, <1>8 DEF Depth

(***************************************************************************)
(* The nodes a pass is inside.  The node at p is open before position c    *)
(* when nothing between them has gone above it; a stack of visits holds    *)
(* the open nodes, the outermost first.                                    *)
(***************************************************************************)
OpenIn(text, p, c) ==
  /\ Opens(text[p])
  /\ p < c
  /\ \A j \in p..(c - 1) : Depth(text, j) >= Depth(text, p)

Stack(text, v, c) ==
  /\ v \in Seq(1..Len(text))
  /\ c \in 1..(Len(text) + 1)
  /\ Len(v) = Depth(text, c - 1)
  /\ \A k \in 1..Len(v) : OpenIn(text, v[k], c) /\ Depth(text, v[k]) = k

WellNested(text) == \A j \in 0..Len(text) : Depth(text, j) >= 0

LEMMA StackStart ==
  ASSUME NEW text \in Program
  PROVE  Stack(text, <<>>, 1)
<1>1. Len(text) \in Nat
  BY DEF Program
<1>2. Depth(text, 1 - 1) = 0
  BY DepthStep
<1> QED
  BY <1>1, <1>2 DEF Stack

LEMMA StackOpen ==
  ASSUME NEW text \in Program, NEW v, NEW c \in 1..Len(text),
         Stack(text, v, c), Opens(text[c])
  PROVE  Stack(text, Append(v, c), c + 1)
<1> DEFINE w == Append(v, c)
<1>1. Len(text) \in Nat /\ c \in Nat /\ c >= 1 /\ c - 1 \in Nat /\ c + 1 - 1 = c
  BY DEF Program
<1>2. v \in Seq(1..Len(text)) /\ Len(v) \in Nat /\ Len(v) = Depth(text, c - 1)
  BY DEF Stack
<1>3. w \in Seq(1..Len(text)) /\ Len(w) = Len(v) + 1
  BY <1>2
<1>4. Depth(text, c) = Len(v) + 1
  BY <1>1, <1>2, OneMove
<1>5. ASSUME NEW k \in 1..Len(w)
      PROVE  OpenIn(text, w[k], c + 1) /\ Depth(text, w[k]) = k
  <2>1. CASE k = Len(v) + 1
    <3>1. w[k] = c
      BY <2>1, <1>2
    <3>2. \A j \in c..(c + 1 - 1) : j = c
      BY <1>1
    <3>3. \A j \in c..(c + 1 - 1) : Depth(text, j) >= Depth(text, c)
      BY <3>2, <1>2, <1>4
    <3> QED
      BY <2>1, <3>1, <3>3, <1>1, <1>4 DEF OpenIn
  <2>2. CASE k \in 1..Len(v)
    <3>1. w[k] = v[k] /\ v[k] \in 1..Len(text)
      BY <2>2, <1>2
    <3>2. OpenIn(text, v[k], c) /\ Depth(text, v[k]) = k
      BY <2>2 DEF Stack
    <3>3. ASSUME NEW j \in v[k]..(c + 1 - 1) PROVE Depth(text, j) >= Depth(text, v[k])
      <4>1. CASE j = c
        BY <4>1, <3>2, <2>2, <1>2, <1>4
      <4>2. CASE j # c
        <5>1. j \in v[k]..(c - 1)
          BY <4>2, <3>1, <1>1
        <5> QED
          BY <5>1, <3>2 DEF OpenIn
      <4> QED
        BY <4>1, <4>2
    <3>4. v[k] < c + 1
      BY <3>1, <3>2, <1>1 DEF OpenIn
    <3> QED
      BY <3>1, <3>2, <3>3, <3>4 DEF OpenIn
  <2> QED
    BY <2>1, <2>2, <1>2, <1>3
<1>6. Stack(text, w, c + 1)
  <2> HIDE DEF w
  <2> QED
    BY <1>1, <1>3, <1>4, <1>5 DEF Stack
<1> QED
  BY <1>6

LEMMA StackSkip ==
  ASSUME NEW text \in Program, NEW v, NEW c \in 1..Len(text),
         Stack(text, v, c), ~ Opens(text[c]), text[c] # Close
  PROVE  Stack(text, v, c + 1)
<1>1. Len(text) \in Nat /\ c \in Nat /\ c >= 1 /\ c - 1 \in Nat /\ c + 1 - 1 = c
  BY DEF Program
<1>2. v \in Seq(1..Len(text)) /\ Len(v) \in Nat /\ Len(v) = Depth(text, c - 1)
  BY DEF Stack
<1>3. Depth(text, c) = Len(v)
  BY <1>1, <1>2, OneMove
<1>4. ASSUME NEW k \in 1..Len(v) PROVE OpenIn(text, v[k], c + 1) /\ Depth(text, v[k]) = k
  <2>1. v[k] \in 1..Len(text) /\ OpenIn(text, v[k], c) /\ Depth(text, v[k]) = k
    BY <1>2 DEF Stack
  <2>2. ASSUME NEW j \in v[k]..(c + 1 - 1) PROVE Depth(text, j) >= Depth(text, v[k])
    <3>1. CASE j = c
      BY <3>1, <2>1, <1>2, <1>3
    <3>2. CASE j # c
      <4>1. j \in v[k]..(c - 1)
        BY <3>2, <2>1, <1>1
      <4> QED
        BY <4>1, <2>1 DEF OpenIn
    <3> QED
      BY <3>1, <3>2
  <2>3. v[k] < c + 1
    BY <2>1, <1>1 DEF OpenIn
  <2> QED
    BY <2>1, <2>2, <2>3 DEF OpenIn
<1> QED
  BY <1>1, <1>2, <1>3, <1>4 DEF Stack

LEMMA PoppedIs ==
  ASSUME NEW S, NEW v \in Seq(S), NEW n \in 0..Len(v)
  PROVE  /\ Popped(v, n) \in Seq(S)
         /\ Len(Popped(v, n)) = Len(v) - n
         /\ \A i \in 1..(Len(v) - n) : Popped(v, n)[i] = v[i]
<1>1. Len(v) \in Nat /\ n \in Nat /\ Len(v) - n \in Nat /\ 1 \in Int /\ Len(v) - n \in Int
  OBVIOUS
<1>2. \A i \in 1..(Len(v) - n) : v[i] \in S
  BY <1>1
<1> DEFINE m == Len(v) - n
<1>3. m \in Int /\ \A i \in 1..m : v[i] \in S
  BY <1>1, <1>2
<1>4. m \in Nat
  BY <1>1
<1> HIDE DEF m
<1>5. /\ SubSeq(v, 1, m) \in Seq(S)
      /\ Len(SubSeq(v, 1, m)) = IF 1 <= m THEN m - 1 + 1 ELSE 0
      /\ \A i \in 1..(m - 1 + 1) : SubSeq(v, 1, m)[i] = v[1 + i - 1]
  BY <1>3, SubSeqProperties
<1>6. \A i \in 1..m : i \in 1..(m - 1 + 1) /\ 1 + i - 1 = i
  BY <1>4
<1>7. /\ SubSeq(v, 1, m) \in Seq(S)
      /\ Len(SubSeq(v, 1, m)) = m
      /\ \A i \in 1..m : SubSeq(v, 1, m)[i] = v[i]
  BY <1>4, <1>5, <1>6
<1> QED
  BY <1>7 DEF Popped, m

(* What a close does to a stack: it takes the innermost node away.         *)
LEMMA StackClose ==
  ASSUME NEW text \in Program, WellNested(text), NEW v, NEW c \in 1..Len(text),
         Stack(text, v, c), text[c] = Close
  PROVE  /\ v # <<>>
         /\ Len(v) - 1 \in Nat
         /\ Stack(text, Popped(v, 1), c + 1)
<1>1. Len(text) \in Nat /\ c \in Nat /\ c >= 1 /\ c - 1 \in Nat /\ c + 1 - 1 = c
  BY DEF Program
<1>2. v \in Seq(1..Len(text)) /\ Len(v) \in Nat /\ Len(v) = Depth(text, c - 1)
  BY DEF Stack
<1>3. Depth(text, c) = Len(v) - 1
  BY <1>1, <1>2, OneMove
<1>4. Depth(text, c) >= 0
  BY <1>1 DEF WellNested
<1>5. Len(v) - 1 \in Nat /\ v # <<>>
  BY <1>2, <1>3, <1>4
<1> DEFINE w == Popped(v, 1)
<1>6. w \in Seq(1..Len(text)) /\ Len(w) = Len(v) - 1 /\ \A k \in 1..Len(w) : w[k] = v[k]
  <2>1. 1 \in 0..Len(v)
    BY <1>2, <1>5
  <2> QED
    BY <1>2, <2>1, PoppedIs
<1>7. ASSUME NEW k \in 1..Len(w) PROVE OpenIn(text, w[k], c + 1) /\ Depth(text, w[k]) = k
  <2>1. k \in 1..Len(v) /\ w[k] = v[k] /\ k <= Len(v) - 1
    BY <1>5, <1>6, <1>2
  <2>2. v[k] \in 1..Len(text) /\ OpenIn(text, v[k], c) /\ Depth(text, v[k]) = k
    BY <2>1, <1>2 DEF Stack
  <2>3. ASSUME NEW j \in v[k]..(c + 1 - 1) PROVE Depth(text, j) >= Depth(text, v[k])
    <3>1. CASE j = c
      BY <3>1, <2>1, <2>2, <1>2, <1>3
    <3>2. CASE j # c
      <4>1. j \in v[k]..(c - 1)
        BY <3>2, <2>2, <1>1
      <4> QED
        BY <4>1, <2>2 DEF OpenIn
    <3> QED
      BY <3>1, <3>2
  <2>4. v[k] < c + 1
    BY <2>2, <1>1 DEF OpenIn
  <2> QED
    BY <2>1, <2>2, <2>3, <2>4 DEF OpenIn
<1>8. Stack(text, w, c + 1)
  <2> HIDE DEF w
  <2> QED
    BY <1>1, <1>3, <1>6, <1>7 DEF Stack
<1> QED
  BY <1>5, <1>8

(* Two nodes open at one position and of one depth are the same.           *)
LEMMA OneAtADepth ==
  ASSUME NEW text \in Program, NEW c \in Nat,
         NEW p \in 1..Len(text), NEW q \in 1..Len(text),
         OpenIn(text, p, c), OpenIn(text, q, c), Depth(text, p) = Depth(text, q)
  PROVE  p = q
<1>1. ASSUME NEW a \in 1..Len(text), NEW b \in 1..Len(text), OpenIn(text, a, c),
             OpenIn(text, b, c), Depth(text, a) = Depth(text, b), a < b
      PROVE  FALSE
  <2>1. Len(text) \in Nat /\ a \in Nat /\ b \in Nat \ {0} /\ b - 1 \in Nat
    BY DEF Program
  <2>2. Depth(text, b) = Depth(text, b - 1) + 1
    BY <2>1, <1>1, OneMove DEF OpenIn
  <2>3. b - 1 \in a..(c - 1)
    BY <2>1, <1>1 DEF OpenIn
  <2>4. Depth(text, b - 1) >= Depth(text, a)
    BY <2>3, <1>1 DEF OpenIn
  <2>5. Depth(text, b - 1) \in Int /\ Depth(text, a) \in Int
    BY <2>1, DepthIn
  <2> QED
    BY <1>1, <2>2, <2>4, <2>5
<1>2. Len(text) \in Nat /\ p \in Nat /\ q \in Nat
  BY DEF Program
<1>3. p < q \/ q < p \/ p = q
  BY <1>2
<1> QED
  BY <1>1, <1>3

(* A stack holds every node that is open.                                  *)
LEMMA StackHoldsOpen ==
  ASSUME NEW text \in Program, WellNested(text), NEW v, NEW c, Stack(text, v, c),
         NEW p \in 1..Len(text), OpenIn(text, p, c)
  PROVE  Depth(text, p) \in 1..Len(v) /\ v[Depth(text, p)] = p
<1>1. Len(text) \in Nat /\ c \in Nat /\ c >= 1 /\ c - 1 \in Nat /\ c <= Len(text) + 1
  BY DEF Program, Stack
<1>2. v \in Seq(1..Len(text)) /\ Len(v) \in Nat /\ Len(v) = Depth(text, c - 1)
  BY DEF Stack
<1>3. p \in Nat \ {0} /\ p - 1 \in 0..Len(text) /\ p - 1 \in Nat
  BY <1>1
<1>4. Depth(text, p) = Depth(text, p - 1) + 1
  BY <1>3, OneMove DEF OpenIn
<1>5. Depth(text, p - 1) >= 0 /\ Depth(text, p - 1) \in Int
  BY <1>3, DepthIn DEF WellNested
<1>6. c - 1 \in p..(c - 1)
  BY <1>1, <1>3 DEF OpenIn
<1>7. Depth(text, c - 1) >= Depth(text, p)
  BY <1>6 DEF OpenIn
<1>8. Depth(text, p) \in 1..Len(v)
  BY <1>2, <1>4, <1>5, <1>7
<1> DEFINE q == v[Depth(text, p)]
<1>9. q \in 1..Len(text) /\ OpenIn(text, q, c) /\ Depth(text, q) = Depth(text, p)
  BY <1>2, <1>8 DEF Stack
<1>10. q = p
  <2> HIDE DEF q
  <2> QED
    BY <1>1, <1>9, OneAtADepth
<1> QED
  BY <1>8, <1>10

(***************************************************************************)
(* The close of a node that is open.                                       *)
(***************************************************************************)
ClosedAt(text, i) ==
  LET balanced(j) == Cardinality(OpensIn(text, i, j)) = Cardinality(ClosesIn(text, i, j))
  IN  CHOOSE j \in i..Len(text) : balanced(j) /\ \A k \in i..(j - 1) : ~ balanced(k)

LEMMA AfterIsClosedAt ==
  ASSUME NEW i
  PROVE  After(i) = 1 + ClosedAt(program, i)
BY DEF After, ClosedAt, OpensIn, ClosesIn

LEMMA Closed ==
  ASSUME NEW text \in Program, WellNested(text), Depth(text, Len(text)) = 0,
         NEW i \in 1..Len(text), Opens(text[i])
  PROVE  /\ ClosedAt(text, i) \in i..Len(text)
         /\ Depth(text, ClosedAt(text, i)) = Depth(text, i - 1)
         /\ \A k \in i..(ClosedAt(text, i) - 1) : Depth(text, k) >= Depth(text, i)
<1> DEFINE balanced(j) ==
             Cardinality(OpensIn(text, i, j)) = Cardinality(ClosesIn(text, i, j))
<1>1. Len(text) \in Nat /\ i \in Nat \ {0} /\ i - 1 \in 0..Len(text) /\ i - 1 \in Nat
  BY DEF Program
<1>2. Depth(text, i - 1) \in Int /\ Depth(text, i - 1) >= 0
  BY <1>1, DepthIn DEF WellNested
<1>3. Depth(text, i) = Depth(text, i - 1) + 1
  BY <1>1, OneMove
<1>4. ASSUME NEW j \in i..Len(text)
      PROVE  balanced(j) <=> Depth(text, j) = Depth(text, i - 1)
  <2>1. j \in Nat /\ i <= j
    BY <1>1
  <2>2. Depth(text, j) - Depth(text, i - 1)
          = Cardinality(OpensIn(text, i, j)) - Cardinality(ClosesIn(text, i, j))
    BY <1>1, <2>1, DepthFrom
  <2>3. Cardinality(OpensIn(text, i, j)) \in Nat /\ Cardinality(ClosesIn(text, i, j)) \in Nat
    BY <1>1, <2>1, Counts
  <2>4. Depth(text, j) \in Int
    BY <2>1, DepthIn
  <2> QED
    BY <1>2, <2>2, <2>3, <2>4
<1> DEFINE down == {j \in i..Len(text) : Depth(text, j) <= Depth(text, i - 1)}
<1>5. Len(text) \in down
  BY <1>1, <1>2
<1>6. PICK m \in down : \A k \in down : m <= k
  <2>1. down \in SUBSET Nat /\ down # {}
    BY <1>1, <1>5
  <2> HIDE DEF down
  <2> QED
    BY <2>1, Least
<1>7. m \in i..Len(text) /\ m \in Nat \ {0} /\ m - 1 \in Nat /\ m # i
  BY <1>1, <1>2, <1>3, <1>6
<1>8. ASSUME NEW k \in i..(m - 1)
      PROVE  Depth(text, k) >= Depth(text, i) /\ ~ balanced(k)
  <2>1. k \in i..Len(text) /\ k \in Nat /\ ~ (m <= k)
    BY <1>1, <1>7
  <2>2. k \notin down
    BY <2>1, <1>6
  <2>3. Depth(text, k) \in Int
    BY <2>1, DepthIn
  <2>4. Depth(text, k) > Depth(text, i - 1)
    BY <1>2, <2>1, <2>2, <2>3
  <2> QED
    BY <1>2, <1>3, <1>4, <2>1, <2>3, <2>4
<1>9. Depth(text, m) = Depth(text, i - 1)
  <2>1. m - 1 \in i..(m - 1)
    BY <1>1, <1>7
  <2>2. Depth(text, m - 1) >= Depth(text, i)
    BY <1>8, <2>1
  <2>3. Depth(text, m) >= Depth(text, m - 1) - 1
    BY <1>7, OneMove
  <2>4. Depth(text, m) \in Int /\ Depth(text, m - 1) \in Int
    BY <1>7, DepthIn
  <2>5. Depth(text, m) <= Depth(text, i - 1)
    BY <1>6
  <2> QED
    BY <1>2, <1>3, <2>2, <2>3, <2>4, <2>5
<1> DEFINE first(j) == balanced(j) /\ \A k \in i..(j - 1) : ~ balanced(k)
<1>10. first(m)
  BY <1>4, <1>7, <1>8, <1>9
<1>11. ASSUME NEW j \in i..Len(text), first(j) PROVE j = m
  <2>1. j \in Nat /\ (j < m => j \in i..(m - 1)) /\ (m < j => m \in i..(j - 1))
    BY <1>1, <1>7
  <2>2. ~ (j < m) /\ ~ (m < j)
    BY <1>8, <1>10, <1>11, <2>1
  <2> QED
    BY <1>7, <2>1, <2>2
<1>12. ClosedAt(text, i) = CHOOSE j \in i..Len(text) : first(j)
  BY DEF ClosedAt
<1>13. ClosedAt(text, i) = m
  <2> HIDE DEF first
  <2>1. (CHOOSE j \in i..Len(text) : first(j)) \in i..Len(text)
          /\ first(CHOOSE j \in i..Len(text) : first(j))
    BY <1>7, <1>10
  <2> QED
    BY <1>11, <1>12, <2>1
<1> QED
  BY <1>7, <1>8, <1>9, <1>13

(* A node encloses what lies between it and its close.                     *)
LEMMA OpenInIsEnclosed ==
  ASSUME NEW text \in Program, WellNested(text), Depth(text, Len(text)) = 0,
         NEW i \in 1..Len(text), NEW c \in Nat
  PROVE  OpenIn(text, i, c) <=> Opens(text[i]) /\ i < c /\ c < 1 + ClosedAt(text, i)
<1>1. Len(text) \in Nat /\ i \in Nat \ {0} /\ i - 1 \in Nat
  BY DEF Program
<1> SUFFICES ASSUME Opens(text[i]), i < c
             PROVE  OpenIn(text, i, c) <=> c < 1 + ClosedAt(text, i)
  BY DEF OpenIn
<1> DEFINE e == ClosedAt(text, i)
<1>2. /\ e \in i..Len(text)
      /\ Depth(text, e) = Depth(text, i - 1)
      /\ \A k \in i..(e - 1) : Depth(text, k) >= Depth(text, i)
  BY Closed
<1>3. Depth(text, i) = Depth(text, i - 1) + 1 /\ Depth(text, i - 1) \in Int
  BY <1>1, OneMove, DepthIn
<1> HIDE DEF e
<1>4. ASSUME c < 1 + e PROVE OpenIn(text, i, c)
  <2>1. \A j \in i..(c - 1) : j \in i..(e - 1)
    BY <1>1, <1>2, <1>4
  <2> QED
    BY <1>2, <2>1 DEF OpenIn
<1>5. ASSUME ~ (c < 1 + e), OpenIn(text, i, c) PROVE FALSE
  <2>1. e \in i..(c - 1)
    BY <1>1, <1>2, <1>5
  <2>2. Depth(text, e) >= Depth(text, i)
    BY <1>5, <2>1 DEF OpenIn
  <2> QED
    BY <1>2, <1>3, <2>2
<1> QED
  BY <1>4, <1>5 DEF e

LEMMA StackJump ==
  ASSUME NEW text \in Program, WellNested(text), Depth(text, Len(text)) = 0,
         NEW v, NEW c \in 1..Len(text), Stack(text, v, c), Opens(text[c])
  PROVE  /\ 1 + ClosedAt(text, c) \in (c + 1)..(Len(text) + 1)
         /\ Stack(text, v, 1 + ClosedAt(text, c))
<1> DEFINE e == ClosedAt(text, c)
<1>1. /\ e \in c..Len(text)
      /\ Depth(text, e) = Depth(text, c - 1)
      /\ \A k \in c..(e - 1) : Depth(text, k) >= Depth(text, c)
  BY Closed
<1> HIDE DEF e
<1>2. Len(text) \in Nat /\ c \in Nat \ {0} /\ c - 1 \in Nat /\ e \in Nat /\ 1 + e - 1 = e
  BY <1>1 DEF Program
<1>3. v \in Seq(1..Len(text)) /\ Len(v) \in Nat /\ Len(v) = Depth(text, c - 1)
  BY DEF Stack
<1>4. Depth(text, c) = Len(v) + 1
  BY <1>2, <1>3, OneMove
<1>5. ASSUME NEW k \in 1..Len(v) PROVE OpenIn(text, v[k], 1 + e) /\ Depth(text, v[k]) = k
  <2>1. v[k] \in 1..Len(text) /\ OpenIn(text, v[k], c) /\ Depth(text, v[k]) = k
    BY <1>3 DEF Stack
  <2>2. ASSUME NEW j \in v[k]..(1 + e - 1) PROVE Depth(text, j) >= Depth(text, v[k])
    <3>1. CASE j < c
      <4>1. j \in v[k]..(c - 1)
        BY <3>1, <2>1, <1>2
      <4> QED
        BY <4>1, <2>1 DEF OpenIn
    <3>2. CASE j = e
      BY <3>2, <2>1, <1>1, <1>3
    <3>3. CASE c <= j /\ j # e
      <4>1. j \in c..(e - 1) /\ j \in Nat
        BY <3>3, <2>1, <1>2
      <4>2. Depth(text, j) >= Depth(text, c) /\ Depth(text, j) \in Int
        BY <4>1, <1>1, DepthIn
      <4> QED
        BY <4>2, <2>1, <1>3, <1>4
    <3> QED
      BY <3>1, <3>2, <3>3, <2>1, <1>2
  <2>3. v[k] < 1 + e /\ Opens(text[v[k]])
    BY <2>1, <1>1, <1>2 DEF OpenIn
  <2>4. OpenIn(text, v[k], 1 + e)
    BY <2>2, <2>3, <1>2 DEF OpenIn
  <2> QED
    BY <2>1, <2>4
<1>6. 1 + e \in (c + 1)..(Len(text) + 1) /\ Stack(text, v, 1 + e)
  BY <1>1, <1>2, <1>3, <1>5 DEF Stack
<1> QED
  BY <1>6 DEF e

(* What a text says does not change when a statement is added to it.       *)
LEMMA Appended ==
  ASSUME NEW text \in Program, NEW s \in Statements \cup {Close}
  PROVE  /\ Append(text, s) \in Program
         /\ Len(Append(text, s)) = Len(text) + 1
         /\ Append(text, s)[Len(text) + 1] = s
         /\ \A k \in 1..Len(text) : Append(text, s)[k] = text[k]
         /\ \A k \in 0..Len(text) : Depth(Append(text, s), k) = Depth(text, k)
<1> DEFINE longer == Append(text, s)
<1>1. Len(text) \in Nat
  BY DEF Program
<1>2. /\ longer \in Program
      /\ Len(longer) = Len(text) + 1
      /\ longer[Len(text) + 1] = s
      /\ \A k \in 1..Len(text) : longer[k] = text[k]
  BY <1>1 DEF Program
<1>3. ASSUME NEW k \in 0..Len(text) PROVE Depth(longer, k) = Depth(text, k)
  <2>1. k \in Nat /\ \A i \in 1..k : longer[i] = text[i]
    BY <1>1, <1>2
  <2> HIDE DEF longer
  <2> QED
    BY <2>1, DepthOfPrefix
<1> QED
  BY <1>2, <1>3

LEMMA OpenInAppended ==
  ASSUME NEW text \in Program, NEW s \in Statements \cup {Close},
         NEW p \in 1..Len(text), NEW c \in 1..(Len(text) + 1)
  PROVE  OpenIn(Append(text, s), p, c) <=> OpenIn(text, p, c)
<1> DEFINE longer == Append(text, s)
<1>1. Len(text) \in Nat
  BY DEF Program
<1>2. /\ longer[p] = text[p]
      /\ \A k \in 0..Len(text) : Depth(longer, k) = Depth(text, k)
  BY Appended
<1>3. \A j \in p..(c - 1) : j \in 0..Len(text)
  BY <1>1
<1>4. p \in 0..Len(text)
  BY <1>1
<1> HIDE DEF longer
<1>5. OpenIn(longer, p, c) <=> OpenIn(text, p, c)
  BY <1>2, <1>3, <1>4 DEF OpenIn
<1> QED
  BY <1>5 DEF longer

LEMMA StackAppended ==
  ASSUME NEW text \in Program, NEW s \in Statements \cup {Close}, NEW v, NEW c,
         Stack(text, v, c)
  PROVE  Stack(Append(text, s), v, c)
<1> DEFINE longer == Append(text, s)
<1>1. Len(text) \in Nat /\ c \in 1..(Len(text) + 1) /\ c - 1 \in 0..Len(text)
  BY DEF Program, Stack
<1>2. /\ Len(longer) = Len(text) + 1
      /\ \A k \in 0..Len(text) : Depth(longer, k) = Depth(text, k)
  BY Appended
<1>3. v \in Seq(1..Len(text)) /\ Len(v) = Depth(text, c - 1)
  BY DEF Stack
<1>4. v \in Seq(1..Len(longer)) /\ c \in 1..(Len(longer) + 1) /\ Len(v) = Depth(longer, c - 1)
  BY <1>1, <1>2, <1>3
<1>5. ASSUME NEW k \in 1..Len(v) PROVE OpenIn(longer, v[k], c) /\ Depth(longer, v[k]) = k
  <2>1. v[k] \in 1..Len(text) /\ v[k] \in 0..Len(text)
    BY <1>1, <1>3
  <2>2. OpenIn(text, v[k], c) /\ Depth(text, v[k]) = k
    BY DEF Stack
  <2>3. OpenIn(longer, v[k], c)
    BY <1>1, <2>1, <2>2, OpenInAppended
  <2> QED
    BY <1>2, <2>1, <2>2, <2>3
<1>6. Stack(longer, v, c)
  <2> HIDE DEF longer
  <2> QED
    BY <1>4, <1>5 DEF Stack
<1> QED
  BY <1>6

(***************************************************************************)
(* The walk of a pass over the program.                                    *)
(***************************************************************************)
Here == IF phase = "parse" THEN Len(program) + 1 ELSE next

Walk ==
  /\ program \in Program
  /\ mode \in {"none", "Run", "Build"}
  /\ phase \in {"parse"} \cup Passes \cup Outcomes
  /\ mode = "none" <=> phase = "parse"
  /\ phase \in {"declare", "check", "rejected", "refused"} => mode = "Run"
  /\ phase = "parse" => next = 1
  /\ WellNested(program)
  /\ mode # "none" => Depth(program, Len(program)) = 0
  /\ Stack(program, visits, Here)

(* What a step of a pass does to the walk, whatever else it does.          *)
Stays == visits' = visits /\ next' = next
Skips ==
  /\ next \in Positions /\ ~ Opens(program[next]) /\ program[next] # Close
  /\ visits' = visits /\ next' = next + 1
Enters == next \in Positions /\ Opens(program[next]) /\ Enter
Leaves == next \in Positions /\ program[next] = Close /\ Leave
Jumps ==
  /\ next \in Positions /\ Opens(program[next])
  /\ visits' = visits /\ next' = After(next)
Begins == visits' = <<>> /\ next' = 1

PassStep ==
  \/ DeclareFunction \/ DeclareBlock \/ DeclareClose \/ DeclareSkip \/ DeclareEnd
  \/ CheckLet \/ CheckPrint \/ CheckReturn \/ CheckFunction \/ CheckBlock
  \/ CheckClose \/ CheckErrors \/ CheckEnd
  \/ GenerateUndefined \/ GenerateThrow \/ GenerateLet \/ GeneratePrint
  \/ GenerateReturn \/ GenerateFunction \/ GenerateBlock \/ GenerateClose
  \/ GenerateEnd

LEMMA KindAtNext ==
  ASSUME Walk, next \in Positions
  PROVE  /\ program[next].kind \in {"block", "func"} <=> Opens(program[next])
         /\ program[next].kind = "close" <=> program[next] = Close
         /\ program[next].kind \in {"let", "print", "return"}
              => ~ Opens(program[next]) /\ program[next] # Close
         /\ program[next].kind = "let" => program[next].name \in Names
         /\ program[next].kind = "func"
              => program[next].name \in Names /\ program[next].param \in Names \cup {NoName}
         /\ program[next].kind \in {"let", "print", "return"} => program[next].use \in Uses
<1>1. program[next] \in Statements \cup {Close}
  BY DEF Walk, Program, Positions
<1> QED
  BY <1>1, Kinds DEF Opens

LEMMA PassMoves ==
  ASSUME Walk, PassStep
  PROVE  /\ UNCHANGED <<program, mode>>
         /\ phase \in Passes /\ phase' \in Passes \cup Outcomes
         /\ phase' \in {"declare", "check", "rejected"} => phase \in {"declare", "check"}
         /\ phase' = "refused" => mode = "Run"
         /\ Stays \/ Skips \/ Enters \/ Leaves \/ Jumps \/ Begins
<1> USE DEF Passes, Outcomes
<1>1. CASE DeclareFunction
  BY <1>1, KindAtNext DEF DeclareFunction, Visiting, Jumps, source
<1>2. CASE DeclareBlock
  BY <1>2, KindAtNext DEF DeclareBlock, Visiting, Enters, source
<1>3. CASE DeclareClose
  BY <1>3, KindAtNext DEF DeclareClose, Visiting, Leaves, source
<1>4. CASE DeclareSkip
  BY <1>4, KindAtNext DEF DeclareSkip, Visiting, Skips, source
<1>5. CASE DeclareEnd
  BY <1>5 DEF DeclareEnd, Finished, BeginPass, Begins, source
<1>6. CASE CheckLet
  BY <1>6, KindAtNext DEF CheckLet, Visiting, Skips, source
<1>7. CASE CheckPrint
  BY <1>7, KindAtNext DEF CheckPrint, Visiting, Skips, source
<1>8. CASE CheckReturn
  BY <1>8, KindAtNext DEF CheckReturn, Visiting, Skips, source
<1>9. CASE CheckFunction
  BY <1>9, KindAtNext DEF CheckFunction, Visiting, Enters, source
<1>10. CASE CheckBlock
  BY <1>10, KindAtNext DEF CheckBlock, Visiting, Enters, source
<1>11. CASE CheckClose
  BY <1>11, KindAtNext DEF CheckClose, Visiting, Leaves, source
<1>12. CASE CheckErrors
  BY <1>12 DEF CheckErrors, Finished, Stays, source
<1>13. CASE CheckEnd
  BY <1>13 DEF CheckEnd, Finished, BeginPass, Begins, source
<1>14. CASE GenerateUndefined
  BY <1>14 DEF GenerateUndefined, Visiting, Stays, source
<1>15. CASE GenerateThrow
  BY <1>15 DEF GenerateThrow, Generating, Visiting, Stays, source
<1>16. CASE GenerateLet
  BY <1>16, KindAtNext DEF GenerateLet, Generating, Visiting, Skips, source
<1>17. CASE GeneratePrint
  BY <1>17, KindAtNext DEF GeneratePrint, Generating, Visiting, Skips, Stays, source
<1>18. CASE GenerateReturn
  BY <1>18, KindAtNext DEF GenerateReturn, Generating, Visiting, Skips, source
<1>19. CASE GenerateFunction
  BY <1>19, KindAtNext DEF GenerateFunction, Generating, Visiting, Enters, source
<1>20. CASE GenerateBlock
  BY <1>20, KindAtNext DEF GenerateBlock, Generating, Visiting, Enters, source
<1>21. CASE GenerateClose
  BY <1>21, KindAtNext DEF GenerateClose, Generating, Visiting, Leaves, source
<1>22. CASE GenerateEnd
  BY <1>22 DEF GenerateEnd, Finished, Stays, source
<1> QED
  BY <1>1, <1>2, <1>3, <1>4, <1>5, <1>6, <1>7, <1>8, <1>9, <1>10, <1>11, <1>12, <1>13,
     <1>14, <1>15, <1>16, <1>17, <1>18, <1>19, <1>20, <1>21, <1>22 DEF PassStep

LEMMA WalkHere ==
  ASSUME Walk
  PROVE  /\ Len(program) \in Nat /\ next \in Nat \ {0} /\ next \in 1..(Len(program) + 1)
         /\ next - 1 \in 0..Len(program)
         /\ visits \in Seq(Positions) /\ Len(visits) \in Nat
         /\ \A k \in 1..Len(visits) : visits[k] \in Positions /\ Opens(program[visits[k]])
<1>1. Len(program) \in Nat
  BY DEF Walk, Program
<1>2. next \in 1..(Len(program) + 1)
  BY <1>1 DEF Walk, Stack, Here
<1>3. visits \in Seq(Positions) /\ Len(visits) \in Nat
  BY DEF Walk, Stack, Positions
<1>4. \A k \in 1..Len(visits) : visits[k] \in Positions /\ Opens(program[visits[k]])
  BY <1>3 DEF Walk, Stack, OpenIn
<1> QED
  BY <1>1, <1>2, <1>3, <1>4

LEMMA WalkInit == Init => Walk
<1> SUFFICES ASSUME Init PROVE Walk
  OBVIOUS
<1>1. program = <<>> /\ program \in Program /\ Len(program) = 0 /\ visits = <<>>
  BY DEF Init, Program
<1>2. WellNested(program)
  BY <1>1, DepthStep DEF WellNested
<1>3. Stack(program, visits, Here)
  BY <1>1, StackStart DEF Init, Here
<1> QED
  BY <1>1, <1>2, <1>3 DEF Init, Walk

LEMMA WalkParse ==
  ASSUME Walk, \/ \E s \in Statements : ParseStatement(s)
               \/ ParseClose \/ StartRun \/ StartBuild
  PROVE  Walk'
<1>1. Len(program) \in Nat /\ program \in Program /\ WellNested(program)
  BY WalkHere DEF Walk
<1>2. ASSUME NEW s \in Statements \cup {Close}, phase = "parse",
             program' = Append(program, s), UNCHANGED <<mode, phase, next>>,
             Stack(program', visits', Len(program) + 2)
      PROVE  Walk'
  <2>1. /\ program' \in Program
        /\ Len(program') = Len(program) + 1
        /\ program'[Len(program) + 1] = s
        /\ \A k \in 0..Len(program) : Depth(program', k) = Depth(program, k)
    BY <1>1, <1>2, Appended
  <2>2. Here' = Len(program) + 2
    BY <1>1, <1>2, <2>1 DEF Here
  <2>3. WellNested(program')
    <3>1. ASSUME NEW j \in 0..Len(program') PROVE Depth(program', j) >= 0
      <4>1. CASE j \in 0..Len(program)
        BY <4>1, <1>1, <2>1 DEF WellNested
      <4>2. CASE j = Len(program) + 1
        <5>1. Len(visits') = Depth(program', Len(program) + 1) /\ Len(visits') \in Nat
          <6>1. Len(visits') = Depth(program', Len(program) + 2 - 1) /\ Len(visits') \in Nat
            BY <1>2 DEF Stack
          <6>2. Len(program) + 2 - 1 = Len(program) + 1
            BY <1>1
          <6> QED
            BY <6>1, <6>2
        <5> QED
          BY <4>2, <5>1
      <4> QED
        BY <4>1, <4>2, <1>1, <2>1
    <3> QED
      BY <3>1 DEF WellNested
  <2> QED
    BY <1>2, <2>1, <2>2, <2>3 DEF Walk
<1>3. ASSUME phase = "parse"
      PROVE  /\ Stack(program, visits, Len(program) + 1)
             /\ Len(visits) = Depth(program, Len(program))
  <2>1. Stack(program, visits, Len(program) + 1)
    BY <1>3 DEF Walk, Here
  <2>2. Len(program) + 1 - 1 = Len(program)
    BY <1>1
  <2> QED
    BY <2>1, <2>2 DEF Stack
<1>4. ASSUME NEW s \in Statements, ParseStatement(s) PROVE Walk'
  <2>1. phase = "parse" /\ program' = Append(program, s) /\ UNCHANGED <<mode, phase, next>>
    BY <1>4 DEF ParseStatement
  <2>2. visits' = IF Opens(s) THEN Append(visits, Len(program) + 1) ELSE visits
    BY <1>4 DEF ParseStatement
  <2>3. s \in Statements \cup {Close} /\ s # Close
    <3>1. s \in Statement
      BY StatementsAssumption
    <3> QED
      BY <3>1 DEF Statement, Close
  <2>4. /\ program' \in Program
        /\ Len(program') = Len(program) + 1
        /\ program'[Len(program) + 1] = s
    BY <1>1, <2>1, <2>3, Appended
  <2>5. Stack(program', visits, Len(program) + 1)
    BY <1>1, <1>3, <2>1, <2>3, StackAppended
  <2>6. Len(program) + 1 \in 1..Len(program') /\ Len(program) + 1 + 1 = Len(program) + 2
    BY <1>1, <2>4
  <2>7. Stack(program', visits', Len(program) + 2)
    <3>1. CASE Opens(s)
      BY <3>1, <2>2, <2>4, <2>5, <2>6, StackOpen
    <3>2. CASE ~ Opens(s)
      BY <3>2, <2>2, <2>3, <2>4, <2>5, <2>6, StackSkip
    <3> QED
      BY <3>1, <3>2
  <2> QED
    BY <1>2, <2>1, <2>3, <2>7
<1>5. ASSUME ParseClose PROVE Walk'
  <2>1. /\ phase = "parse" /\ program' = Append(program, Close)
        /\ UNCHANGED <<mode, phase, next>>
        /\ visits # <<>> /\ visits' = Popped(visits, 1)
    BY <1>5 DEF ParseClose
  <2>2. Close \in Statements \cup {Close}
    OBVIOUS
  <2>3. /\ program' \in Program
        /\ Len(program') = Len(program) + 1
        /\ program'[Len(program) + 1] = Close
        /\ \A k \in 0..Len(program) : Depth(program', k) = Depth(program, k)
    BY <1>1, <2>1, <2>2, Appended
  <2>4. Stack(program', visits, Len(program) + 1)
    BY <1>1, <1>3, <2>1, <2>2, StackAppended
  <2>5. Len(program) + 1 \in 1..Len(program') /\ Len(program) + 1 + 1 = Len(program) + 2
    BY <1>1, <2>3
  <2>6. WellNested(program')
    <3>1. Len(visits) \in Nat \ {0}
      BY <2>1, WalkHere
    <3>2. Depth(program', Len(program) + 1) = Len(visits) - 1
      <4>1. Len(program) + 1 \in Nat \ {0} /\ Len(program) + 1 - 1 = Len(program)
        BY <1>1
      <4>2. Depth(program', Len(program) + 1) = Depth(program', Len(program)) - 1
        BY <4>1, <2>3, OneMove
      <4>3. Depth(program', Len(program)) = Len(visits)
        BY <1>1, <1>3, <2>1, <2>3
      <4> QED
        BY <4>2, <4>3
    <3>3. ASSUME NEW j \in 0..Len(program') PROVE Depth(program', j) >= 0
      <4>1. CASE j \in 0..Len(program)
        BY <4>1, <1>1, <2>3 DEF WellNested
      <4>2. CASE j = Len(program) + 1
        BY <4>2, <3>1, <3>2
      <4> QED
        BY <4>1, <4>2, <1>1, <2>3
    <3> QED
      BY <3>3 DEF WellNested
  <2>7. Stack(program', visits', Len(program) + 2)
    BY <2>1, <2>3, <2>4, <2>5, <2>6, StackClose
  <2> QED
    BY <1>2, <2>1, <2>2, <2>7
<1>6. ASSUME StartRun \/ StartBuild PROVE Walk'
  <2>1. /\ phase = "parse" /\ visits = <<>> /\ program' = program
        /\ <<mode', phase'>> \in {<<"Run", "declare">>, <<"Build", "generate">>}
        /\ visits' = <<>> /\ next' = 1
    BY <1>6 DEF StartRun, StartBuild, BeginPass
  <2>2. Depth(program, Len(program)) = 0
    BY <1>3, <2>1
  <2>3. Stack(program', visits', Here')
    BY <1>1, <2>1, StackStart DEF Here
  <2> QED
    BY <1>1, <2>1, <2>2, <2>3 DEF Walk, Passes, Outcomes
<1> QED
  BY <1>4, <1>5, <1>6

LEMMA WalkPass ==
  ASSUME Walk, PassStep
  PROVE  Walk'
<1>1. /\ UNCHANGED <<program, mode>>
      /\ phase \in Passes /\ phase' \in Passes \cup Outcomes
      /\ phase' \in {"declare", "check", "rejected"} => phase \in {"declare", "check"}
      /\ phase' = "refused" => mode = "Run"
      /\ Stays \/ Skips \/ Enters \/ Leaves \/ Jumps \/ Begins
  BY PassMoves
<1>2. program \in Program /\ WellNested(program) /\ Depth(program, Len(program)) = 0
  BY <1>1 DEF Walk, Passes
<1>3. Stack(program, visits, next) /\ Here' = next'
  BY <1>1 DEF Walk, Here, Passes, Outcomes
<1>4. Stack(program, visits', next')
  <2>1. CASE Stays
    BY <2>1, <1>3 DEF Stays
  <2>2. CASE Skips
    BY <2>2, <1>2, <1>3, StackSkip DEF Skips, Positions
  <2>3. CASE Enters
    BY <2>3, <1>2, <1>3, StackOpen DEF Enters, Enter, Positions
  <2>4. CASE Leaves
    BY <2>4, <1>2, <1>3, StackClose DEF Leaves, Leave, Positions
  <2>5. CASE Jumps
    BY <2>5, <1>2, <1>3, StackJump, AfterIsClosedAt DEF Jumps, Positions
  <2>6. CASE Begins
    BY <2>6, <1>2, StackStart DEF Begins
  <2> QED
    BY <1>1, <2>1, <2>2, <2>3, <2>4, <2>5, <2>6
<1>5. mode # "none" /\ phase' # "parse"
  BY <1>1 DEF Walk, Passes, Outcomes
<1> QED
  BY <1>1, <1>2, <1>3, <1>4, <1>5 DEF Walk

LEMMA NextSteps ==
  ASSUME [Next]_vars
  PROVE  \/ \E s \in Statements : ParseStatement(s)
         \/ ParseClose \/ StartRun \/ StartBuild \/ PassStep \/ UNCHANGED vars
BY DEF Next, PassStep

LEMMA WalkNext == Walk /\ [Next]_vars => Walk'
<1> SUFFICES ASSUME Walk, [Next]_vars PROVE Walk'
  OBVIOUS
<1>1. CASE UNCHANGED vars
  <2>1. Here' = Here
    BY <1>1 DEF vars, Here
  <2> QED
    BY <1>1, <2>1 DEF Walk, vars
<1> QED
  BY <1>1, NextSteps, WalkParse, WalkPass

LEMMA WalkAlways == Spec => []Walk
<1> QED
  BY WalkInit, WalkNext, PTL DEF Spec

(***************************************************************************)
(* The tables.                                                             *)
(***************************************************************************)
Table(kind) == [Names -> [kind : {kind}, id : Positions] \cup {Absent}]
Scope == [swa : Table("Variable"), llvm : Table("Value")]

(* What Found answers is innermost.                                        *)
LEMMA FoundIsInnermost ==
  ASSUME NEW ss \in Seq(Scope), NEW map \in {"swa", "llvm"}, NEW n \in Names,
         NEW g, g[n] \in Entries
  PROVE  /\ Found(ss, map, g, n) \in Entries
         /\ \/ \E i \in 1..Len(ss) :
                 /\ ss[i][map][n] # Absent
                 /\ Found(ss, map, g, n) = ss[i][map][n]
                 /\ \A j \in (i + 1)..Len(ss) : ss[j][map][n] = Absent
            \/ /\ \A i \in 1..Len(ss) : ss[i][map][n] = Absent
               /\ Found(ss, map, g, n) = g[n]
<1> DEFINE innermost(e) ==
             \/ \E i \in 1..Len(ss) :
                  /\ ss[i][map][n] # Absent
                  /\ e = ss[i][map][n]
                  /\ \A j \in (i + 1)..Len(ss) : ss[j][map][n] = Absent
             \/ /\ \A i \in 1..Len(ss) : ss[i][map][n] = Absent
                /\ e = g[n]
<1>1. \A e : Tables(ss)!Innermost(n, map, g, e) <=> innermost(e)
  BY DEF Tables!Innermost, Tables!Absent, Absent
<1>2. Len(ss) \in Nat
  OBVIOUS
<1>3. \E e \in Entries : innermost(e)
  <2> DEFINE holding == {i \in 1..Len(ss) : ss[i][map][n] # Absent}
  <2>1. CASE holding = {}
    BY <2>1
  <2>2. CASE holding # {}
    <3>1. holding \in SUBSET (0..Len(ss))
      BY <1>2
    <3>2. PICK i \in holding : \A k \in holding : k <= i
      <4> HIDE DEF holding
      <4> QED
        BY <1>2, <2>2, <3>1, Greatest
    <3>3. ASSUME NEW j \in (i + 1)..Len(ss) PROVE ss[j][map][n] = Absent
      <4>1. j \in 1..Len(ss) /\ ~ (j <= i)
        BY <1>2
      <4> QED
        BY <3>2, <4>1
    <3>4. ss[i] \in Scope
      OBVIOUS
    <3>5. ss[i][map][n] \in Entries
      BY <3>4 DEF Scope, Table, Entries
    <3> QED
      BY <3>2, <3>3, <3>5
  <2> QED
    BY <2>1, <2>2
<1>4. Found(ss, map, g, n) = CHOOSE e \in Entries : innermost(e)
  BY <1>1 DEF Found
<1>5. Found(ss, map, g, n) \in Entries /\ innermost(Found(ss, map, g, n))
  <2> HIDE DEF innermost
  <2> QED
    BY <1>3, <1>4
<1> QED
  BY <1>5

LEMMA NoEntriesTyped ==
  /\ NoEntries \in Table("Variable") /\ NoEntries \in Table("Value")
  /\ EmptyScope \in Scope
  /\ \A n \in Names : NoEntries[n] \in Entries
BY DEF NoEntries, Table, EmptyScope, Scope, Entries

(* The scopes the generator has open for the first k visits: two for a     *)
(* function, its parameters and its body, one for a block.                 *)
FuncsTo(text, v, k) == {i \in 1..k : text[v[i]].kind = "func"}
Frames(text, v, k) == k + Cardinality(FuncsTo(text, v, k))

LEMMA FramesStep ==
  ASSUME NEW text, NEW v
  PROVE  /\ Frames(text, v, 0) = 0
         /\ \A k \in Nat : Frames(text, v, k) \in Nat /\ Frames(text, v, k) >= k
         /\ \A k \in Nat \ {0} :
              Frames(text, v, k) = Frames(text, v, k - 1)
                                     + (IF text[v[k]].kind = "func" THEN 2 ELSE 1)
<1>1. ASSUME NEW k \in Nat
      PROVE  /\ IsFiniteSet(FuncsTo(text, v, k))
             /\ Cardinality(FuncsTo(text, v, k)) \in Nat
  <2>1. IsFiniteSet(1..k)
    BY FS_Interval
  <2>2. FuncsTo(text, v, k) \in SUBSET (1..k)
    BY DEF FuncsTo
  <2> QED
    BY <2>1, <2>2, FS_Subset, FS_CardinalityType
<1>2. Frames(text, v, 0) = 0
  <2>1. FuncsTo(text, v, 0) = {}
    BY DEF FuncsTo
  <2> QED
    BY <2>1, FS_EmptySet DEF Frames
<1>3. ASSUME NEW k \in Nat PROVE Frames(text, v, k) \in Nat /\ Frames(text, v, k) >= k
  BY <1>1 DEF Frames
<1>4. ASSUME NEW k \in Nat \ {0}
      PROVE  Frames(text, v, k) = Frames(text, v, k - 1)
                                    + (IF text[v[k]].kind = "func" THEN 2 ELSE 1)
  <2>1. k - 1 \in Nat /\ k \notin 1..(k - 1) /\ 1..k = (1..(k - 1)) \cup {k}
    OBVIOUS
  <2>2. CASE text[v[k]].kind = "func"
    <3>1. FuncsTo(text, v, k) = FuncsTo(text, v, k - 1) \cup {k}
      BY <2>1, <2>2 DEF FuncsTo
    <3>2. k \notin FuncsTo(text, v, k - 1)
      BY <2>1 DEF FuncsTo
    <3>3. Cardinality(FuncsTo(text, v, k)) = Cardinality(FuncsTo(text, v, k - 1)) + 1
      BY <1>1, <2>1, <3>1, <3>2, FS_AddElement
    <3>4. Cardinality(FuncsTo(text, v, k - 1)) \in Nat
      BY <1>1, <2>1
    <3> QED
      BY <2>2, <3>3, <3>4 DEF Frames
  <2>3. CASE text[v[k]].kind # "func"
    <3>1. FuncsTo(text, v, k) = FuncsTo(text, v, k - 1)
      BY <2>1, <2>3 DEF FuncsTo
    <3>2. Cardinality(FuncsTo(text, v, k - 1)) \in Nat
      BY <1>1, <2>1
    <3> QED
      BY <2>3, <3>1, <3>2 DEF Frames
  <2> QED
    BY <2>2, <2>3
<1> QED
  BY <1>2, <1>3, <1>4

LEMMA FramesOfPrefix ==
  ASSUME NEW text, NEW v, NEW w, NEW k \in Nat, \A i \in 1..k : w[i] = v[i]
  PROVE  Frames(text, w, k) = Frames(text, v, k)
<1>1. FuncsTo(text, w, k) = FuncsTo(text, v, k)
  BY DEF FuncsTo
<1> QED
  BY <1>1 DEF Frames

(* Frames of a stack that grows and of one that shrinks.                   *)
LEMMA FramesOfAppend ==
  ASSUME NEW text, NEW v \in Seq(Nat), NEW c \in Nat
  PROVE  /\ Len(Append(v, c)) = Len(v) + 1
         /\ Frames(text, Append(v, c), Len(v) + 1)
              = Frames(text, v, Len(v)) + (IF text[c].kind = "func" THEN 2 ELSE 1)
         /\ \A k \in 0..Len(v) : Frames(text, Append(v, c), k) = Frames(text, v, k)
<1> SUFFICES ASSUME NEW w, w = Append(v, c)
             PROVE  /\ Len(w) = Len(v) + 1
                    /\ Frames(text, w, Len(v) + 1)
                         = Frames(text, v, Len(v)) + (IF text[c].kind = "func" THEN 2 ELSE 1)
                    /\ \A k \in 0..Len(v) : Frames(text, w, k) = Frames(text, v, k)
  OBVIOUS
<1>1. Len(v) \in Nat /\ Len(w) = Len(v) + 1 /\ w[Len(v) + 1] = c
      /\ \A i \in 1..Len(v) : w[i] = v[i]
  OBVIOUS
<1>2. ASSUME NEW k \in 0..Len(v) PROVE Frames(text, w, k) = Frames(text, v, k)
  <2>1. k \in Nat /\ \A i \in 1..k : w[i] = v[i]
    BY <1>1
  <2> QED
    BY <2>1, FramesOfPrefix
<1>3. Len(v) + 1 \in Nat \ {0} /\ Len(v) + 1 - 1 = Len(v) /\ Len(v) \in 0..Len(v)
  BY <1>1
<1>4. Frames(text, w, Len(v) + 1)
        = Frames(text, w, Len(v)) + (IF text[w[Len(v) + 1]].kind = "func" THEN 2 ELSE 1)
  <2>1. \A m \in Nat \ {0} : Frames(text, w, m)
          = Frames(text, w, m - 1) + (IF text[w[m]].kind = "func" THEN 2 ELSE 1)
    BY FramesStep
  <2> QED
    BY <2>1, <1>3
<1>5. Frames(text, w, Len(v)) = Frames(text, v, Len(v))
  BY <1>2, <1>3
<1> QED
  BY <1>1, <1>2, <1>4, <1>5

LEMMA FramesOfPopped ==
  ASSUME NEW text, NEW v \in Seq(Nat), v # <<>>
  PROVE  /\ Popped(v, 1) \in Seq(Nat)
         /\ Len(v) \in Nat \ {0} /\ Len(Popped(v, 1)) = Len(v) - 1
         /\ \A i \in 1..(Len(v) - 1) : Popped(v, 1)[i] = v[i]
         /\ Frames(text, Popped(v, 1), Len(v) - 1)
              = Frames(text, v, Len(v)) - (IF text[v[Len(v)]].kind = "func" THEN 2 ELSE 1)
         /\ \A k \in 0..(Len(v) - 1) : Frames(text, Popped(v, 1), k) = Frames(text, v, k)
<1> DEFINE w == Popped(v, 1)
<1>1. Len(v) \in Nat \ {0} /\ Len(v) - 1 \in Nat /\ Len(v) - 1 \in 0..Len(v)
  OBVIOUS
<1>2. w \in Seq(Nat) /\ Len(w) = Len(v) - 1 /\ \A i \in 1..(Len(v) - 1) : w[i] = v[i]
  <2>1. 1 \in 0..Len(v)
    BY <1>1
  <2> QED
    BY <2>1, PoppedIs
<1> HIDE DEF w
<1>3. ASSUME NEW k \in 0..(Len(v) - 1) PROVE Frames(text, w, k) = Frames(text, v, k)
  <2>1. k \in Nat /\ \A i \in 1..k : w[i] = v[i]
    BY <1>1, <1>2
  <2> QED
    BY <2>1, FramesOfPrefix
<1>4. Frames(text, v, Len(v))
        = Frames(text, v, Len(v) - 1) + (IF text[v[Len(v)]].kind = "func" THEN 2 ELSE 1)
  BY <1>1, FramesStep
<1>5. Frames(text, w, Len(v) - 1) = Frames(text, v, Len(v) - 1)
  BY <1>1, <1>3
<1>6. Frames(text, v, Len(v) - 1) \in Nat
  BY <1>1, FramesStep
<1> QED
  BY <1>1, <1>2, <1>3, <1>4, <1>5, <1>6 DEF w

(* Which actions change what.                                              *)
LEMMA PassChanges ==
  ASSUME PassStep
  PROVE  /\ functions' = functions \/ DeclareFunction \/ CheckFunction
         /\ module' = module \/ DeclareFunction \/ GenerateLet \/ GenerateFunction
         /\ InsideFunction' = InsideFunction \/ GenerateFunction \/ GenerateClose
         /\ UNCHANGED <<errors, checked>> \/ CheckLet \/ CheckPrint
         /\ generated' = generated \/ GenerateLet \/ GeneratePrint \/ GenerateReturn
<1>1. CASE DeclareFunction \/ DeclareBlock \/ DeclareClose \/ DeclareSkip \/ DeclareEnd
  BY <1>1 DEF DeclareFunction, DeclareBlock, DeclareClose, DeclareSkip, DeclareEnd
<1>2. CASE \/ CheckLet \/ CheckPrint \/ CheckReturn \/ CheckFunction \/ CheckBlock
           \/ CheckClose \/ CheckErrors \/ CheckEnd
  BY <1>2 DEF CheckLet, CheckPrint, CheckReturn, CheckFunction, CheckBlock, CheckClose,
              CheckErrors, CheckEnd
<1>3. CASE \/ GenerateUndefined \/ GenerateThrow \/ GenerateLet \/ GeneratePrint
           \/ GenerateReturn \/ GenerateFunction \/ GenerateBlock \/ GenerateClose
           \/ GenerateEnd
  BY <1>3 DEF GenerateUndefined, GenerateThrow, GenerateLet, GeneratePrint, GenerateReturn,
              GenerateFunction, GenerateBlock, GenerateClose, GenerateEnd
<1> QED
  BY <1>1, <1>2, <1>3 DEF PassStep

LEMMA EarlySteps ==
  ASSUME PassStep, phase \in {"declare", "check"}
  PROVE  \/ DeclareFunction \/ DeclareBlock \/ DeclareClose \/ DeclareSkip \/ DeclareEnd
         \/ CheckLet \/ CheckPrint \/ CheckReturn \/ CheckFunction \/ CheckBlock
         \/ CheckClose \/ CheckErrors \/ CheckEnd
BY DEF PassStep, GenerateUndefined, GenerateThrow, GenerateLet, GeneratePrint, GenerateReturn,
       GenerateFunction, GenerateBlock, GenerateClose, GenerateEnd, Generating, Visiting,
       Finished

LEMMA LateSteps ==
  ASSUME PassStep, phase = "generate"
  PROVE  \/ GenerateUndefined \/ GenerateThrow \/ GenerateLet \/ GeneratePrint
         \/ GenerateReturn \/ GenerateFunction \/ GenerateBlock \/ GenerateClose
         \/ GenerateEnd
BY DEF PassStep, DeclareFunction, DeclareBlock, DeclareClose, DeclareSkip, DeclareEnd,
       CheckLet, CheckPrint, CheckReturn, CheckFunction, CheckBlock, CheckClose,
       CheckErrors, CheckEnd, Visiting, Finished

Free == [kind |-> "free", id |-> 0]
ModuleEntry == [kind : {"function", "global"}, id : Positions] \cup {Free}

Tabled ==
  /\ functions \in Table("Function")
  /\ module \in [Names -> ModuleEntry]
  /\ InsideFunction \in BOOLEAN /\ errors \in BOOLEAN
  /\ phase = "parse" =>
       /\ scopes = <<>> /\ functions = NoEntries
       /\ module = [n \in Names |-> Free]
       /\ ~ InsideFunction /\ ~ errors
  /\ mode # "none" =>
       /\ checked \in [Positions -> Binding({"Variable", "Function"})]
       /\ generated \in [Positions -> Binding({"Value", "Function"})]

(* From the generation on a function has two scopes.                       *)
Late == mode = "Build" \/ phase \in {"generate", "refused", "aborted", "undefined", "generated"}

Counted ==
  mode # "none" =>
    /\ scopes \in Seq(Scope)
    /\ Len(scopes) = 1 + (IF Late THEN Frames(program, visits, Len(visits)) ELSE Len(visits))

LEMMA CheckedTyped ==
  ASSUME Walk, Tabled, Counted, mode # "none", program' = program, next \in Positions,
         NEW ss \in Seq(Scope), NEW u \in Uses, Check(ss, u)
  PROVE  /\ errors' \in BOOLEAN
         /\ checked' \in [Positions -> Binding({"Variable", "Function"})]
<1>1. CASE u = Literal
  BY <1>1 DEF Check, Tabled
<1>2. CASE u # Literal
  <2> DEFINE e == Found(ss, "swa", functions, u.name)
  <2>1. u.name \in Names
    BY <1>2 DEF Uses
  <2>2. functions[u.name] \in [kind : {"Function"}, id : Positions] \cup {Absent}
    BY <2>1 DEF Tabled, Table
  <2>3. functions[u.name] \in Entries
    BY <2>2 DEF Entries
  <2>4. \A i \in 1..Len(ss) :
          ss[i].swa[u.name] \in [kind : {"Variable"}, id : Positions] \cup {Absent}
    <3>1. \A i \in 1..Len(ss) : ss[i] \in Scope
      OBVIOUS
    <3>2. \A i \in 1..Len(ss) : ss[i].swa \in Table("Variable")
      BY <3>1 DEF Scope
    <3> QED
      BY <2>1, <3>2 DEF Table
  <2>5. \A i \in 1..Len(ss) : ss[i]["swa"] = ss[i].swa
    OBVIOUS
  <2>6. (\E i \in 1..Len(ss) : e = ss[i].swa[u.name]) \/ e = functions[u.name]
    BY <2>1, <2>3, <2>5, FoundIsInnermost
  <2>7. e \in Binding({"Variable", "Function"})
    <3> HIDE DEF e
    <3> QED
      BY <2>2, <2>4, <2>6 DEF Binding
  <2>8. checked' = [checked EXCEPT ![next] = e] /\ errors' = (errors \/ e = Absent)
    BY <1>2 DEF Check
  <2> HIDE DEF e
  <2>9. errors' \in BOOLEAN
    BY <2>8
  <2> QED
    BY <2>7, <2>8, <2>9 DEF Tabled
<1> QED
  BY <1>1, <1>2

LEMMA DeclaredTyped ==
  ASSUME NEW ss \in Seq(Scope), ss # <<>>, NEW n \in Names, NEW i \in Positions
  PROVE  /\ Declared(ss, "swa", n, [kind |-> "Variable", id |-> i]) \in Seq(Scope)
         /\ Len(Declared(ss, "swa", n, [kind |-> "Variable", id |-> i])) = Len(ss)
         /\ Declared(ss, "llvm", n, [kind |-> "Value", id |-> i]) \in Seq(Scope)
         /\ Len(Declared(ss, "llvm", n, [kind |-> "Value", id |-> i])) = Len(ss)
<1>1. Len(ss) \in Nat \ {0} /\ Len(ss) \in 1..Len(ss) /\ ss[Len(ss)] \in Scope
  OBVIOUS
<1>2. [ss[Len(ss)] EXCEPT !["swa"][n] = [kind |-> "Variable", id |-> i]] \in Scope
  BY <1>1 DEF Scope, Table
<1>3. [ss[Len(ss)] EXCEPT !["llvm"][n] = [kind |-> "Value", id |-> i]] \in Scope
  BY <1>1 DEF Scope, Table
<1> QED
  BY <1>1, <1>2, <1>3 DEF Declared

LEMMA ResolutionTyped ==
  ASSUME Walk, Tabled, Counted, mode # "none", NEW u \in Uses
  PROVE  Resolution(u) \in Binding({"Value", "Function"})
<1>1. CASE u.kind = "literal"
  BY <1>1 DEF Resolution, Binding
<1>2. CASE u.kind = "id"
  <2> DEFINE e == Found(scopes, "llvm", NoEntries, u.name)
  <2>1. u.name \in Names
    BY <1>2 DEF Uses, Literal
  <2>2. NoEntries[u.name] = Absent /\ Absent \in Entries
    BY <2>1 DEF NoEntries, Entries
  <2>3. scopes \in Seq(Scope)
    BY DEF Counted
  <2>4. \A i \in 1..Len(scopes) :
          scopes[i].llvm[u.name] \in [kind : {"Value"}, id : Positions] \cup {Absent}
    <3>1. \A i \in 1..Len(scopes) : scopes[i] \in Scope
      BY <2>3
    <3>2. \A i \in 1..Len(scopes) : scopes[i].llvm \in Table("Value")
      BY <3>1 DEF Scope
    <3> QED
      BY <2>1, <3>2 DEF Table
  <2>5. \A i \in 1..Len(scopes) : scopes[i]["llvm"] = scopes[i].llvm
    OBVIOUS
  <2>6. (\E i \in 1..Len(scopes) : e = scopes[i].llvm[u.name]) \/ e = Absent
    BY <2>1, <2>2, <2>3, <2>5, FoundIsInnermost
  <2>7. e \in Binding({"Value", "Function"})
    <3> HIDE DEF e
    <3> QED
      BY <2>4, <2>6 DEF Binding
  <2> QED
    BY <1>2, <2>7 DEF Resolution
<1>3. CASE u.kind = "call"
  <2>1. u.name \in Names
    BY <1>3 DEF Uses, Literal
  <2>2. module[u.name].kind = "function" => module[u.name].id \in Positions
    BY <2>1 DEF Tabled, ModuleEntry, Free
  <2> QED
    BY <1>3, <2>2 DEF Resolution, Binding
<1> QED
  BY <1>1, <1>2, <1>3 DEF Uses, Literal

LEMMA TabledPass ==
  ASSUME Walk, Tabled, Counted, PassStep
  PROVE  Tabled'
<1>1. /\ UNCHANGED <<program, mode>> /\ mode # "none" /\ phase' # "parse"
      /\ Positions' = Positions
  BY PassMoves DEF Walk, Passes, Outcomes, Positions
<1>2. functions' \in Table("Function")
  <2>1. CASE DeclareFunction \/ CheckFunction
    <3>1. next \in Positions /\ program[next].name \in Names
      BY <2>1, KindAtNext DEF DeclareFunction, CheckFunction, Visiting
    <3>2. functions' = [functions EXCEPT ![program[next].name] = [kind |-> "Function", id |-> next]]
      BY <2>1 DEF DeclareFunction, CheckFunction
    <3> QED
      BY <3>1, <3>2 DEF Tabled, Table
  <2> QED
    BY <2>1, PassChanges DEF Tabled
<1>3. module' \in [Names -> ModuleEntry]
  <2>1. CASE DeclareFunction \/ GenerateFunction
    <3>1. next \in Positions /\ program[next].name \in Names
      BY <2>1, KindAtNext DEF DeclareFunction, GenerateFunction, Generating, Visiting
    <3>2. module' = NamedFunction(module, program[next].name, next)
      BY <2>1 DEF DeclareFunction, GenerateFunction
    <3> QED
      BY <3>1, <3>2 DEF Tabled, NamedFunction, ModuleEntry
  <2>2. CASE GenerateLet
    <3>1. next \in Positions /\ program[next].name \in Names
      BY <2>2, KindAtNext DEF GenerateLet, Generating, Visiting
    <3>2. \/ module' = module
          \/ module' = [module EXCEPT ![program[next].name] = [kind |-> "global", id |-> next]]
      BY <2>2 DEF GenerateLet
    <3> QED
      BY <3>1, <3>2 DEF Tabled, ModuleEntry
  <2> QED
    BY <2>1, <2>2, PassChanges DEF Tabled
<1>4. InsideFunction' \in BOOLEAN
  BY PassChanges DEF Tabled, GenerateFunction, GenerateClose
<1>5. errors' \in BOOLEAN /\ checked' \in [Positions -> Binding({"Variable", "Function"})]
  <2>1. CASE CheckLet
    <3>1. /\ next \in Positions /\ program[next].name \in Names
          /\ program[next].use \in Uses
      BY <2>1, KindAtNext DEF CheckLet, Visiting
    <3>2. PICK ss : /\ ss = Declared(scopes, "swa", program[next].name,
                                     [kind |-> "Variable", id |-> next])
                    /\ Check(ss, program[next].use)
      BY <2>1 DEF CheckLet
    <3>3. scopes \in Seq(Scope) /\ scopes # <<>>
      <4>1. scopes \in Seq(Scope) /\ Len(scopes) >= 1
        <5>1. Len(visits) \in Nat /\ Frames(program, visits, Len(visits)) \in Nat
          BY WalkHere, FramesStep
        <5> QED
          BY <1>1, <5>1 DEF Counted
      <4> QED
        BY <4>1
    <3>4. ss \in Seq(Scope)
      BY <3>1, <3>2, <3>3, DeclaredTyped
    <3> QED
      BY <1>1, <3>1, <3>2, <3>4, CheckedTyped
  <2>2. CASE CheckPrint
    <3>1. next \in Positions /\ program[next].use \in Uses /\ Check(scopes, program[next].use)
      BY <2>2, KindAtNext DEF CheckPrint, Visiting
    <3>2. scopes \in Seq(Scope)
      BY <1>1 DEF Counted
    <3> QED
      BY <1>1, <3>1, <3>2, CheckedTyped
  <2> QED
    BY <1>1, <2>1, <2>2, PassChanges DEF Tabled
<1>6. generated' \in [Positions -> Binding({"Value", "Function"})]
  <2>1. CASE GenerateLet \/ GeneratePrint \/ GenerateReturn
    <3>1. /\ next \in Positions /\ program[next].use \in Uses
          /\ generated' = [generated EXCEPT ![next] = Resolution(program[next].use)]
      BY <2>1, KindAtNext
         DEF GenerateLet, GeneratePrint, GenerateReturn, Generating, Visiting, Evaluate
    <3>2. Resolution(program[next].use) \in Binding({"Value", "Function"})
      BY <1>1, <3>1, ResolutionTyped
    <3> QED
      BY <1>1, <3>1, <3>2 DEF Tabled
  <2> QED
    BY <1>1, <2>1, PassChanges DEF Tabled
<1>7. /\ Table("Function")' = Table("Function") /\ ModuleEntry' = ModuleEntry
      /\ Binding({"Variable", "Function"})' = Binding({"Variable", "Function"})
      /\ Binding({"Value", "Function"})' = Binding({"Value", "Function"})
  BY <1>1 DEF Table, ModuleEntry, Binding
<1> QED
  BY <1>1, <1>2, <1>3, <1>4, <1>5, <1>6, <1>7 DEF Tabled

(* A pass before the generation: one scope for each visit.                 *)
LEMMA CountedEarly ==
  ASSUME Walk, Tabled, Counted, phase \in {"declare", "check"}, PassStep
  PROVE  Counted'
<1>1. /\ UNCHANGED <<program, mode>> /\ mode = "Run" /\ ~ Late
      /\ Scope' = Scope /\ visits \in Seq(Nat) /\ Len(visits) \in Nat
  <2>1. UNCHANGED <<program, mode>> /\ mode = "Run"
    BY PassMoves DEF Walk
  <2>2. visits \in Seq(Positions) /\ Positions \in SUBSET Nat
    BY WalkHere DEF Positions
  <2> QED
    BY <2>1, <2>2 DEF Scope, Table, Positions, Late
<1>2. scopes \in Seq(Scope) /\ Len(scopes) = 1 + Len(visits)
  BY <1>1 DEF Counted
<1>3. ASSUME scopes' \in Seq(Scope), Len(scopes') = 1 + Len(visits'),
             phase' \in {"declare", "check", "rejected"}
      PROVE  Counted'
  BY <1>1, <1>3 DEF Counted, Late
<1>4. CASE \/ DeclareFunction \/ DeclareSkip \/ CheckPrint \/ CheckReturn \/ CheckErrors
  BY <1>1, <1>2, <1>3, <1>4
     DEF DeclareFunction, DeclareSkip, CheckPrint, CheckReturn, CheckErrors, Visiting
<1>5. CASE DeclareBlock \/ CheckBlock \/ CheckFunction
  <2>1. /\ scopes' = Append(scopes, EmptyScope) /\ visits' = Append(visits, next)
        /\ phase' = phase
    BY <1>5 DEF DeclareBlock, CheckBlock, CheckFunction, Enter
  <2>2. scopes' \in Seq(Scope) /\ Len(scopes') = 1 + Len(visits')
    BY <1>1, <1>2, <2>1, NoEntriesTyped
  <2> QED
    BY <1>3, <2>1, <2>2
<1>6. CASE DeclareClose \/ CheckClose
  <2>1. /\ scopes' = Popped(scopes, 1) /\ visits' = Popped(visits, 1) /\ phase' = phase
        /\ next \in Positions /\ program[next].kind = "close"
    BY <1>6 DEF DeclareClose, CheckClose, Leave, Visiting
  <2>2. visits # <<>> /\ Len(visits) - 1 \in Nat
    <3>1. program[next] = Close
      BY <2>1, KindAtNext
    <3>2. Stack(program, visits, next) /\ program \in Program /\ WellNested(program)
      BY DEF Walk, Here
    <3> QED
      BY <2>1, <3>1, <3>2, StackClose DEF Positions
  <2>3. 1 \in 0..Len(scopes) /\ 1 \in 0..Len(visits)
    BY <1>1, <1>2, <2>2
  <2>4. /\ scopes' \in Seq(Scope) /\ Len(scopes') = Len(scopes) - 1
        /\ Len(visits') = Len(visits) - 1
    BY <1>1, <1>2, <2>1, <2>3, PoppedIs
  <2> QED
    BY <1>1, <1>2, <1>3, <2>1, <2>4
<1>7. CASE CheckLet
  <2>1. /\ next \in Positions /\ program[next].name \in Names
    BY <1>7, KindAtNext DEF CheckLet, Visiting
  <2>2. /\ scopes' = Declared(scopes, "swa", program[next].name,
                              [kind |-> "Variable", id |-> next])
        /\ visits' = visits /\ phase' = phase
    BY <1>7 DEF CheckLet
  <2>3. scopes # <<>>
    BY <1>1, <1>2
  <2>4. scopes' \in Seq(Scope) /\ Len(scopes') = Len(scopes)
    BY <1>2, <2>1, <2>2, <2>3, DeclaredTyped
  <2> QED
    BY <1>2, <1>3, <2>2, <2>4
<1>8. CASE DeclareEnd \/ CheckEnd
  <2>1. scopes' = <<EmptyScope>> /\ visits' = <<>> /\ phase' \in {"check", "generate"}
    BY <1>8 DEF DeclareEnd, CheckEnd, BeginPass
  <2>2. scopes' \in Seq(Scope) /\ Len(scopes') = 1 /\ Len(visits') = 0
    BY <2>1, NoEntriesTyped
  <2>3. Frames(program', visits', 0) = 0
    BY FramesStep
  <2> QED
    BY <1>1, <2>1, <2>2, <2>3 DEF Counted
<1> QED
  BY <1>4, <1>5, <1>6, <1>7, <1>8, EarlySteps

(* What a close finds at the end of the stack of visits.                   *)
LEMMA AtClose ==
  ASSUME Walk, next \in Positions, program[next].kind = "close", phase # "parse"
  PROVE  /\ visits # <<>> /\ Len(visits) \in Nat \ {0} /\ Len(visits) - 1 \in Nat
         /\ visits[Len(visits)] \in Positions /\ Opens(Innermost)
<1>1. program[next] = Close
  BY KindAtNext
<1>2. Stack(program, visits, next) /\ program \in Program /\ WellNested(program)
  BY DEF Walk, Here
<1>3. visits # <<>> /\ Len(visits) - 1 \in Nat
  BY <1>1, <1>2, StackClose DEF Positions
<1>4. Len(visits) \in Nat /\ Len(visits) \in 1..Len(visits)
  BY <1>3, WalkHere
<1> QED
  BY <1>3, <1>4, WalkHere DEF Innermost

(* The generation: one scope for each block and two for each function.     *)
LEMMA CountedLate ==
  ASSUME Walk, Tabled, Counted, phase = "generate", PassStep
  PROVE  Counted'
<1> DEFINE open == Frames(program, visits, Len(visits))
<1>1. /\ UNCHANGED <<program, mode>> /\ mode # "none" /\ Late
      /\ Scope' = Scope /\ visits \in Seq(Nat) /\ Len(visits) \in Nat
      /\ open \in Nat /\ open >= Len(visits)
  <2>1. UNCHANGED <<program, mode>> /\ mode # "none"
    BY PassMoves DEF Walk
  <2>2. visits \in Seq(Positions) /\ Positions \in SUBSET Nat /\ Len(visits) \in Nat
    BY WalkHere DEF Positions
  <2>3. open \in Nat /\ open >= Len(visits)
    BY <2>2, FramesStep
  <2>4. Late
    BY DEF Late
  <2>5. Scope' = Scope
    BY <2>1 DEF Scope, Table, Positions
  <2>6. visits \in Seq(Nat)
    BY <2>2 DEF Positions
  <2> QED
    BY <2>1, <2>2, <2>3, <2>4, <2>5, <2>6
<1>2. scopes \in Seq(Scope) /\ Len(scopes) = 1 + open
  BY <1>1 DEF Counted
<1> HIDE DEF open
<1>3. ASSUME scopes' \in Seq(Scope),
             Len(scopes') = 1 + Frames(program, visits', Len(visits')),
             phase' \in {"generate", "refused", "aborted", "undefined", "generated"}
      PROVE  Counted'
  BY <1>1, <1>3 DEF Counted, Late
<1>4. CASE GenerateUndefined \/ GenerateThrow \/ GeneratePrint \/ GenerateReturn \/ GenerateEnd
  BY <1>1, <1>2, <1>3, <1>4
     DEF GenerateUndefined, GenerateThrow, GeneratePrint, GenerateReturn, GenerateEnd, open
<1>5. CASE GenerateLet
  <2>1. /\ next \in Positions /\ program[next].name \in Names
    BY <1>5, KindAtNext DEF GenerateLet, Generating, Visiting
  <2>2. /\ scopes' = Declared(scopes, "llvm", program[next].name,
                              [kind |-> "Value", id |-> next])
        /\ visits' = visits /\ phase' = phase
    BY <1>5 DEF GenerateLet
  <2>3. scopes # <<>>
    BY <1>1, <1>2
  <2>4. scopes' \in Seq(Scope) /\ Len(scopes') = Len(scopes)
    BY <1>2, <2>1, <2>2, <2>3, DeclaredTyped
  <2> QED
    BY <1>2, <1>3, <2>2, <2>4 DEF open
<1>6. CASE GenerateBlock
  <2>1. /\ scopes' = Append(scopes, EmptyScope) /\ visits' = Append(visits, next)
        /\ phase' = phase /\ program[next].kind = "block" /\ next \in Nat
    BY <1>6, WalkHere DEF GenerateBlock, Generating, Visiting, Enter
  <2>2. scopes' \in Seq(Scope) /\ Len(scopes') = 2 + open
    BY <1>1, <1>2, <2>1, NoEntriesTyped
  <2>3. Frames(program, visits', Len(visits')) = open + 1
    BY <1>1, <2>1, FramesOfAppend DEF open
  <2> QED
    BY <1>1, <1>3, <2>1, <2>2, <2>3
<1>7. CASE GenerateFunction
  <2>1. PICK parameters \in Scope : scopes' = scopes \o <<parameters, EmptyScope>>
    <3>1. /\ next \in Positions /\ program[next].param \in Names \cup {NoName}
      BY <1>7, KindAtNext DEF GenerateFunction, Generating, Visiting
    <3>2. EmptyScope \in Scope
      BY NoEntriesTyped
    <3>3. [EmptyScope EXCEPT !.llvm[program[next].param] = [kind |-> "Value", id |-> next]]
            \in Scope
      BY <3>1, <3>2 DEF Scope, Table
    <3> QED
      BY <1>7, <3>2, <3>3 DEF GenerateFunction
  <2>2. /\ visits' = Append(visits, next) /\ phase' = phase
        /\ program[next].kind = "func" /\ next \in Nat
    BY <1>7, WalkHere DEF GenerateFunction, Generating, Visiting, Enter
  <2>3. scopes' \in Seq(Scope) /\ Len(scopes') = 3 + open
    <3>1. <<parameters, EmptyScope>> \in Seq(Scope) /\ Len(<<parameters, EmptyScope>>) = 2
      BY <2>1, NoEntriesTyped
    <3>2. scopes' \in Seq(Scope)
            /\ Len(scopes') = Len(scopes) + Len(<<parameters, EmptyScope>>)
      BY <1>2, <2>1, <3>1, ConcatProperties
    <3> QED
      BY <1>1, <1>2, <3>1, <3>2
  <2>4. Frames(program, visits', Len(visits')) = open + 2
    BY <1>1, <2>2, FramesOfAppend DEF open
  <2> QED
    BY <1>1, <1>3, <2>2, <2>3, <2>4
<1>8. CASE GenerateClose
  <2>1. /\ visits' = Popped(visits, 1) /\ phase' = phase
        /\ next \in Positions /\ program[next].kind = "close"
        /\ scopes' = Popped(scopes, IF Innermost.kind = "func" THEN 2 ELSE 1)
    BY <1>8 DEF GenerateClose, Leave, Generating, Visiting
  <2>2. visits # <<>> /\ Len(visits) - 1 \in Nat
    BY <1>1, <2>1, AtClose
  <2> DEFINE n == IF Innermost.kind = "func" THEN 2 ELSE 1
  <2>3. /\ Len(visits') = Len(visits) - 1
        /\ Frames(program, visits', Len(visits')) = open - n
    BY <1>1, <2>1, <2>2, FramesOfPopped DEF open, Innermost
  <2>4. Frames(program, visits', Len(visits')) \in Nat
    BY <2>2, <2>3, FramesStep
  <2>5. n \in {1, 2}
    OBVIOUS
  <2>6. scopes' = Popped(scopes, n)
    BY <2>1
  <2> HIDE DEF n
  <2>7. n \in 0..Len(scopes)
    BY <1>1, <1>2, <2>3, <2>4, <2>5
  <2>8. scopes' \in Seq(Scope) /\ Len(scopes') = Len(scopes) - n
    BY <1>2, <2>6, <2>7, PoppedIs
  <2> QED
    BY <1>1, <1>2, <1>3, <2>1, <2>3, <2>5, <2>8
<1> QED
  BY <1>4, <1>5, <1>6, <1>7, <1>8, LateSteps

(***************************************************************************)
(* The variables have their types, and a pass has exactly the scopes open  *)
(* that belong to the nodes it is inside.                                  *)
(***************************************************************************)
Types == Walk /\ Tabled /\ Counted

LEMMA TypesInit == Init => Types
<1> SUFFICES ASSUME Init PROVE Types
  OBVIOUS
<1>1. functions \in Table("Function")
  BY DEF Init, NoEntries, Table
<1>2. Tabled
  BY <1>1 DEF Init, Tabled, ModuleEntry, Free
<1>3. Counted
  BY DEF Init, Counted
<1> QED
  BY <1>2, <1>3, WalkInit DEF Types

LEMMA TypesNext == Types /\ [Next]_vars => Types'
<1> SUFFICES ASSUME Types, [Next]_vars PROVE Types'
  OBVIOUS
<1> USE DEF Types
<1>1. Walk'
  BY WalkNext
<1>2. CASE UNCHANGED vars
  <2>1. Tabled'
    BY <1>2 DEF vars, Tabled, Table, ModuleEntry, Positions, Binding
  <2>2. Counted'
    BY <1>2 DEF vars, Counted, Late, Scope, Table, Positions
  <2> QED
    BY <1>1, <2>1, <2>2
<1>3. CASE (\E s \in Statements : ParseStatement(s)) \/ ParseClose
  <2>1. /\ phase = "parse" /\ mode = "none"
        /\ UNCHANGED <<mode, phase, scopes, functions, module, InsideFunction, errors>>
    BY <1>3 DEF ParseStatement, ParseClose, Walk
  <2>2. (functions \in Table("Function"))'
    BY <2>1 DEF Tabled, NoEntries, Table
  <2>3. (module \in [Names -> ModuleEntry])'
    BY <2>1 DEF Tabled, ModuleEntry
  <2>4. Tabled'
    BY <2>1, <2>2, <2>3 DEF Tabled
  <2>5. Counted'
    BY <2>1 DEF Counted
  <2> QED
    BY <1>1, <2>4, <2>5
<1>4. CASE StartRun \/ StartBuild
  <2>1. /\ phase = "parse" /\ phase' \in {"declare", "generate"} /\ program' = program
        /\ UNCHANGED <<functions, module, InsideFunction, errors>>
        /\ checked' = NothingSeen /\ generated' = NothingSeen
        /\ scopes' = <<EmptyScope>> /\ visits' = <<>>
    BY <1>4 DEF StartRun, StartBuild, BeginPass
  <2>2. (functions \in Table("Function"))'
    BY <2>1 DEF Tabled, Table, Positions
  <2>3. (module \in [Names -> ModuleEntry])'
    BY <2>1 DEF Tabled, ModuleEntry, Positions
  <2>4. (checked \in [Positions -> Binding({"Variable", "Function"})])'
    BY <2>1 DEF NothingSeen, Positions, Binding
  <2>5. (generated \in [Positions -> Binding({"Value", "Function"})])'
    BY <2>1 DEF NothingSeen, Positions, Binding
  <2>6. Tabled'
    BY <2>1, <2>2, <2>3, <2>4, <2>5 DEF Tabled
  <2>7. scopes' \in Seq(Scope) /\ Len(scopes') = 1 /\ Len(visits') = 0
    BY <2>1, NoEntriesTyped
  <2>8. Scope' = Scope /\ Frames(program', visits', 0) = 0
    BY <2>1, FramesStep DEF Scope, Table, Positions
  <2>9. Counted'
    BY <2>7, <2>8 DEF Counted
  <2> QED
    BY <1>1, <2>6, <2>9
<1>5. CASE PassStep
  <2>1. Tabled'
    BY <1>5, TabledPass
  <2>2. phase \in Passes
    BY <1>5, PassMoves
  <2>3. Counted'
    BY <1>5, <2>2, CountedEarly, CountedLate DEF Passes
  <2> QED
    BY <1>1, <2>1, <2>3
<1> QED
  BY <1>2, <1>3, <1>4, <1>5, NextSteps

LEMMA TypesSuffice == Types => TypeOK
<1> SUFFICES ASSUME Types PROVE TypeOK
  OBVIOUS
<1> USE DEF Types
<1>1. /\ program \in Seq(Statements \cup {Close}) /\ mode \in {"none", "Run", "Build"}
      /\ phase \in {"parse"} \cup Passes \cup Outcomes
  BY DEF Walk, Program
<1>2. next \in 1..(Len(program) + 1) /\ visits \in Seq(Positions) /\ Len(program) \in Nat
  BY WalkHere
<1>3. functions \in [Names -> [kind : {"Function"}, id : Positions] \cup {Absent}]
  BY DEF Tabled, Table
<1>4. module \in [Names -> [kind : {"free", "function", "global"}, id : 0..Len(program)]]
  <2>1. \A e \in ModuleEntry : e \in [kind : {"free", "function", "global"}, id : 0..Len(program)]
    BY <1>2 DEF ModuleEntry, Free, Positions
  <2> QED
    BY <2>1 DEF Tabled
<1>5. InsideFunction \in BOOLEAN /\ errors \in BOOLEAN
  BY DEF Tabled
<1>6. mode # "none" =>
        /\ checked \in [Positions -> Binding({"Variable", "Function"})]
        /\ generated \in [Positions -> Binding({"Value", "Function"})]
  BY DEF Tabled
<1>7. ASSUME mode # "none"
      PROVE  Len(scopes) = 1 + Len(visits) +
               (IF mode = "Build" \/ phase \in {"generate", "refused", "aborted",
                                                "undefined", "generated"}
                THEN FunctionVisits ELSE 0)
  <2>1. Frames(program, visits, Len(visits)) = Len(visits) + FunctionVisits
    BY DEF Frames, FuncsTo, FunctionVisits
  <2>2. Len(visits) \in Nat /\ FunctionVisits \in Nat
    <3>1. Len(visits) \in Nat
      BY WalkHere
    <3>2. IsFiniteSet(1..Len(visits))
      BY <3>1, FS_Interval
    <3> QED
      BY <3>1, <3>2, FS_Subset, FS_CardinalityType DEF FunctionVisits
  <2> QED
    BY <1>7, <2>1, <2>2 DEF Counted, Late
<1> QED
  BY <1>1, <1>2, <1>3, <1>4, <1>5, <1>6, <1>7 DEF TypeOK

LEMMA TypesAlways == Spec => []Types
<1> QED
  BY TypesInit, TypesNext, PTL DEF Spec

(* Module NameResolution is typed, and every pass keeps the stack of       *)
(* tables balanced, whatever the blocks and functions of the program.      *)
THEOREM ScopesBalanced == Spec => []TypeOK
<1> QED
  BY TypesAlways, TypesSuffice, PTL

-----------------------------------------------------------------------------
(***************************************************************************)
(* What the passes bind names to: the safety properties, on the types and  *)
(* the walk above.                                                         *)
(***************************************************************************)

(***************************************************************************)
(* Nodes and what encloses them.                                           *)
(***************************************************************************)
LEMMA StackNests ==
  ASSUME NEW text \in Program, NEW v, NEW c, Stack(text, v, c),
         NEW k \in 1..Len(v), NEW m \in 1..Len(v), k < m
  PROVE  v[k] < v[m] /\ OpenIn(text, v[k], v[m])
<1>1. v \in Seq(1..Len(text)) /\ Len(v) \in Nat /\ Len(text) \in Nat /\ c \in Nat
  BY DEF Stack, Program
<1>2. /\ v[k] \in Nat /\ OpenIn(text, v[k], c) /\ Depth(text, v[k]) = k
      /\ v[m] \in Nat /\ OpenIn(text, v[m], c) /\ Depth(text, v[m]) = m
  BY <1>1 DEF Stack
<1>3. v[k] < v[m]
  <2> SUFFICES ASSUME ~ (v[k] < v[m]) PROVE FALSE
    OBVIOUS
  <2>1. v[k] \in v[m]..(c - 1)
    BY <1>1, <1>2 DEF OpenIn
  <2>2. Depth(text, v[k]) >= Depth(text, v[m])
    BY <1>2, <2>1 DEF OpenIn
  <2> QED
    BY <1>2, <2>2
<1>4. \A j \in v[k]..(v[m] - 1) : j \in v[k]..(c - 1)
  BY <1>1, <1>2 DEF OpenIn
<1> QED
  BY <1>2, <1>3, <1>4 DEF OpenIn

LEMMA EnclosesIsOpenIn ==
  ASSUME Walk, mode # "none", NEW i \in Positions, NEW j \in Positions
  PROVE  Encloses(i, j) <=> OpenIn(program, i, j)
<1>1. /\ program \in Program /\ WellNested(program) /\ Depth(program, Len(program)) = 0
      /\ Len(program) \in Nat /\ i \in 1..Len(program) /\ j \in Nat
  BY WalkHere DEF Walk, Positions
<1>2. OpenIn(program, i, j) <=> Opens(program[i]) /\ i < j /\ j < 1 + ClosedAt(program, i)
  BY <1>1, OpenInIsEnclosed
<1> QED
  BY <1>2, AfterIsClosedAt DEF Encloses

LEMMA EnclosesKept ==
  ASSUME program' = program
  PROVE  Positions' = Positions /\ \A i, j : Encloses(i, j)' <=> Encloses(i, j)
<1>1. ASSUME NEW i PROVE After(i)' = After(i)
  <2>1. After(i)' = 1 + ClosedAt(program', i)
    BY DEF After, ClosedAt, OpensIn, ClosesIn
  <2>2. ClosedAt(program', i) = ClosedAt(program, i)
    OBVIOUS
  <2> QED
    BY <2>1, <2>2, AfterIsClosedAt
<1> QED
  BY <1>1 DEF Encloses, Positions

(***************************************************************************)
(* Inside a function.                                                      *)
(***************************************************************************)
(* No function is written in another one.                                  *)
Unnested(text) ==
  \A p, q \in 1..Len(text) :
    text[p].kind = "func" /\ text[q].kind = "func" => ~ OpenIn(text, p, q)

InsideAsVisited ==
  /\ ~ Late => ~ InsideFunction
  /\ phase = "generate" /\ Unnested(program) =>
       (InsideFunction <=> \E k \in 1..Len(visits) : program[visits[k]].kind = "func")

(* A function of the module is one of the program, of the same name.       *)
ModuleNamed ==
  \A n \in Names : module[n].kind = "function" => IsFunction(module[n].id, n)

LEMMA InsidePass ==
  ASSUME Types, InsideAsVisited, PassStep
  PROVE  InsideAsVisited'
<1>1. Walk /\ UNCHANGED <<program, mode>> /\ phase \in Passes
  BY PassMoves DEF Types
<1>2. Stack(program, visits, next) /\ program \in Program
  BY <1>1 DEF Walk, Here, Passes
<1>3. visits \in Seq(Positions) /\ Len(visits) \in Nat
  BY <1>1, WalkHere
<1>4. CASE GenerateFunction
  <2>1. /\ InsideFunction' = TRUE /\ visits' = Append(visits, next) /\ phase' = phase
        /\ phase = "generate" /\ program[next].kind = "func" /\ next \in Positions
    BY <1>4 DEF GenerateFunction, Generating, Visiting, Enter
  <2>2. Len(visits) + 1 \in 1..Len(visits') /\ visits'[Len(visits) + 1] = next
    BY <1>3, <2>1
  <2> QED
    BY <1>1, <2>1, <2>2 DEF InsideAsVisited, Late
<1>5. CASE GenerateClose
  <2>1. /\ visits' = Popped(visits, 1) /\ phase' = phase
        /\ phase = "generate" /\ next \in Positions /\ program[next].kind = "close"
        /\ InsideFunction' = IF Innermost.kind = "func" THEN FALSE ELSE InsideFunction
    BY <1>5 DEF GenerateClose, Generating, Visiting, Leave
  <2>2. Len(visits) \in Nat \ {0} /\ Innermost = program[visits[Len(visits)]]
    BY <1>1, <2>1, AtClose DEF Innermost
  <2>3. /\ Len(visits') = Len(visits) - 1
        /\ \A k \in 1..(Len(visits) - 1) : visits'[k] = visits[k]
    <3>1. 1 \in 0..Len(visits)
      BY <2>2
    <3> QED
      BY <1>3, <2>1, <3>1, PoppedIs
  <2>4. ASSUME Unnested(program)
        PROVE  InsideFunction' <=> \E k \in 1..Len(visits') : program[visits'[k]].kind = "func"
    <3>1. InsideFunction <=> \E k \in 1..Len(visits) : program[visits[k]].kind = "func"
      BY <2>1, <2>4 DEF InsideAsVisited
    <3>2. CASE Innermost.kind = "func"
      <4>1. ASSUME NEW k \in 1..Len(visits') PROVE program[visits'[k]].kind # "func"
        <5>1. k \in 1..Len(visits) /\ Len(visits) \in 1..Len(visits) /\ k < Len(visits)
              /\ visits'[k] = visits[k]
          BY <2>2, <2>3
        <5>2. OpenIn(program, visits[k], visits[Len(visits)])
          BY <1>2, <5>1, StackNests
        <5>3. visits[k] \in 1..Len(program) /\ visits[Len(visits)] \in 1..Len(program)
          BY <1>3, <5>1 DEF Positions
        <5> QED
          BY <2>2, <2>4, <3>2, <5>1, <5>2, <5>3 DEF Unnested
      <4> QED
        BY <2>1, <3>2, <4>1
    <3>3. CASE Innermost.kind # "func"
      <4>1. ASSUME NEW k \in 1..Len(visits), program[visits[k]].kind = "func"
            PROVE  k \in 1..Len(visits') /\ visits'[k] = visits[k]
        BY <2>2, <2>3, <3>3, <4>1
      <4>2. ASSUME NEW k \in 1..Len(visits')
            PROVE  k \in 1..Len(visits) /\ visits'[k] = visits[k]
        BY <2>2, <2>3
      <4> QED
        BY <2>1, <3>1, <3>3, <4>1, <4>2
    <3> QED
      BY <3>2, <3>3
  <2> QED
    BY <1>1, <2>1, <2>4 DEF InsideAsVisited, Late
<1>6. CASE ~ GenerateFunction /\ ~ GenerateClose
  <2>1. InsideFunction' = InsideFunction
    BY <1>6, PassChanges
  <2>2. Late => Late'
    <3>1. /\ phase' \in Passes \cup Outcomes
          /\ phase' \in {"declare", "check", "rejected"} => phase \in {"declare", "check"}
      BY <1>1, PassMoves
    <3> QED
      BY <1>1, <3>1 DEF Late, Passes, Outcomes, Walk
  <2>3. ~ Late' => ~ InsideFunction'
    BY <2>1, <2>2 DEF InsideAsVisited
  <2>4. CASE phase \in {"declare", "check"} /\ phase' = "generate"
    <3>1. visits' = <<>>
      <4>1. CheckEnd
        BY <2>4, EarlySteps
           DEF DeclareFunction, DeclareBlock, DeclareClose, DeclareSkip, DeclareEnd,
               CheckLet, CheckPrint, CheckReturn, CheckFunction, CheckBlock, CheckClose,
               CheckErrors, BeginPass, Visiting
      <4> QED
        BY <4>1 DEF CheckEnd, BeginPass
    <3>2. ~ InsideFunction
      BY <1>1, <2>4 DEF InsideAsVisited, Late, Walk
    <3> QED
      BY <2>1, <2>3, <3>1, <3>2 DEF InsideAsVisited
  <2>5. CASE phase = "generate"
    <3>1. CASE GenerateBlock
      <4>1. visits' = Append(visits, next) /\ program[next].kind = "block"
        BY <3>1 DEF GenerateBlock, Generating, Visiting, Enter
      <4>2. /\ Len(visits') = Len(visits) + 1 /\ visits'[Len(visits) + 1] = next
            /\ \A k \in 1..Len(visits) : visits'[k] = visits[k]
        BY <1>3, <4>1
      <4>3. (\E k \in 1..Len(visits') : program[visits'[k]].kind = "func")
              <=> \E k \in 1..Len(visits) : program[visits[k]].kind = "func"
        BY <1>3, <4>1, <4>2
      <4> QED
        BY <1>1, <2>1, <2>3, <2>5, <4>3 DEF InsideAsVisited
    <3>2. CASE ~ GenerateBlock
      <4>1. visits' = visits
        BY <1>6, <2>5, <3>2, LateSteps
           DEF GenerateUndefined, GenerateThrow, GenerateLet, GeneratePrint, GenerateReturn,
               GenerateEnd
      <4> QED
        BY <1>1, <2>1, <2>3, <2>5, <4>1 DEF InsideAsVisited
    <3> QED
      BY <3>1, <3>2
  <2>6. CASE phase' # "generate"
    BY <2>3, <2>6 DEF InsideAsVisited
  <2> QED
    BY <1>1, <2>4, <2>5, <2>6 DEF Passes
<1> QED
  BY <1>4, <1>5, <1>6

LEMMA ModuleNamedPass ==
  ASSUME Types, ModuleNamed, PassStep
  PROVE  ModuleNamed'
<1>1. Walk /\ UNCHANGED <<program, mode>>
  BY PassMoves DEF Types
<1>2. module \in [Names -> ModuleEntry]
  BY DEF Types, Tabled
<1>3. CASE DeclareFunction \/ GenerateFunction
  <2>1. /\ next \in Positions /\ program[next].name \in Names /\ program[next].kind = "func"
        /\ module' = NamedFunction(module, program[next].name, next)
    BY <1>1, <1>3, KindAtNext
       DEF DeclareFunction, GenerateFunction, Generating, Visiting
  <2> QED
    BY <1>1, <1>2, <2>1 DEF ModuleNamed, NamedFunction, IsFunction
<1>4. CASE GenerateLet
  <2>1. /\ next \in Positions /\ program[next].name \in Names
        /\ \/ module' = module
           \/ module' = [module EXCEPT ![program[next].name] = [kind |-> "global", id |-> next]]
    BY <1>1, <1>4, KindAtNext DEF GenerateLet, Generating, Visiting
  <2> QED
    BY <1>1, <1>2, <2>1 DEF ModuleNamed, IsFunction
<1>5. CASE module' = module
  BY <1>1, <1>5 DEF ModuleNamed, IsFunction
<1> QED
  BY <1>3, <1>4, <1>5, PassChanges

(* A pointer that is null is dereferenced only in the programs the         *)
(* property names.                                                         *)
LEMMA UndefinedNamed ==
  ASSUME Types, InsideAsVisited, ModuleNamed, GenerateUndefined, mode = "Run"
  PROVE  \/ Misplaced(next)
         \/ \E i, j \in Positions :
              /\ i # j
              /\ program[i].kind = "func"
              /\ \/ program[j].kind = "func" /\ Encloses(i, j)
                 \/ program[j].kind \in {"func", "let"} /\ program[j].name = program[i].name
<1> DEFINE s == program[next]
<1>1. /\ Walk /\ phase = "generate" /\ next \in Positions /\ Undefined(s)
      /\ s.kind \in {"let", "print", "return", "func", "close"}
  BY DEF GenerateUndefined, Visiting, Types
<1>2. /\ Stack(program, visits, next) /\ program \in Program /\ WellNested(program)
      /\ Positions = 1..Len(program) /\ Len(visits) \in Nat
  BY <1>1, WalkHere DEF Walk, Here, Positions
<1>3. ASSUME NEW n \in Names, module[n].kind = "function"
      PROVE  /\ module[n].id \in Positions /\ program[module[n].id].kind = "func"
             /\ program[module[n].id].name = n
  <2>1. module[n] \in ModuleEntry /\ IsFunction(module[n].id, n)
    BY <1>3 DEF Types, Tabled, ModuleNamed
  <2> QED
    BY <1>3, <2>1 DEF IsFunction, ModuleEntry, Free
<1>4. ASSUME ~ InsideFunction, NEW p \in Positions, program[p].kind = "func",
             OpenIn(program, p, next)
      PROVE  \E i, j \in Positions : /\ i # j /\ program[i].kind = "func"
                                     /\ program[j].kind = "func" /\ Encloses(i, j)
  <2>1. \E k \in 1..Len(visits) : program[visits[k]].kind = "func"
    BY <1>2, <1>4, StackHoldsOpen
  <2>2. ~ Unnested(program)
    BY <1>1, <1>4, <2>1 DEF InsideAsVisited
  <2>3. PICK i, j \in Positions :
          program[i].kind = "func" /\ program[j].kind = "func" /\ OpenIn(program, i, j)
    BY <1>2, <2>2 DEF Unnested
  <2>4. i # j
    BY <2>3 DEF OpenIn, Positions
  <2>5. Encloses(i, j)
    BY <1>1, <2>3, EnclosesIsOpenIn
  <2> QED
    BY <2>3, <2>4, <2>5
<1>5. CASE s.kind = "let" /\ ~ InsideFunction /\ module[s.name].kind = "function"
  <2>1. s.name \in Names
    BY <1>1, <1>5, KindAtNext
  <2> QED
    BY <1>1, <1>3, <1>5, <2>1
<1>6. CASE s.kind = "return" /\ ~ InsideFunction
  <2>1. CASE TopLevel(next)
    BY <1>6, <2>1 DEF Misplaced
  <2>2. CASE ~ TopLevel(next)
    <3>1. PICK p \in Positions : program[p].kind = "func" /\ Encloses(p, next)
      BY <2>2 DEF TopLevel
    <3>2. OpenIn(program, p, next)
      BY <1>1, <3>1, EnclosesIsOpenIn
    <3> QED
      BY <1>4, <1>6, <3>1, <3>2
  <2> QED
    BY <2>1, <2>2
<1>7. CASE s.kind = "close" /\ Innermost.kind = "func" /\ ~ InsideFunction
  <2>1. /\ Len(visits) \in 1..Len(visits) /\ visits[Len(visits)] \in Positions
        /\ Innermost = program[visits[Len(visits)]]
    BY <1>1, <1>7, AtClose DEF Innermost
  <2>2. OpenIn(program, visits[Len(visits)], next)
    BY <1>2, <2>1 DEF Stack
  <2> QED
    BY <1>4, <1>7, <2>1, <2>2
<1>8. CASE /\ s.kind = "func" /\ s.param = NoName /\ module[s.name].kind = "function"
           /\ program[module[s.name].id].param # NoName
  <2>1. s.name \in Names
    BY <1>1, <1>8, KindAtNext
  <2> QED
    BY <1>1, <1>3, <1>8, <2>1
<1>9. CASE /\ s.kind = "print" \/ (s.kind = "let" /\ s.use.kind = "call")
           /\ ~ Positioned
  <2>1. \A k \in 1..(next - 1) : program[k].kind # "func"
    BY <1>9 DEF Positioned
  <2>2. \A k \in 1..next : k \in 1..(next - 1) \/ k = next
    BY <1>1 DEF Positions
  <2>3. \A k \in 1..next : program[k].kind # "func"
    BY <1>9, <2>1, <2>2
  <2> QED
    BY <1>9, <2>3 DEF Misplaced, Use
<1> QED
  BY <1>1, <1>5, <1>6, <1>7, <1>8, <1>9 DEF Undefined

Inside == Types /\ InsideAsVisited /\ ModuleNamed /\ NoNullDereference

LEMMA InsideInit == Init => Inside
<1> SUFFICES ASSUME Init PROVE Inside
  OBVIOUS
<1>1. InsideAsVisited /\ ModuleNamed /\ NoNullDereference
  BY DEF Init, InsideAsVisited, ModuleNamed, NoNullDereference
<1> QED
  BY <1>1, TypesInit DEF Inside

LEMMA InsideNext == Inside /\ [Next]_vars => Inside'
<1> SUFFICES ASSUME Inside, [Next]_vars PROVE Inside'
  OBVIOUS
<1> USE DEF Inside
<1>1. Types'
  BY TypesNext
<1>2. CASE UNCHANGED vars
  <2>1. InsideAsVisited' /\ ModuleNamed'
    BY <1>2 DEF vars, InsideAsVisited, Late, ModuleNamed, IsFunction
  <2>2. NoNullDereference'
    BY <1>2, EnclosesKept DEF vars, NoNullDereference, Misplaced, TopLevel, Use
  <2> QED
    BY <1>1, <2>1, <2>2
<1>3. CASE (\E s \in Statements : ParseStatement(s)) \/ ParseClose
  <2>1. /\ phase = "parse" /\ UNCHANGED <<mode, phase, module, InsideFunction>>
    BY <1>3 DEF ParseStatement, ParseClose
  <2>3. InsideAsVisited'
    BY <2>1 DEF InsideAsVisited, Late, Types, Tabled
  <2>4. \A n \in Names : module'[n] = Free
    BY <2>1 DEF Types, Tabled
  <2>5. ModuleNamed' /\ NoNullDereference'
    BY <2>1, <2>4 DEF ModuleNamed, Free, NoNullDereference
  <2> QED
    BY <1>1, <2>3, <2>5
<1>4. CASE StartRun \/ StartBuild
  <2>1. /\ phase = "parse" /\ UNCHANGED <<program, module, InsideFunction>>
        /\ phase' \in {"declare", "generate"} /\ visits' = <<>>
    BY <1>4 DEF StartRun, StartBuild, BeginPass
  <2>3. InsideAsVisited'
    BY <2>1 DEF InsideAsVisited, Types, Tabled
  <2>4. \A n \in Names : module'[n] = Free
    BY <2>1 DEF Types, Tabled
  <2>5. ModuleNamed' /\ NoNullDereference'
    BY <2>1, <2>4 DEF ModuleNamed, Free, NoNullDereference
  <2> QED
    BY <1>1, <2>3, <2>5
<1>5. CASE PassStep
  <2>1. UNCHANGED <<program, mode>> /\ phase \in Passes
    BY <1>5, PassMoves DEF Types
  <2>3. InsideAsVisited' /\ ModuleNamed'
    BY <1>5, InsidePass, ModuleNamedPass
  <2>4. NoNullDereference'
    <3>1. CASE phase' = "undefined" /\ mode = "Run"
      <4>1. CASE phase = "generate"
        <5>1. GenerateUndefined
          BY <1>5, <3>1, <4>1, LateSteps
             DEF GenerateThrow, GenerateLet, GeneratePrint, GenerateReturn,
                 GenerateFunction, GenerateBlock, GenerateClose, GenerateEnd
        <5> QED
          <6>1. next' = next
            BY <5>1 DEF GenerateUndefined
          <6>2. Misplaced(next) => Misplaced(next)'
            BY <2>1, <6>1, EnclosesKept DEF Misplaced, TopLevel, Use
          <6> QED
            BY <2>1, <5>1, <3>1, <6>2, UndefinedNamed, EnclosesKept DEF NoNullDereference
      <4>2. CASE phase \in {"declare", "check"}
        BY <1>5, <3>1, <4>2, EarlySteps
           DEF DeclareFunction, DeclareBlock, DeclareClose, DeclareSkip, DeclareEnd,
               CheckLet, CheckPrint, CheckReturn, CheckFunction, CheckBlock, CheckClose,
               CheckErrors, CheckEnd, BeginPass
      <4> QED
        BY <2>1, <4>1, <4>2 DEF Passes
    <3>2. CASE ~ (phase' = "undefined" /\ mode = "Run")
      BY <2>1, <3>2 DEF NoNullDereference
    <3> QED
      BY <3>1, <3>2
  <2> QED
    BY <1>1, <2>3, <2>4
<1> QED
  BY <1>2, <1>3, <1>4, <1>5, NextSteps

LEMMA InsideAlways == Spec => []Inside
<1> QED
  BY InsideInit, InsideNext, PTL DEF Spec

(* SwaCompiler::Run dereferences a null pointer of the code generator only *)
(* at a return outside of functions, at a print or a call above all of     *)
(* them, and where a function is inside another one or shares its name.    *)
THEOREM NullNeverDereferenced == Spec => []NoNullDereference
<1>1. Inside => NoNullDereference
  BY DEF Inside
<1> QED
  BY <1>1, InsideAlways, PTL

(***************************************************************************)
(* Functions of one name.                                                  *)
(***************************************************************************)
AllOf(n) == {j \in Positions : IsFunction(j, n)}
TopOf(n) == {j \in AllOf(n) : TopLevel(j)}
Before(S, c) == {j \in S : j < c}
IsFirst(j, S) == j \in S /\ \A k \in S : j <= k
IsLast(j, S) == j \in S /\ \A k \in S : k <= j

(* A table holds the last function that has been declared in it, the       *)
(* module the first.                                                       *)
HoldsLast(e, S) == IF S = {} THEN e = Absent ELSE e.kind = "Function" /\ IsLast(e.id, S)
HoldsFirst(e, S) == IF S = {} THEN e = Free ELSE e.kind = "function" /\ IsFirst(e.id, S)

(* The functions above a position, or the declared ones if none is.        *)
Typing(n, c) == IF Before(AllOf(n), c) # {} THEN Before(AllOf(n), c) ELSE TopOf(n)
Called(n) == IF TopOf(n) # {} THEN TopOf(n) ELSE AllOf(n)

FunctionsAsWalked ==
  /\ phase = "declare" =>
       /\ \A k \in 1..Len(visits) : program[visits[k]].kind = "block"
       /\ \A n \in Names : /\ HoldsLast(functions[n], Before(TopOf(n), next))
                           /\ HoldsFirst(module[n], Before(TopOf(n), next))
  /\ phase = "check" =>
       \A n \in Names : /\ HoldsLast(functions[n], Typing(n, next))
                        /\ HoldsFirst(module[n], TopOf(n))
  /\ phase = "generate" /\ mode = "Run" =>
       \A n \in Names :
         /\ TopOf(n) # {} => HoldsFirst(module[n], TopOf(n))
         /\ TopOf(n) = {} =>
              /\ module[n].kind = "function" => IsFirst(module[n].id, AllOf(n))
              /\ module[n] = Free => Before(AllOf(n), next) = {}

LEMMA NamedKept ==
  ASSUME program' = program
  PROVE  /\ \A n : AllOf(n)' = AllOf(n) /\ TopOf(n)' = TopOf(n) /\ Called(n)' = Called(n)
         /\ \A n, c : Before(AllOf(n), c)' = Before(AllOf(n), c')
         /\ \A n, c : Before(TopOf(n), c)' = Before(TopOf(n), c')
<1>1. /\ Positions' = Positions /\ \A i, j : Encloses(i, j)' <=> Encloses(i, j)
  BY EnclosesKept
<1>2. \A i : TopLevel(i)' <=> TopLevel(i)
  BY <1>1 DEF TopLevel
<1>3. ASSUME NEW n PROVE AllOf(n)' = AllOf(n)
  BY <1>1 DEF AllOf, IsFunction
<1>4. ASSUME NEW n PROVE TopOf(n)' = TopOf(n)
  BY <1>2, <1>3 DEF TopOf
<1> QED
  BY <1>3, <1>4 DEF Called, Before

LEMMA BeforeSteps ==
  ASSUME Types, NEW n
  PROVE  /\ AllOf(n) \in SUBSET (0..Len(program)) /\ TopOf(n) \in SUBSET AllOf(n)
         /\ Before(AllOf(n), 1) = {} /\ Before(TopOf(n), 1) = {}
         /\ \A c \in Nat : c > Len(program) => /\ Before(AllOf(n), c) = AllOf(n)
                                               /\ Before(TopOf(n), c) = TopOf(n)
         /\ \A c \in Positions :
              /\ Before(AllOf(n), c + 1)
                   = Before(AllOf(n), c) \cup (IF IsFunction(c, n) THEN {c} ELSE {})
              /\ Before(TopOf(n), c + 1)
                   = Before(TopOf(n), c) \cup (IF IsFunction(c, n) /\ TopLevel(c) THEN {c} ELSE {})
<1>1. Len(program) \in Nat
  BY WalkHere DEF Types
<1>2. AllOf(n) \in SUBSET (0..Len(program)) /\ AllOf(n) \in SUBSET Positions
      /\ TopOf(n) \in SUBSET AllOf(n)
  BY <1>1 DEF AllOf, TopOf, Positions
<1>3. Before(AllOf(n), 1) = {} /\ Before(TopOf(n), 1) = {}
  BY <1>1, <1>2 DEF Before, Positions
<1>4. ASSUME NEW c \in Nat, c > Len(program)
      PROVE  Before(AllOf(n), c) = AllOf(n) /\ Before(TopOf(n), c) = TopOf(n)
  <2>1. \A j \in AllOf(n) : j < c
    BY <1>1, <1>2, <1>4
  <2> QED
    BY <1>2, <2>1 DEF Before
<1>5. ASSUME NEW c \in Positions
      PROVE  /\ Before(AllOf(n), c + 1)
                   = Before(AllOf(n), c) \cup (IF IsFunction(c, n) THEN {c} ELSE {})
             /\ Before(TopOf(n), c + 1)
                   = Before(TopOf(n), c) \cup (IF IsFunction(c, n) /\ TopLevel(c) THEN {c} ELSE {})
  <2>1. \A j \in Positions : j < c + 1 <=> j < c \/ j = c
    BY <1>1 DEF Positions
  <2>2. Before(AllOf(n), c + 1)
          = Before(AllOf(n), c) \cup (IF IsFunction(c, n) THEN {c} ELSE {})
    BY <2>1, <1>2 DEF Before, AllOf
  <2>3. Before(TopOf(n), c + 1)
          = Before(TopOf(n), c) \cup (IF IsFunction(c, n) /\ TopLevel(c) THEN {c} ELSE {})
    BY <2>1, <1>2 DEF Before, AllOf, TopOf
  <2> QED
    BY <2>2, <2>3
<1> QED
  BY <1>2, <1>3, <1>4, <1>5

(* The declaration meets the functions that are not inside another one.    *)
LEMMA DeclarePass ==
  ASSUME Types, FunctionsAsWalked, phase = "declare", PassStep
  PROVE  FunctionsAsWalked'
<1>1. /\ Walk /\ UNCHANGED <<program, mode>> /\ mode # "none"
      /\ Len(program) \in Nat /\ next \in Nat \ {0}
      /\ visits \in Seq(Positions) /\ Len(visits) \in Nat
      /\ Stack(program, visits, next) /\ program \in Program /\ WellNested(program)
      /\ functions \in Table("Function") /\ module \in [Names -> ModuleEntry]
  BY PassMoves, WalkHere DEF Types, Walk, Here, Tabled
<1>2. /\ \A k \in 1..Len(visits) : program[visits[k]].kind = "block"
      /\ \A n \in Names : /\ HoldsLast(functions[n], Before(TopOf(n), next))
                          /\ HoldsFirst(module[n], Before(TopOf(n), next))
  BY DEF FunctionsAsWalked
<1>3. ASSUME next \in Positions PROVE TopLevel(next)
  <2>1. ASSUME NEW j \in Positions, program[j].kind = "func", Encloses(j, next) PROVE FALSE
    <3>1. OpenIn(program, j, next)
      BY <1>1, <1>3, <2>1, EnclosesIsOpenIn
    <3>2. \E k \in 1..Len(visits) : visits[k] = j
      BY <1>1, <3>1, StackHoldsOpen DEF Positions
    <3> QED
      BY <1>2, <2>1, <3>2
  <2> QED
    BY <2>1 DEF TopLevel
<1>4. ASSUME phase' = "declare",
             \A k \in 1..Len(visits') : program[visits'[k]].kind = "block",
             \A n \in Names : /\ HoldsLast(functions'[n], Before(TopOf(n), next'))
                              /\ HoldsFirst(module'[n], Before(TopOf(n), next'))
      PROVE  FunctionsAsWalked'
  <2>1. \A n \in Names : Before(TopOf(n), next)' = Before(TopOf(n), next')
    BY <1>1, NamedKept
  <2>2. \A n \in Names : /\ HoldsLast(functions[n], Before(TopOf(n), next))'
                         /\ HoldsFirst(module[n], Before(TopOf(n), next))'
    BY <1>4, <2>1 DEF HoldsLast, HoldsFirst, IsLast, IsFirst, Free
  <2> QED
    BY <1>1, <1>4, <2>2 DEF FunctionsAsWalked
<1>5. CASE DeclareFunction
  <2> DEFINE m == program[next].name
  <2>1. /\ next \in Positions /\ program[next].kind = "func" /\ m \in Names
        /\ module' = NamedFunction(module, m, next)
        /\ functions' = [functions EXCEPT ![m] = [kind |-> "Function", id |-> next]]
        /\ next' = After(next) /\ phase' = phase /\ visits' = visits
    BY <1>1, <1>5, KindAtNext DEF DeclareFunction, Visiting
  <2>2. ASSUME NEW n \in Names
        PROVE  Before(TopOf(n), next')
                 = Before(TopOf(n), next) \cup (IF n = m THEN {next} ELSE {})
    <3>1. Before(TopOf(n), next + 1)
            = Before(TopOf(n), next) \cup (IF n = m THEN {next} ELSE {})
      BY <1>3, <2>1, BeforeSteps DEF IsFunction
    <3>2. Before(TopOf(n), next') = Before(TopOf(n), next + 1)
      <4>1. next' \in (next + 1)..(Len(program) + 1)
        <5>1. Opens(program[next])
          BY <2>1 DEF Opens
        <5>2. next' = 1 + ClosedAt(program, next)
          BY <2>1, AfterIsClosedAt
        <5> QED
          BY <1>1, <2>1, <5>1, <5>2, StackJump DEF Positions, Walk
      <4>2. ASSUME NEW j \in TopOf(n), j < next' PROVE j < next + 1
        <5> SUFFICES ASSUME ~ (j < next + 1) PROVE FALSE
          OBVIOUS
        <5>1. j \in Positions /\ TopLevel(j)
          BY DEF TopOf, AllOf
        <5>2. Encloses(next, j)
          BY <1>1, <2>1, <4>2, <5>1 DEF Encloses, Opens, Positions
        <5> QED
          BY <2>1, <5>1, <5>2 DEF TopLevel
      <4>3. ASSUME NEW j \in TopOf(n), j < next + 1 PROVE j < next'
        <5>1. j \in Nat
          BY <1>1 DEF TopOf, AllOf, Positions
        <5> QED
          BY <1>1, <4>1, <4>3, <5>1
      <4> QED
        BY <4>2, <4>3 DEF Before
    <3> QED
      BY <3>1, <3>2
  <2>3. ASSUME NEW n \in Names, NEW j \in Before(TopOf(n), next) PROVE j < next /\ j \in Nat
    BY <1>1 DEF Before, TopOf, AllOf, Positions
  <2>4. ASSUME NEW n \in Names
        PROVE  /\ HoldsLast(functions'[n], Before(TopOf(n), next'))
               /\ HoldsFirst(module'[n], Before(TopOf(n), next'))
    <3>1. CASE n # m
      <4>1. functions'[n] = functions[n] /\ module'[n] = module[n]
        BY <1>1, <2>1, <3>1 DEF NamedFunction, Table
      <4> QED
        BY <1>2, <2>2, <3>1, <4>1
    <3>2. CASE n = m
      <4>1. Before(TopOf(n), next') = Before(TopOf(n), next) \cup {next}
        BY <2>2, <3>2
      <4>2. functions'[n] = [kind |-> "Function", id |-> next]
        BY <1>1, <2>1, <3>2 DEF Table
      <4>3. IsLast(next, Before(TopOf(n), next'))
        BY <1>1, <2>3, <4>1 DEF IsLast
      <4>4. HoldsLast(functions'[n], Before(TopOf(n), next'))
        BY <4>1, <4>2, <4>3 DEF HoldsLast
      <4>5. HoldsFirst(module'[n], Before(TopOf(n), next'))
        <5>1. CASE Before(TopOf(n), next) = {}
          <6>1. module[n] = Free /\ module'[n] = [kind |-> "function", id |-> next]
            <7>1. module[n] = Free
              BY <1>2, <5>1 DEF HoldsFirst
            <7>2. module' = [module EXCEPT ![n] = [kind |-> "function", id |-> next]]
              BY <2>1, <3>2, <7>1 DEF NamedFunction, Free
            <7>3. DOMAIN module = Names
              BY <1>1
            <7> QED
              BY <7>1, <7>2, <7>3
          <6> QED
            BY <1>1, <4>1, <5>1, <6>1 DEF HoldsFirst, IsFirst
        <5>2. CASE Before(TopOf(n), next) # {}
          <6>1. /\ module[n].kind = "function" /\ IsFirst(module[n].id, Before(TopOf(n), next))
                /\ module' = module
            BY <1>2, <2>1, <3>2, <5>2 DEF HoldsFirst, NamedFunction
          <6>2. IsFirst(module[n].id, Before(TopOf(n), next'))
            BY <1>1, <2>3, <4>1, <6>1 DEF IsFirst
          <6> QED
            BY <4>1, <6>1, <6>2 DEF HoldsFirst
        <5> QED
          BY <5>1, <5>2
      <4> QED
        BY <4>4, <4>5
    <3> QED
      BY <3>1, <3>2
  <2> QED
    BY <1>2, <1>4, <2>1, <2>4
<1>6. CASE DeclareBlock \/ DeclareClose \/ DeclareSkip
  <2>1. /\ next \in Positions /\ program[next].kind # "func" /\ next' = next + 1
        /\ UNCHANGED <<phase, functions, module>>
    BY <1>6 DEF DeclareBlock, DeclareClose, DeclareSkip, Visiting, Enter, Leave
  <2>2. ASSUME NEW n \in Names PROVE Before(TopOf(n), next') = Before(TopOf(n), next)
    <3>1. ~ IsFunction(next, n)
      BY <2>1 DEF IsFunction
    <3>2. Before(TopOf(n), next + 1) = Before(TopOf(n), next) \cup {}
      BY <2>1, <3>1, BeforeSteps
    <3> QED
      BY <2>1, <3>2
  <2>3. \A k \in 1..Len(visits') : program[visits'[k]].kind = "block"
    <3>1. CASE DeclareBlock
      <4>1. visits' = Append(visits, next) /\ program[next].kind = "block"
        BY <3>1 DEF DeclareBlock, Enter, Visiting
      <4> QED
        BY <1>1, <1>2, <4>1
    <3>2. CASE DeclareClose
      <4>1. visits' = Popped(visits, 1) /\ program[next].kind = "close"
        BY <3>2 DEF DeclareClose, Leave, Visiting
      <4>2. 1 \in 0..Len(visits)
        BY <1>1, <2>1, <4>1, AtClose
      <4>3. /\ Len(visits') = Len(visits) - 1
            /\ \A k \in 1..(Len(visits) - 1) : visits'[k] = visits[k]
        BY <1>1, <4>1, <4>2, PoppedIs
      <4> QED
        BY <1>1, <1>2, <4>3
    <3>3. CASE DeclareSkip
      BY <1>2, <3>3 DEF DeclareSkip
    <3> QED
      BY <1>6, <3>1, <3>2, <3>3
  <2> QED
    BY <1>2, <1>4, <2>1, <2>2, <2>3
<1>7. CASE DeclareEnd
  <2>1. /\ next > Len(program) /\ next' = 1 /\ phase' = "check"
        /\ UNCHANGED <<functions, module>>
    BY <1>7 DEF DeclareEnd, Finished, BeginPass
  <2>2. \A n \in Names : Typing(n, next)' = TopOf(n) /\ TopOf(n)' = TopOf(n)
    <3>1. \A n \in Names : /\ TopOf(n)' = TopOf(n) /\ Before(AllOf(n), next)' = {}
      BY <1>1, <2>1, NamedKept, BeforeSteps
    <3> QED
      BY <3>1 DEF Typing
  <2>3. \A n \in Names : Before(TopOf(n), next) = TopOf(n)
    BY <1>1, <2>1, BeforeSteps
  <2>4. \A n \in Names : HoldsLast(functions[n], TopOf(n)) /\ HoldsFirst(module[n], TopOf(n))
    BY <1>2, <2>3
  <2>5. \A n \in Names : /\ HoldsLast(functions[n], Typing(n, next))'
                         /\ HoldsFirst(module[n], TopOf(n))'
    BY <2>1, <2>2, <2>4 DEF HoldsLast, HoldsFirst, IsLast, IsFirst, Free
  <2> QED
    BY <2>1, <2>5 DEF FunctionsAsWalked
<1>8. DeclareFunction \/ DeclareBlock \/ DeclareClose \/ DeclareSkip \/ DeclareEnd
  BY EarlySteps DEF CheckLet, CheckPrint, CheckReturn, CheckFunction, CheckBlock,
     CheckClose, CheckErrors, CheckEnd, Visiting, Finished
<1> QED
  BY <1>5, <1>6, <1>7, <1>8

(* The check declares the functions again as it meets them.                *)
LEMMA CheckPass ==
  ASSUME Types, FunctionsAsWalked, phase = "check", PassStep
  PROVE  FunctionsAsWalked'
<1>1. /\ Walk /\ UNCHANGED <<program, mode>> /\ Len(program) \in Nat /\ next \in Nat \ {0}
      /\ functions \in Table("Function")
  BY PassMoves, WalkHere DEF Types, Tabled
<1>2. \A n \in Names : /\ HoldsLast(functions[n], Typing(n, next))
                       /\ HoldsFirst(module[n], TopOf(n))
  BY DEF FunctionsAsWalked
<1>3. module' = module
  BY PassChanges DEF DeclareFunction, GenerateLet, GenerateFunction, Generating, Visiting
<1>4. ASSUME NEW n \in Names
      PROVE  HoldsFirst(module[n], TopOf(n))' <=> HoldsFirst(module[n], TopOf(n))
  <2>1. TopOf(n)' = TopOf(n)
    BY <1>1, NamedKept
  <2> QED
    BY <1>3, <2>1 DEF HoldsFirst, IsFirst, Free
<1>5. CASE CheckFunction
  <2> DEFINE m == program[next].name
  <2>1. /\ next \in Positions /\ program[next].kind = "func" /\ m \in Names
        /\ functions' = [functions EXCEPT ![m] = [kind |-> "Function", id |-> next]]
        /\ next' = next + 1 /\ phase' = phase
    BY <1>1, <1>5, KindAtNext DEF CheckFunction, Visiting, Enter
  <2>2. ASSUME NEW n \in Names PROVE HoldsLast(functions[n], Typing(n, next))'
    <3>1. /\ Before(AllOf(n), next + 1)
                 = Before(AllOf(n), next) \cup (IF n = m THEN {next} ELSE {})
          /\ AllOf(n) \in SUBSET (0..Len(program))
      BY <2>1, BeforeSteps DEF IsFunction
    <3>2. Before(AllOf(n), next)' = Before(AllOf(n), next + 1) /\ TopOf(n)' = TopOf(n)
      BY <1>1, <2>1, NamedKept
    <3>3. CASE n # m
      <4>1. functions'[n] = functions[n]
        BY <1>1, <2>1, <3>3 DEF Table
      <4>2. Typing(n, next)' = Typing(n, next)
        BY <3>1, <3>2, <3>3 DEF Typing
      <4>3. HoldsLast(functions[n], Typing(n, next))
        BY <1>2
      <4> QED
        BY <4>1, <4>2, <4>3 DEF HoldsLast, IsLast
    <3>4. CASE n = m
      <4>1. functions'[n] = [kind |-> "Function", id |-> next]
        BY <1>1, <2>1, <3>4 DEF Table
      <4>2. Typing(n, next)' = Before(AllOf(n), next) \cup {next}
        BY <3>1, <3>2, <3>4 DEF Typing
      <4>3. \A k \in Before(AllOf(n), next) : k <= next
        BY <1>1, <3>1 DEF Before
      <4>4. IsLast(next, Before(AllOf(n), next) \cup {next})
        BY <1>1, <4>3 DEF IsLast
      <4>5. HoldsLast(functions'[n], Before(AllOf(n), next) \cup {next})
        BY <4>1, <4>4 DEF HoldsLast
      <4> QED
        BY <4>2, <4>5 DEF HoldsLast, IsLast
    <3> QED
      BY <3>3, <3>4
  <2> QED
    BY <1>2, <1>4, <2>1, <2>2 DEF FunctionsAsWalked
<1>6. CASE CheckLet \/ CheckPrint \/ CheckReturn \/ CheckBlock \/ CheckClose
  <2>1. /\ next \in Positions /\ program[next].kind # "func" /\ next' = next + 1
        /\ UNCHANGED <<phase, functions>>
    BY <1>6 DEF CheckLet, CheckPrint, CheckReturn, CheckBlock, CheckClose, Visiting, Enter, Leave
  <2>2. ASSUME NEW n \in Names PROVE HoldsLast(functions[n], Typing(n, next))'
    <3>1. ~ IsFunction(next, n)
      BY <2>1 DEF IsFunction
    <3>2. Before(AllOf(n), next + 1) = Before(AllOf(n), next) \cup {}
      BY <2>1, <3>1, BeforeSteps
    <3>3. Before(AllOf(n), next)' = Before(AllOf(n), next + 1) /\ TopOf(n)' = TopOf(n)
      BY <1>1, <2>1, NamedKept
    <3>4. Typing(n, next)' = Typing(n, next)
      BY <3>2, <3>3 DEF Typing
    <3>5. HoldsLast(functions[n], Typing(n, next))
      BY <1>2
    <3> QED
      BY <2>1, <3>4, <3>5 DEF HoldsLast, IsLast
  <2> QED
    BY <1>2, <1>4, <2>1, <2>2 DEF FunctionsAsWalked
<1>7. CASE CheckErrors
  BY <1>7 DEF CheckErrors, FunctionsAsWalked
<1>8. CASE CheckEnd
  <2>1. phase' = "generate" /\ next' = 1
    BY <1>8 DEF CheckEnd, BeginPass
  <2>2. ASSUME NEW n \in Names
        PROVE  /\ HoldsFirst(module[n], TopOf(n))'
               /\ TopOf(n)' = {} => module'[n] = Free /\ Before(AllOf(n), next)' = {}
    <3>1. HoldsFirst(module[n], TopOf(n)) /\ HoldsFirst(module[n], TopOf(n))'
      BY <1>2, <1>4
    <3>2. TopOf(n)' = TopOf(n) /\ Before(AllOf(n), next)' = {}
      BY <1>1, <2>1, NamedKept, BeforeSteps
    <3> QED
      BY <1>3, <3>1, <3>2 DEF HoldsFirst
  <2>3. ASSUME NEW n \in Names, TopOf(n)' = {}
        PROVE  module'[n].kind # "function" /\ Before(AllOf(n), next)' = {}
    BY <2>2, <2>3 DEF Free
  <2> QED
    BY <2>1, <2>2, <2>3 DEF FunctionsAsWalked
<1>9. \/ CheckLet \/ CheckPrint \/ CheckReturn \/ CheckFunction \/ CheckBlock
      \/ CheckClose \/ CheckErrors \/ CheckEnd
  BY EarlySteps DEF DeclareFunction, DeclareBlock, DeclareClose, DeclareSkip, DeclareEnd,
     Visiting, Finished
<1> QED
  BY <1>5, <1>6, <1>7, <1>8, <1>9

(* The generation adds to the module what the declaration did not meet.    *)
LEMMA GeneratePass ==
  ASSUME Types, FunctionsAsWalked, phase = "generate", PassStep
  PROVE  FunctionsAsWalked'
<1>1. /\ Walk /\ UNCHANGED <<program, mode>> /\ Len(program) \in Nat /\ next \in Nat \ {0}
      /\ module \in [Names -> ModuleEntry]
  BY PassMoves, WalkHere DEF Types, Tabled
<1>2. ASSUME phase' = "generate",
             \A n \in Names : mode = "Run" =>
               /\ TopOf(n) # {} => HoldsFirst(module'[n], TopOf(n))
               /\ TopOf(n) = {} =>
                    /\ module'[n].kind = "function" => IsFirst(module'[n].id, AllOf(n))
                    /\ module'[n] = Free => Before(AllOf(n), next') = {}
      PROVE  FunctionsAsWalked'
  <2>1. \A n \in Names : /\ AllOf(n)' = AllOf(n) /\ TopOf(n)' = TopOf(n)
                         /\ Before(AllOf(n), next)' = Before(AllOf(n), next')
    BY <1>1, NamedKept
  <2>2. ASSUME NEW n \in Names, mode = "Run"
        PROVE  /\ TopOf(n)' # {} => HoldsFirst(module[n], TopOf(n))'
               /\ TopOf(n)' = {} =>
                    /\ module'[n].kind = "function" => IsFirst(module[n].id, AllOf(n))'
                    /\ module'[n] = Free => Before(AllOf(n), next)' = {}
    BY <1>2, <2>1, <2>2 DEF HoldsFirst, IsFirst, Free
  <2> QED
    BY <1>1, <1>2, <2>2 DEF FunctionsAsWalked, Free
<1>3. ASSUME NEW n \in Names, mode = "Run"
      PROVE  /\ TopOf(n) # {} => HoldsFirst(module[n], TopOf(n))
             /\ TopOf(n) = {} =>
                  /\ module[n].kind = "function" => IsFirst(module[n].id, AllOf(n))
                  /\ module[n] = Free => Before(AllOf(n), next) = {}
  BY <1>3 DEF FunctionsAsWalked
<1>4. CASE phase' # "generate"
  <2>1. phase' \notin {"declare", "check"}
    BY <1>1, PassMoves
  <2> QED
    BY <1>4, <2>1 DEF FunctionsAsWalked
<1>5. CASE GenerateFunction
  <2> DEFINE m == program[next].name
  <2>1. /\ next \in Positions /\ program[next].kind = "func" /\ m \in Names
        /\ module' = NamedFunction(module, m, next)
        /\ next' = next + 1 /\ phase' = phase
    BY <1>1, <1>5, KindAtNext DEF GenerateFunction, Generating, Visiting, Enter
  <2>2. ASSUME NEW n \in Names, mode = "Run"
        PROVE  /\ TopOf(n) # {} => HoldsFirst(module'[n], TopOf(n))
               /\ TopOf(n) = {} =>
                    /\ module'[n].kind = "function" => IsFirst(module'[n].id, AllOf(n))
                    /\ module'[n] = Free => Before(AllOf(n), next') = {}
    <3>1. /\ Before(AllOf(n), next')
                = Before(AllOf(n), next) \cup (IF n = m THEN {next} ELSE {})
          /\ AllOf(n) \in SUBSET (0..Len(program))
      BY <2>1, BeforeSteps DEF IsFunction
    <3>2. CASE n # m \/ module[n].kind # "free"
      <4>1. module'[n] = module[n]
        BY <1>1, <2>1, <3>2 DEF NamedFunction
      <4>2. module[n] = Free => Before(AllOf(n), next') = Before(AllOf(n), next)
        BY <3>1, <3>2 DEF Free
      <4> QED
        BY <1>3, <2>2, <4>1, <4>2
    <3>3. CASE n = m /\ module[n].kind = "free"
      <4>1. module[n] = Free /\ TopOf(n) = {} /\ Before(AllOf(n), next) = {}
        <5>1. module[n] = Free
          BY <1>1, <3>3 DEF ModuleEntry
        <5> QED
          BY <1>3, <2>2, <5>1 DEF HoldsFirst, Free
      <4>2. module'[n] = [kind |-> "function", id |-> next]
        <5>1. module' = [module EXCEPT ![n] = [kind |-> "function", id |-> next]]
          BY <2>1, <3>3 DEF NamedFunction
        <5>2. DOMAIN module = Names
          BY <1>1
        <5> QED
          BY <5>1, <5>2
      <4>3. next \in AllOf(n)
        BY <2>1, <3>3 DEF AllOf, IsFunction
      <4>4. ASSUME NEW k \in AllOf(n) PROVE next <= k
        <5>1. k \in Nat
          BY <3>1
        <5>2. ~ (k < next)
          BY <4>1 DEF Before
        <5> QED
          BY <1>1, <5>1, <5>2
      <4>5. IsFirst(next, AllOf(n))
        BY <4>3, <4>4 DEF IsFirst
      <4> QED
        BY <4>1, <4>2, <4>5 DEF Free
    <3> QED
      BY <3>2, <3>3
  <2> QED
    BY <1>2, <2>1, <2>2
<1>6. CASE GenerateLet
  <2> DEFINE m == program[next].name
  <2>1. /\ next \in Positions /\ program[next].kind = "let" /\ m \in Names
        /\ \/ module' = module
           \/ /\ module[m].kind = "free"
              /\ module' = [module EXCEPT ![m] = [kind |-> "global", id |-> next]]
        /\ next' = next + 1 /\ phase' = phase
    BY <1>1, <1>6, KindAtNext DEF GenerateLet, Generating, Visiting
  <2>2. ASSUME NEW n \in Names, mode = "Run"
        PROVE  /\ TopOf(n) # {} => HoldsFirst(module'[n], TopOf(n))
               /\ TopOf(n) = {} =>
                    /\ module'[n].kind = "function" => IsFirst(module'[n].id, AllOf(n))
                    /\ module'[n] = Free => Before(AllOf(n), next') = {}
    <3>1. ~ IsFunction(next, n)
      BY <2>1 DEF IsFunction
    <3>2. Before(AllOf(n), next') = Before(AllOf(n), next) \cup {}
      BY <2>1, <3>1, BeforeSteps
    <3>3. CASE module'[n] = module[n]
      BY <1>3, <2>2, <3>2, <3>3
    <3>4. CASE module'[n] # module[n]
      <4>1. module[n].kind = "free" /\ module'[n] = [kind |-> "global", id |-> next]
        BY <1>1, <2>1, <3>4
      <4>2. TopOf(n) = {}
        BY <1>3, <2>2, <4>1 DEF HoldsFirst
      <4> QED
        BY <4>1, <4>2 DEF Free
    <3> QED
      BY <3>3, <3>4
  <2> QED
    BY <1>2, <2>1, <2>2
<1>7. CASE \/ GeneratePrint \/ GenerateReturn \/ GenerateBlock \/ GenerateClose
  <2>1. /\ next \in Positions /\ program[next].kind # "func" /\ module' = module
        /\ next' = next + 1 \/ next' = next
    BY <1>7 DEF GeneratePrint, GenerateReturn, GenerateBlock, GenerateClose, Generating,
                Visiting, Enter, Leave
  <2>2. ASSUME NEW n \in Names PROVE Before(AllOf(n), next') = Before(AllOf(n), next)
    <3>1. ~ IsFunction(next, n)
      BY <2>1 DEF IsFunction
    <3>2. Before(AllOf(n), next + 1) = Before(AllOf(n), next) \cup {}
      BY <2>1, <3>1, BeforeSteps
    <3> QED
      BY <2>1, <3>2
  <2> QED
    BY <1>2, <1>3, <1>4, <2>1, <2>2
<1>8. CASE GenerateUndefined \/ GenerateThrow \/ GenerateEnd
  BY <1>4, <1>8 DEF GenerateUndefined, GenerateThrow, GenerateEnd
<1> QED
  BY <1>5, <1>6, <1>7, <1>8, LateSteps

(***************************************************************************)
(* What the calls of a program are bound to.                               *)
(***************************************************************************)
CallsBound ==
  /\ mode = "none" => checked = <<>>
  /\ mode = "Build" => checked = NothingSeen
  /\ mode = "Run" =>
       \A i \in Positions : Use(i).kind = "call" =>
         /\ checked[i].kind = "Function" => IsLast(checked[i].id, Typing(Use(i).name, i))
         /\ generated[i] # Unseen => IsFirst(generated[i].id, Called(Use(i).name))

LEMMA UseKept ==
  ASSUME program' = program
  PROVE  \A i : Use(i)' = Use(i)
BY DEF Use

(* What the check finds for a call that is a function.                     *)
LEMMA FunctionFound ==
  ASSUME Types, NEW ss \in Seq(Scope), NEW n \in Names,
         Found(ss, "swa", functions, n).kind = "Function"
  PROVE  Found(ss, "swa", functions, n) = functions[n]
<1> DEFINE e == Found(ss, "swa", functions, n)
<1>1. functions[n] \in Entries
  <2>1. functions[n] \in [kind : {"Function"}, id : Positions] \cup {Absent}
    BY DEF Types, Tabled, Table
  <2> QED
    BY <2>1 DEF Entries
<1>2. ASSUME NEW i \in 1..Len(ss) PROVE ss[i]["swa"][n].kind # "Function"
  <2>1. ss[i] \in Scope
    OBVIOUS
  <2>2. ss[i]["swa"] \in Table("Variable")
    BY <2>1 DEF Scope
  <2>3. ss[i]["swa"][n] \in [kind : {"Variable"}, id : Positions] \cup {Absent}
    BY <2>2 DEF Table
  <2> QED
    BY <2>3 DEF Absent
<1>3. (\E i \in 1..Len(ss) : e = ss[i]["swa"][n]) \/ e = functions[n]
  BY <1>1, FoundIsInnermost
<1> QED
  BY <1>2, <1>3

LEMMA CallsBoundPass ==
  ASSUME Types, FunctionsAsWalked, CallsBound, PassStep
  PROVE  CallsBound'
<1>1. /\ Walk /\ UNCHANGED <<program, mode>> /\ Positions' = Positions /\ mode # "none"
      /\ phase \in Passes
  BY PassMoves DEF Types, Positions, Walk, Passes
<1>2. /\ checked \in [Positions -> Binding({"Variable", "Function"})]
      /\ generated \in [Positions -> Binding({"Value", "Function"})]
      /\ scopes \in Seq(Scope)
  BY <1>1 DEF Types, Tabled, Counted
<1>3. ASSUME mode' = "Build" => checked' = NothingSeen,
             \A i \in Positions : mode = "Run" /\ Use(i).kind = "call" =>
               /\ checked'[i].kind = "Function" => IsLast(checked'[i].id, Typing(Use(i).name, i))
               /\ generated'[i] # Unseen => IsFirst(generated'[i].id, Called(Use(i).name))
      PROVE  CallsBound'
  <2>1. NothingSeen' = NothingSeen
    BY <1>1 DEF NothingSeen
  <2>2. ASSUME NEW i \in Positions
        PROVE  /\ Use(i)' = Use(i)
               /\ Typing(Use(i).name, i)' = Typing(Use(i).name, i)
               /\ Called(Use(i).name)' = Called(Use(i).name)
    BY <1>1, UseKept, NamedKept DEF Typing
  <2>3. ASSUME NEW i \in Positions, mode = "Run", Use(i).kind = "call"
        PROVE  /\ checked'[i].kind = "Function" => IsLast(checked[i].id, Typing(Use(i).name, i))'
               /\ generated'[i] # Unseen => IsFirst(generated[i].id, Called(Use(i).name))'
    BY <1>3, <2>2, <2>3 DEF IsLast, IsFirst
  <2> QED
    BY <1>1, <1>3, <2>1, <2>2, <2>3 DEF CallsBound, Unseen
<1>4. ASSUME NEW i \in Positions, mode = "Run", Use(i).kind = "call"
      PROVE  /\ checked[i].kind = "Function" => IsLast(checked[i].id, Typing(Use(i).name, i))
             /\ generated[i] # Unseen => IsFirst(generated[i].id, Called(Use(i).name))
  BY <1>4 DEF CallsBound
<1>5. ASSUME NEW ss \in Seq(Scope), next \in Positions,
             program[next].kind \in {"let", "print"}, phase = "check", mode = "Run",
             Check(ss, program[next].use), generated' = generated
      PROVE  CallsBound'
  <2> DEFINE u == program[next].use
  <2>1. u = Use(next) /\ u \in Uses
    BY <1>1, <1>5, KindAtNext DEF Use
  <2>2. ASSUME NEW i \in Positions, Use(i).kind = "call"
        PROVE  checked'[i].kind = "Function" => IsLast(checked'[i].id, Typing(Use(i).name, i))
    <3>1. CASE i # next \/ u = Literal
      <4>1. checked'[i] = checked[i]
        BY <1>2, <1>5, <3>1 DEF Check
      <4> QED
        BY <1>4, <1>5, <2>2, <4>1
    <3>2. CASE i = next /\ u # Literal /\ checked'[i].kind = "Function"
      <4> DEFINE e == Found(ss, "swa", functions, u.name)
      <4>1. u.name \in Names
        BY <2>1, <3>2 DEF Uses
      <4>2. checked'[i] = e
        BY <1>2, <1>5, <3>2 DEF Check
      <4>3. e = functions[u.name]
        BY <1>5, <3>2, <4>1, <4>2, FunctionFound
      <4>4. HoldsLast(functions[u.name], Typing(u.name, next))
        BY <1>5, <4>1 DEF FunctionsAsWalked
      <4>5. IsLast(e.id, Typing(u.name, next))
        BY <3>2, <4>2, <4>3, <4>4 DEF HoldsLast, Absent
      <4> QED
        BY <2>1, <3>2, <4>2, <4>5
    <3> QED
      BY <3>1, <3>2
  <2> QED
    BY <1>1, <1>3, <1>4, <1>5, <2>2
<1>6. CASE CheckLet
  <2>1. /\ next \in Positions /\ program[next].kind = "let" /\ phase = "check"
        /\ program[next].name \in Names /\ generated' = generated
    BY <1>1, <1>6, KindAtNext DEF CheckLet, Visiting
  <2>2. mode = "Run"
    BY <1>1, <2>1 DEF Walk
  <2>3. Check(Declared(scopes, "swa", program[next].name, [kind |-> "Variable", id |-> next]),
              program[next].use)
    BY <1>6 DEF CheckLet
  <2>4. scopes # <<>>
    <3>1. Len(visits) \in Nat /\ Len(scopes) = 1 + Len(visits)
      BY <1>1, <2>1, <2>2, WalkHere DEF Types, Counted, Late
    <3> QED
      BY <3>1
  <2>5. Declared(scopes, "swa", program[next].name, [kind |-> "Variable", id |-> next])
          \in Seq(Scope)
    BY <1>2, <2>1, <2>4, DeclaredTyped
  <2> QED
    BY <1>5, <2>1, <2>2, <2>3, <2>5
<1>7. CASE CheckPrint
  <2>1. /\ next \in Positions /\ program[next].kind = "print" /\ phase = "check"
        /\ Check(scopes, program[next].use) /\ generated' = generated
    BY <1>7 DEF CheckPrint, Visiting
  <2>2. mode = "Run"
    BY <1>1, <2>1 DEF Walk
  <2> QED
    BY <1>2, <1>5, <2>1, <2>2
<1>8. CASE GenerateLet \/ GeneratePrint \/ GenerateReturn
  <2> DEFINE u == program[next].use
  <2>1. /\ next \in Positions /\ program[next].kind \in {"let", "print", "return"}
        /\ phase = "generate" /\ Evaluate(u) /\ checked' = checked
    BY <1>8 DEF GenerateLet, GeneratePrint, GenerateReturn, Generating, Visiting
  <2>2. u = Use(next) /\ u \in Uses
    BY <1>1, <2>1, KindAtNext DEF Use
  <2>3. ASSUME NEW i \in Positions, mode = "Run", Use(i).kind = "call", generated'[i] # Unseen
        PROVE  IsFirst(generated'[i].id, Called(Use(i).name))
    <3>1. CASE i # next
      <4>1. generated'[i] = generated[i]
        BY <1>2, <2>1, <3>1 DEF Evaluate
      <4> QED
        BY <1>4, <2>3, <4>1
    <3>2. CASE i = next
      <4>1. u.name \in Names /\ u.kind = "call"
        BY <2>2, <2>3, <3>2 DEF Uses, Literal
      <4>2. module[u.name].kind = "function"
              /\ generated'[i] = [kind |-> "Function", id |-> module[u.name].id]
        <5>1. Resolution(u) = IF module[u.name].kind = "function"
                              THEN [kind |-> "Function", id |-> module[u.name].id] ELSE Absent
          BY <4>1 DEF Resolution
        <5> QED
          BY <1>2, <2>1, <3>2, <5>1 DEF Evaluate
      <4>3. IsFirst(module[u.name].id, Called(u.name))
        BY <2>1, <2>3, <4>1, <4>2 DEF FunctionsAsWalked, HoldsFirst, Called
      <4> QED
        BY <2>2, <3>2, <4>2, <4>3
    <3> QED
      BY <3>1, <3>2
  <2> QED
    BY <1>1, <1>3, <1>4, <2>1, <2>3 DEF CallsBound
<1>9. CASE UNCHANGED <<checked, generated>>
  BY <1>1, <1>3, <1>4, <1>9 DEF CallsBound
<1> QED
  BY <1>6, <1>7, <1>8, <1>9, PassChanges

(* A call is refused only if no function of its name is at the top level.  *)
LEMMA RefusedIsMissing ==
  ASSUME Types, FunctionsAsWalked, FunctionsCallable, PassStep
  PROVE  FunctionsCallable'
<1>1. /\ Walk /\ UNCHANGED <<program, mode>> /\ phase \in Passes
  BY PassMoves DEF Types
<1>2. ASSUME phase' = "refused" PROVE GenerateThrow
  <2>1. CASE phase = "generate"
    BY <1>2, <2>1, LateSteps
       DEF GenerateUndefined, GenerateLet, GeneratePrint, GenerateReturn, GenerateFunction,
           GenerateBlock, GenerateClose, GenerateEnd
  <2>2. CASE phase \in {"declare", "check"}
    BY <1>2, <2>2, EarlySteps
       DEF DeclareFunction, DeclareBlock, DeclareClose, DeclareSkip, DeclareEnd, CheckLet,
           CheckPrint, CheckReturn, CheckFunction, CheckBlock, CheckClose, CheckErrors,
           CheckEnd, BeginPass
  <2> QED
    BY <1>1, <2>1, <2>2 DEF Passes
<1>3. ASSUME phase' = "refused" PROVE FunctionsCallable'
  <2> DEFINE u == program[next].use
  <2>1. /\ phase = "generate" /\ next \in Positions /\ next' = next
        /\ program[next].kind \in {"let", "print", "return"}
        /\ Resolution(u) = Absent /\ u.kind = "call" /\ mode = "Run"
    BY <1>2, <1>3 DEF GenerateThrow, Generating, Visiting
  <2>2. u.name \in Names
    <3>1. u \in Uses
      BY <1>1, <2>1, KindAtNext
    <3> QED
      BY <2>1, <3>1 DEF Uses, Literal
  <2>3. module[u.name].kind # "function"
    BY <2>1 DEF Resolution, Absent
  <2>4. TopOf(u.name) = {}
    BY <2>1, <2>2, <2>3 DEF FunctionsAsWalked, HoldsFirst
  <2>5. TopOf(u.name)' = {}
    <3>1. ASSUME NEW n PROVE TopOf(n)' = TopOf(n)
      BY <1>1, NamedKept
    <3>2. u' = u
      BY <1>1, <2>1
    <3> HIDE DEF u
    <3> QED
      BY <2>4, <3>1, <3>2
  <2>6. (program[next].use.name)' = u.name
    BY <1>1, <2>1
  <2> QED
    BY <2>5, <2>6 DEF FunctionsCallable, TopOf, AllOf
<1> QED
  BY <1>3 DEF FunctionsCallable

Callable == Types /\ FunctionsAsWalked /\ CallsBound /\ FunctionsCallable

LEMMA CallableInit == Init => Callable
<1> SUFFICES ASSUME Init PROVE Callable
  OBVIOUS
<1>1. FunctionsAsWalked /\ CallsBound /\ FunctionsCallable
  BY DEF Init, FunctionsAsWalked, CallsBound, FunctionsCallable
<1> QED
  BY <1>1, TypesInit DEF Callable

LEMMA CallableNext == Callable /\ [Next]_vars => Callable'
<1> SUFFICES ASSUME Callable, [Next]_vars PROVE Callable'
  OBVIOUS
<1> USE DEF Callable
<1>1. Types'
  BY TypesNext
<1>2. CASE UNCHANGED vars
  <2>1. \A n : /\ AllOf(n)' = AllOf(n) /\ TopOf(n)' = TopOf(n) /\ Called(n)' = Called(n)
               /\ Before(AllOf(n), next)' = Before(AllOf(n), next)
               /\ Before(TopOf(n), next)' = Before(TopOf(n), next)
               /\ Typing(n, next)' = Typing(n, next)
    BY <1>2, NamedKept DEF vars, Typing
  <2>2. FunctionsAsWalked'
    <3>1. \A n : /\ HoldsLast(functions[n], Before(TopOf(n), next))'
                       <=> HoldsLast(functions[n], Before(TopOf(n), next))
                 /\ HoldsFirst(module[n], Before(TopOf(n), next))'
                       <=> HoldsFirst(module[n], Before(TopOf(n), next))
                 /\ HoldsLast(functions[n], Typing(n, next))'
                       <=> HoldsLast(functions[n], Typing(n, next))
                 /\ HoldsFirst(module[n], TopOf(n))' <=> HoldsFirst(module[n], TopOf(n))
                 /\ IsFirst(module[n].id, AllOf(n))' <=> IsFirst(module[n].id, AllOf(n))
      BY <1>2, <2>1 DEF vars, HoldsLast, HoldsFirst, IsLast, IsFirst, Free
    <3> QED
      BY <1>2, <2>1, <3>1 DEF vars, FunctionsAsWalked, Free
  <2>3. CallsBound'
    <3>1. Positions' = Positions /\ NothingSeen' = NothingSeen /\ \A i : Use(i)' = Use(i)
      BY <1>2, UseKept DEF vars, Positions, NothingSeen
    <3>2. ASSUME NEW i \in Positions
          PROVE  /\ Typing(Use(i).name, i)' = Typing(Use(i).name, i)
                 /\ Called(Use(i).name)' = Called(Use(i).name)
      BY <1>2, <3>1, NamedKept DEF vars, Typing
    <3>3. ASSUME NEW i \in Positions, mode = "Run", Use(i).kind = "call"
          PROVE  /\ checked'[i].kind = "Function" => IsLast(checked[i].id, Typing(Use(i).name, i))'
                 /\ generated'[i] # Unseen => IsFirst(generated[i].id, Called(Use(i).name))'
      BY <1>2, <3>1, <3>2, <3>3 DEF vars, CallsBound, IsLast, IsFirst
    <3> QED
      BY <1>2, <3>1, <3>3 DEF vars, CallsBound, Unseen
  <2>4. FunctionsCallable'
    BY <1>2, <2>1 DEF vars, FunctionsCallable, TopOf, AllOf
  <2> QED
    BY <1>1, <2>2, <2>3, <2>4
<1>3. CASE (\E s \in Statements : ParseStatement(s)) \/ ParseClose
  <2>1. phase = "parse" /\ mode = "none" /\ UNCHANGED <<mode, phase, checked>>
    BY <1>3 DEF ParseStatement, ParseClose, Types, Walk
  <2> QED
    BY <1>1, <2>1 DEF FunctionsAsWalked, CallsBound, FunctionsCallable
<1>4. CASE StartRun \/ StartBuild
  <2>1. /\ phase = "parse" /\ UNCHANGED <<program, functions, module>>
        /\ <<mode', phase'>> \in {<<"Run", "declare">>, <<"Build", "generate">>}
        /\ checked' = NothingSeen /\ generated' = NothingSeen /\ next' = 1 /\ visits' = <<>>
    BY <1>4 DEF StartRun, StartBuild, BeginPass
  <2>2. \A n \in Names : functions'[n] = Absent /\ module'[n] = Free
    BY <2>1 DEF Types, Tabled, NoEntries
  <2>3. \A n \in Names : Before(TopOf(n), next)' = {}
    BY <2>1, NamedKept, BeforeSteps
  <2>4. FunctionsAsWalked'
    BY <2>1, <2>2, <2>3 DEF FunctionsAsWalked, HoldsLast, HoldsFirst, Free
  <2>5. CallsBound'
    <3>1. Positions' = Positions /\ NothingSeen' = NothingSeen
      BY <2>1 DEF Positions, NothingSeen
    <3>2. \A i \in Positions : checked'[i] = Unseen /\ generated'[i] = Unseen
      BY <2>1 DEF NothingSeen
    <3> QED
      BY <2>1, <3>1, <3>2 DEF CallsBound, Unseen
  <2>6. FunctionsCallable'
    BY <2>1 DEF FunctionsCallable
  <2> QED
    BY <1>1, <2>4, <2>5, <2>6
<1>5. CASE PassStep
  <2>1. phase \in Passes
    BY <1>5, PassMoves DEF Types
  <2>2. FunctionsAsWalked'
    BY <1>5, <2>1, DeclarePass, CheckPass, GeneratePass DEF Passes
  <2>3. CallsBound' /\ FunctionsCallable'
    BY <1>5, CallsBoundPass, RefusedIsMissing
  <2> QED
    BY <1>1, <2>2, <2>3
<1> QED
  BY <1>2, <1>3, <1>4, <1>5, NextSteps

LEMMA CallableSuffices == Callable => CallsBindAsDeclared
<1> SUFFICES ASSUME Callable, NEW i \in DOMAIN checked, Bound(i, "call"),
                    checked[i].kind = "Function"
             PROVE  /\ IsFirst(generated[i].id, Called(Use(i).name))
                    /\ IsLast(checked[i].id, Typing(Use(i).name, i))
  BY DEF CallsBindAsDeclared, Called, Typing, Before, TopOf, AllOf, IsFirst, IsLast
<1>1. mode # "none"
  BY DEF Callable, CallsBound
<1>2. i \in Positions
  BY <1>1 DEF Callable, Types, Tabled
<1>3. mode = "Run"
  <2>1. NothingSeen[i].kind # "Function"
    BY <1>2 DEF NothingSeen, Unseen
  <2> QED
    BY <1>1, <2>1 DEF Callable, Types, Walk, CallsBound
<1> QED
  BY <1>2, <1>3 DEF Callable, CallsBound, Bound

LEMMA CallableAlways == Spec => []Callable
<1> QED
  BY CallableInit, CallableNext, PTL DEF Spec

(* In SwaCompiler::Run a function that is not inside another one can be    *)
(* called from everywhere: DeclarationVisitor has put it in the module     *)
(* before the first body is generated.                                     *)
THEOREM TopFunctionsCallable == Spec => []FunctionsCallable
<1>1. Callable => FunctionsCallable
  BY DEF Callable
<1> QED
  BY <1>1, CallableAlways, PTL

(* TypeCheckVisitor types a call by the last function of its name above    *)
(* it, or of the program, and CodeGenVisitor calls the first one.          *)
THEOREM CallsBoundAsDeclared == Spec => []CallsBindAsDeclared
<1> QED
  BY CallableAlways, CallableSuffices, PTL

(***************************************************************************)
(* The variables that are visible before position c: the lets whose block  *)
(* is still open.  Those of depth d are in one block.                      *)
(***************************************************************************)
IsLet(text, j, n) == text[j].kind = "let" /\ text[j].name = n
VisibleAt(text, n, c, d) ==
  {j \in 1..(c - 1) : /\ IsLet(text, j, n) /\ Depth(text, j) = d
                      /\ \A i \in j..(c - 1) : Depth(text, i) >= d}
Visible(text, n, c) ==
  {j \in 1..(c - 1) : /\ IsLet(text, j, n)
                      /\ \A i \in j..(c - 1) : Depth(text, i) >= Depth(text, j)}

LEMMA VisibleStart ==
  ASSUME NEW text, NEW n, NEW d
  PROVE  VisibleAt(text, n, 1, d) = {} /\ Visible(text, n, 1) = {}
BY DEF VisibleAt, Visible

LEMMA LetIsPlain ==
  ASSUME NEW text, NEW c, NEW n, IsLet(text, c, n)
  PROVE  ~ Opens(text[c]) /\ text[c] # Close
BY DEF IsLet, Opens, Close

(* What the node at c does to the variables of a block that it does not    *)
(* close.                                                                  *)
LEMMA VisibleStep ==
  ASSUME NEW text \in Program, NEW c \in 1..Len(text), NEW n, NEW d \in Int,
         d <= Depth(text, c)
  PROVE  VisibleAt(text, n, c + 1, d) =
           IF Opens(text[c]) /\ d = Depth(text, c) THEN {}
           ELSE VisibleAt(text, n, c, d)
                  \cup (IF IsLet(text, c, n) /\ d = Depth(text, c) THEN {c} ELSE {})
<1>1. /\ Len(text) \in Nat /\ c \in Nat \ {0} /\ c - 1 \in Nat /\ c + 1 - 1 = c
      /\ Depth(text, c) \in Int /\ Depth(text, c - 1) \in Int
  BY DepthIn DEF Program
<1>2. ASSUME NEW j \in 1..(c - 1)
      PROVE  j \in VisibleAt(text, n, c + 1, d)
               <=> j \in VisibleAt(text, n, c, d)
  <2>1. j..c = (j..(c - 1)) \cup {c} /\ j \in 1..c
    BY <1>1
  <2> QED
    BY <1>1, <2>1 DEF VisibleAt
<1>3. c \in VisibleAt(text, n, c + 1, d) <=> IsLet(text, c, n) /\ d = Depth(text, c)
  <2>1. c \in 1..c /\ \A i \in c..c : i = c
    BY <1>1
  <2> QED
    BY <1>1, <2>1 DEF VisibleAt
<1>4. /\ VisibleAt(text, n, c + 1, d) \in SUBSET (1..c)
      /\ VisibleAt(text, n, c, d) \in SUBSET (1..(c - 1))
  BY <1>1 DEF VisibleAt
<1>5. \A j \in 1..c : j = c \/ j \in 1..(c - 1)
  BY <1>1
<1>6. CASE Opens(text[c]) /\ d = Depth(text, c)
  <2>1. ASSUME NEW j \in VisibleAt(text, n, c, d) PROVE FALSE
    <3>1. c - 1 \in j..(c - 1)
      BY <1>1, <1>4
    <3>2. Depth(text, c - 1) >= d
      BY <3>1 DEF VisibleAt
    <3>3. Depth(text, c) = Depth(text, c - 1) + 1
      BY <1>1, <1>6, OneMove
    <3> QED
      BY <1>1, <1>6, <3>2, <3>3
  <2>2. ~ IsLet(text, c, n)
    BY <1>6, LetIsPlain
  <2>3. \A j \in 1..c : j \notin VisibleAt(text, n, c + 1, d)
    BY <1>2, <1>3, <1>5, <2>1, <2>2
  <2>4. VisibleAt(text, n, c + 1, d) = {}
    BY <1>4, <2>3
  <2> QED
    BY <1>6, <2>4
<1>7. CASE ~ (Opens(text[c]) /\ d = Depth(text, c))
  <2> DEFINE new == IF IsLet(text, c, n) /\ d = Depth(text, c) THEN {c} ELSE {}
  <2>1. \A j \in 1..(c - 1) : j # c /\ j \in 1..c
    BY <1>1
  <2>2. \A j \in 1..c : j \in VisibleAt(text, n, c + 1, d)
                          <=> j \in VisibleAt(text, n, c, d) \cup new
    BY <1>1, <1>2, <1>3, <1>4, <1>5, <2>1
  <2>3. VisibleAt(text, n, c, d) \cup new \in SUBSET (1..c)
    BY <1>1, <1>4
  <2> HIDE DEF new
  <2>4. VisibleAt(text, n, c + 1, d) = VisibleAt(text, n, c, d) \cup new
    BY <1>4, <2>2, <2>3
  <2> QED
    BY <1>7, <2>4 DEF new
<1> QED
  BY <1>6, <1>7

(* A let makes one more variable visible and hides none.                   *)
LEMMA VisibleAtUse ==
  ASSUME NEW text \in Program, NEW c \in 1..Len(text), NEW n,
         ~ Opens(text[c]), text[c] # Close
  PROVE  Visible(text, n, c + 1)
           = Visible(text, n, c) \cup (IF IsLet(text, c, n) THEN {c} ELSE {})
<1>1. /\ Len(text) \in Nat /\ c \in Nat \ {0} /\ c - 1 \in Nat /\ c + 1 - 1 = c
      /\ Depth(text, c) \in Int /\ Depth(text, c) = Depth(text, c - 1)
  BY DepthIn, OneMove DEF Program
<1>2. ASSUME NEW j \in 1..(c - 1)
      PROVE  j \in Visible(text, n, c + 1) <=> j \in Visible(text, n, c)
  <2>1. j..c = (j..(c - 1)) \cup {c} /\ j \in 1..c /\ c - 1 \in j..(c - 1)
    BY <1>1
  <2> QED
    BY <1>1, <2>1 DEF Visible
<1>3. c \in Visible(text, n, c + 1) <=> IsLet(text, c, n)
  <2>1. c \in 1..c /\ \A i \in c..c : i = c
    BY <1>1
  <2> QED
    BY <1>1, <2>1 DEF Visible
<1>4. Visible(text, n, c + 1) \in SUBSET (1..c) /\ Visible(text, n, c) \in SUBSET (1..(c - 1))
  BY <1>1 DEF Visible
<1>5. \A j \in 1..c : j = c \/ j \in 1..(c - 1)
  BY <1>1
<1>6. \A j \in 1..(c - 1) : j # c /\ j \in 1..c
  BY <1>1
<1> DEFINE new == IF IsLet(text, c, n) THEN {c} ELSE {}
<1>7. \A j \in 1..c : j \in Visible(text, n, c + 1) <=> j \in Visible(text, n, c) \cup new
  BY <1>1, <1>2, <1>3, <1>4, <1>5, <1>6
<1>8. Visible(text, n, c) \cup new \in SUBSET (1..c)
  BY <1>1, <1>4
<1> HIDE DEF new
<1>9. Visible(text, n, c + 1) = Visible(text, n, c) \cup new
  BY <1>4, <1>7, <1>8
<1> QED
  BY <1>9 DEF new

(* The last visible variable is the last of the innermost block that has   *)
(* one.                                                                    *)
LEMMA VisibleByDepth ==
  ASSUME NEW text \in Program, WellNested(text), NEW c \in 1..(Len(text) + 1), NEW n
  PROVE  /\ \A j \in Visible(text, n, c) :
              /\ Depth(text, j) \in 0..Depth(text, c - 1)
              /\ j \in VisibleAt(text, n, c, Depth(text, j))
         /\ \A d, j : IsLast(j, VisibleAt(text, n, c, d))
              /\ (\A m \in 0..Depth(text, c - 1) : m > d => VisibleAt(text, n, c, m) = {})
              /\ d \in Int
              => IsLast(j, Visible(text, n, c))
<1>1. Len(text) \in Nat /\ c \in Nat \ {0} /\ c - 1 \in Nat /\ Depth(text, c - 1) \in Int
  BY DepthIn DEF Program
<1>2. ASSUME NEW j \in Visible(text, n, c)
      PROVE  /\ Depth(text, j) \in 0..Depth(text, c - 1) /\ j \in Nat
             /\ j \in VisibleAt(text, n, c, Depth(text, j))
  <2>1. j \in 1..(c - 1) /\ j \in Nat /\ j \in 0..Len(text) /\ c - 1 \in j..(c - 1)
    BY <1>1 DEF Visible
  <2>2. Depth(text, j) \in Int /\ Depth(text, j) >= 0 /\ Depth(text, c - 1) >= Depth(text, j)
    BY <2>1, DepthIn DEF Visible, WellNested
  <2> QED
    BY <1>1, <2>1, <2>2 DEF Visible, VisibleAt
<1>3. ASSUME NEW d \in Int, NEW j, IsLast(j, VisibleAt(text, n, c, d)),
             \A m \in 0..Depth(text, c - 1) : m > d => VisibleAt(text, n, c, m) = {}
      PROVE  IsLast(j, Visible(text, n, c))
  <2>1. j \in 1..(c - 1) /\ Depth(text, j) = d /\ \A i \in j..(c - 1) : Depth(text, i) >= d
    BY <1>3 DEF IsLast, VisibleAt
  <2>2. j \in Visible(text, n, c)
    BY <1>3, <2>1 DEF IsLast, VisibleAt, Visible
  <2>3. ASSUME NEW k \in Visible(text, n, c) PROVE k <= j
    <3>1. /\ Depth(text, k) \in 0..Depth(text, c - 1) /\ k \in Nat
          /\ k \in VisibleAt(text, n, c, Depth(text, k)) /\ k \in 1..(c - 1)
      BY <1>2 DEF Visible
    <3>2. ~ (Depth(text, k) > d)
      BY <1>3, <3>1
    <3>3. CASE Depth(text, k) = d
      BY <1>3, <3>1, <3>3 DEF IsLast
    <3>4. CASE Depth(text, k) < d
      <4> SUFFICES ASSUME ~ (k <= j) PROVE FALSE
        OBVIOUS
      <4>1. k \in j..(c - 1)
        BY <1>1, <2>1, <3>1
      <4> QED
        BY <1>1, <2>1, <3>1, <3>4, <4>1
    <3> QED
      BY <1>1, <3>1, <3>2, <3>3, <3>4
  <2> QED
    BY <2>2, <2>3 DEF IsLast
<1> QED
  BY <1>2, <1>3

(***************************************************************************)
(* The scopes of the checker: the variables that are visible, by depth.    *)
(***************************************************************************)
HoldsLet(kind, e, S) == IF S = {} THEN e = Absent ELSE e.kind = kind /\ IsLast(e.id, S)

CheckerScopes(ss, v, c) ==
  \A k \in 0..Len(v), n \in Names :
    HoldsLet("Variable", ss[k + 1].swa[n], VisibleAt(program, n, c, k))

(* A declaration changes one entry of the innermost scope.                 *)
LEMMA DeclaredEntries ==
  ASSUME NEW ss \in Seq(Scope), ss # <<>>, NEW m \in Names, NEW e
  PROVE  /\ \A k \in 1..(Len(ss) - 1) :
              /\ Declared(ss, "swa", m, e)[k] = ss[k]
              /\ Declared(ss, "llvm", m, e)[k] = ss[k]
         /\ \A n \in Names :
              /\ Declared(ss, "swa", m, e)[Len(ss)].swa[n]
                   = IF n = m THEN e ELSE ss[Len(ss)].swa[n]
              /\ Declared(ss, "llvm", m, e)[Len(ss)].llvm[n]
                   = IF n = m THEN e ELSE ss[Len(ss)].llvm[n]
<1>1. Len(ss) \in Nat \ {0} /\ Len(ss) \in DOMAIN ss
  OBVIOUS
<1>2. ss[Len(ss)] \in [swa : Table("Variable"), llvm : Table("Value")]
  <2>1. ss[Len(ss)] \in Scope
    BY <1>1
  <2> QED
    BY <2>1 DEF Scope
<1>3. DOMAIN ss[Len(ss)].swa = Names /\ DOMAIN ss[Len(ss)].llvm = Names
  BY <1>2 DEF Table
<1>4. \A k \in 1..(Len(ss) - 1) : k \in DOMAIN ss /\ k # Len(ss)
  BY <1>1
<1>5. /\ Declared(ss, "swa", m, e)
           = [ss EXCEPT ![Len(ss)] =
                [ss[Len(ss)] EXCEPT !["swa"] = [ss[Len(ss)]["swa"] EXCEPT ![m] = e]]]
      /\ Declared(ss, "llvm", m, e)
           = [ss EXCEPT ![Len(ss)] =
                [ss[Len(ss)] EXCEPT !["llvm"] = [ss[Len(ss)]["llvm"] EXCEPT ![m] = e]]]
  BY DEF Declared
<1>6. /\ Declared(ss, "swa", m, e)[Len(ss)]
           = [ss[Len(ss)] EXCEPT !["swa"] = [ss[Len(ss)]["swa"] EXCEPT ![m] = e]]
      /\ Declared(ss, "llvm", m, e)[Len(ss)]
           = [ss[Len(ss)] EXCEPT !["llvm"] = [ss[Len(ss)]["llvm"] EXCEPT ![m] = e]]
  BY <1>1, <1>5
<1>7. /\ Declared(ss, "swa", m, e)[Len(ss)].swa = [ss[Len(ss)].swa EXCEPT ![m] = e]
      /\ Declared(ss, "llvm", m, e)[Len(ss)].llvm = [ss[Len(ss)].llvm EXCEPT ![m] = e]
  BY <1>2, <1>6
<1>8. ASSUME NEW k \in 1..(Len(ss) - 1)
      PROVE  Declared(ss, "swa", m, e)[k] = ss[k] /\ Declared(ss, "llvm", m, e)[k] = ss[k]
  BY <1>4, <1>5
<1> QED
  BY <1>3, <1>7, <1>8

LEMMA VisibleNext ==
  ASSUME Types, next \in Positions, NEW n, NEW d \in Int, d <= Depth(program, next)
  PROVE  VisibleAt(program, n, next + 1, d) =
           IF Opens(program[next]) /\ d = Depth(program, next) THEN {}
           ELSE VisibleAt(program, n, next, d)
                  \cup (IF IsLet(program, next, n) /\ d = Depth(program, next)
                        THEN {next} ELSE {})
<1>1. program \in Program /\ next \in 1..Len(program)
  BY DEF Types, Walk, Positions
<1>2. \A text \in Program : \A c \in 1..Len(text) : \A x \in Int :
        x <= Depth(text, c) =>
          VisibleAt(text, n, c + 1, x) =
            IF Opens(text[c]) /\ x = Depth(text, c) THEN {}
            ELSE VisibleAt(text, n, c, x)
                   \cup (IF IsLet(text, c, n) /\ x = Depth(text, c) THEN {c} ELSE {})
  BY VisibleStep
<1> QED
  BY <1>1, <1>2

LEMMA CheckerPass ==
  ASSUME Types, phase = "check", phase' = "check", CheckerScopes(scopes, visits, next), PassStep
  PROVE  CheckerScopes(scopes', visits', next')
<1>1. /\ Walk /\ Len(program) \in Nat /\ next \in Nat \ {0}
      /\ visits \in Seq(Positions) /\ Len(visits) \in Nat
      /\ program \in Program /\ WellNested(program)
      /\ Stack(program, visits, next) /\ Len(visits) = Depth(program, next - 1)
  BY WalkHere DEF Types, Walk, Here, Stack
<1>2. scopes \in Seq(Scope) /\ Len(scopes) = 1 + Len(visits)
  <2>1. mode = "Run"
    BY <1>1 DEF Walk
  <2> QED
    BY <2>1 DEF Types, Counted, Late
<1>3. \A k \in 0..Len(visits), n \in Names :
        HoldsLet("Variable", scopes[k + 1].swa[n], VisibleAt(program, n, next, k))
  BY DEF CheckerScopes
<1>4. CASE CheckLet
  <2> DEFINE m == program[next].name
  <2>1. /\ next \in Positions /\ program[next].kind = "let" /\ m \in Names
        /\ scopes' = Declared(scopes, "swa", m, [kind |-> "Variable", id |-> next])
        /\ visits' = visits /\ next' = next + 1
    BY <1>1, <1>4, KindAtNext DEF CheckLet, Visiting
  <2>2. Depth(program, next) = Len(visits) /\ ~ Opens(program[next])
    BY <1>1, <2>1, KindAtNext, OneMove
  <2>3. ASSUME NEW k \in 0..Len(visits), NEW n \in Names
        PROVE  HoldsLet("Variable", scopes'[k + 1].swa[n], VisibleAt(program, n, next + 1, k))
    <3>1. VisibleAt(program, n, next + 1, k)
            = VisibleAt(program, n, next, k) \cup (IF n = m /\ k = Len(visits) THEN {next} ELSE {})
      BY <1>1, <2>1, <2>2, VisibleNext DEF IsLet
    <3>2. HoldsLet("Variable", scopes[k + 1].swa[n], VisibleAt(program, n, next, k))
      BY <1>3
    <3>3. CASE k # Len(visits)
      <4>1. k + 1 \in 1..(Len(scopes) - 1) /\ scopes # <<>>
        BY <1>1, <1>2, <3>3
      <4>2. scopes'[k + 1] = scopes[k + 1]
        BY <1>2, <2>1, <4>1, DeclaredEntries
      <4> QED
        BY <3>1, <3>2, <3>3, <4>2
    <3>4. CASE k = Len(visits) /\ n # m
      <4>1. k + 1 = Len(scopes) /\ scopes # <<>>
        BY <1>1, <1>2, <3>4
      <4>2. scopes'[k + 1].swa[n] = scopes[k + 1].swa[n]
        BY <1>2, <2>1, <3>4, <4>1, DeclaredEntries
      <4> QED
        BY <3>1, <3>2, <3>4, <4>2
    <3>5. CASE k = Len(visits) /\ n = m
      <4>1. k + 1 = Len(scopes) /\ scopes # <<>>
        BY <1>1, <1>2, <3>5
      <4>2. scopes'[k + 1].swa[n] = [kind |-> "Variable", id |-> next]
        BY <1>2, <2>1, <3>5, <4>1, DeclaredEntries
      <4>3. \A j \in VisibleAt(program, n, next, k) : j <= next
        BY <1>1 DEF VisibleAt
      <4>4. IsLast(next, VisibleAt(program, n, next, k) \cup {next})
        BY <1>1, <4>3 DEF IsLast
      <4>5. VisibleAt(program, n, next + 1, k) = VisibleAt(program, n, next, k) \cup {next}
        BY <3>1, <3>5
      <4>6. /\ VisibleAt(program, n, next + 1, k) # {}
            /\ IsLast(next, VisibleAt(program, n, next + 1, k))
        BY <4>4, <4>5
      <4> QED
        BY <4>2, <4>6 DEF HoldsLet
    <3> QED
      BY <3>3, <3>4, <3>5
  <2> QED
    BY <2>1, <2>3 DEF CheckerScopes
<1>5. CASE CheckPrint \/ CheckReturn
  <2>1. /\ next \in Positions /\ program[next].kind \in {"print", "return"}
        /\ UNCHANGED <<scopes, visits>> /\ next' = next + 1
    BY <1>5 DEF CheckPrint, CheckReturn, Visiting
  <2>2. Depth(program, next) = Len(visits) /\ ~ Opens(program[next])
    BY <1>1, <2>1, KindAtNext, OneMove
  <2>3. ASSUME NEW k \in 0..Len(visits), NEW n \in Names
        PROVE  VisibleAt(program, n, next + 1, k) = VisibleAt(program, n, next, k)
    <3>1. ~ IsLet(program, next, n)
      BY <2>1 DEF IsLet
    <3>2. k \in Int /\ k <= Depth(program, next)
      BY <1>1, <2>2
    <3>3. VisibleAt(program, n, next + 1, k) = VisibleAt(program, n, next, k) \cup {}
      BY <2>1, <2>2, <3>1, <3>2, VisibleNext
    <3> QED
      BY <3>3
  <2> QED
    BY <1>3, <2>1, <2>3 DEF CheckerScopes
<1>6. CASE CheckFunction \/ CheckBlock
  <2>1. /\ next \in Positions /\ Opens(program[next]) /\ next' = next + 1
        /\ scopes' = Append(scopes, EmptyScope) /\ visits' = Append(visits, next)
    BY <1>6 DEF CheckFunction, CheckBlock, Visiting, Enter, Opens
  <2>2. Depth(program, next) = Len(visits) + 1 /\ Len(visits') = Len(visits) + 1
    BY <1>1, <2>1, OneMove
  <2>3. ASSUME NEW k \in 0..Len(visits'), NEW n \in Names
        PROVE  HoldsLet("Variable", scopes'[k + 1].swa[n], VisibleAt(program, n, next + 1, k))
    <3>1. ~ IsLet(program, next, n)
      BY <2>1, LetIsPlain
    <3>2. CASE k # Len(visits) + 1
      <4>1. VisibleAt(program, n, next + 1, k) = VisibleAt(program, n, next, k) \cup {}
        BY <1>1, <2>1, <2>2, <3>1, <3>2, VisibleNext
      <4>2. k \in 0..Len(visits) /\ k + 1 \in 1..Len(scopes)
        BY <1>1, <1>2, <2>2, <3>2
      <4>3. scopes'[k + 1] = scopes[k + 1]
        BY <1>2, <2>1, <4>2
      <4>4. HoldsLet("Variable", scopes[k + 1].swa[n], VisibleAt(program, n, next, k))
        BY <1>3, <4>2
      <4> QED
        BY <4>1, <4>3, <4>4
    <3>3. CASE k = Len(visits) + 1
      <4>1. VisibleAt(program, n, next + 1, k) = {}
        BY <1>1, <2>1, <2>2, <3>1, <3>3, VisibleNext
      <4>2. scopes'[k + 1] = EmptyScope
        <5>1. k + 1 = Len(scopes) + 1
          BY <1>1, <1>2, <3>3
        <5> QED
          BY <1>2, <2>1, <5>1
      <4> QED
        BY <4>1, <4>2 DEF HoldsLet, EmptyScope, NoEntries
    <3> QED
      BY <3>2, <3>3
  <2> QED
    BY <2>1, <2>3 DEF CheckerScopes
<1>7. CASE CheckClose
  <2>1. /\ next \in Positions /\ program[next].kind = "close" /\ next' = next + 1
        /\ scopes' = Popped(scopes, 1) /\ visits' = Popped(visits, 1)
    BY <1>7 DEF CheckClose, Visiting, Leave
  <2>2. program[next] = Close /\ ~ Opens(program[next])
    BY <1>1, <2>1, KindAtNext, CloseIsNoOpening
  <2>3. Len(visits) \in Nat \ {0} /\ 1 \in 0..Len(visits) /\ 1 \in 0..Len(scopes)
    BY <1>1, <1>2, <2>1, AtClose
  <2>4. /\ Len(visits') = Len(visits) - 1
        /\ \A k \in 1..(Len(scopes) - 1) : scopes'[k] = scopes[k]
    BY <1>1, <1>2, <2>1, <2>3, PoppedIs
  <2>5. Depth(program, next) = Len(visits) - 1
    BY <1>1, <2>2, OneMove
  <2>6. ASSUME NEW k \in 0..Len(visits'), NEW n \in Names
        PROVE  HoldsLet("Variable", scopes'[k + 1].swa[n], VisibleAt(program, n, next + 1, k))
    <3>1. ~ IsLet(program, next, n)
      BY <2>1 DEF IsLet
    <3>2. VisibleAt(program, n, next + 1, k) = VisibleAt(program, n, next, k) \cup {}
      <4>1. k \in Int /\ k <= Depth(program, next)
        BY <1>1, <2>4, <2>5
      <4> QED
        BY <2>1, <2>2, <3>1, <4>1, VisibleNext
    <3>3. k \in 0..Len(visits) /\ k + 1 \in 1..(Len(scopes) - 1)
      BY <1>1, <1>2, <2>3, <2>4
    <3>4. scopes'[k + 1] = scopes[k + 1]
      BY <2>4, <3>3
    <3>5. HoldsLet("Variable", scopes[k + 1].swa[n], VisibleAt(program, n, next, k))
      BY <1>3, <3>3
    <3> QED
      BY <3>2, <3>4, <3>5
  <2> QED
    BY <2>1, <2>6 DEF CheckerScopes
<1>8. \/ CheckLet \/ CheckPrint \/ CheckReturn \/ CheckFunction \/ CheckBlock \/ CheckClose
  BY EarlySteps DEF DeclareFunction, DeclareBlock, DeclareClose, DeclareSkip, DeclareEnd,
     CheckErrors, CheckEnd, Visiting, Finished, BeginPass
<1> QED
  BY <1>4, <1>5, <1>6, <1>7, <1>8

(* What the check finds: the last variable that is visible, a function if  *)
(* there is none.                                                          *)
Answers(e, S, f) ==
  IF S = {} THEN e = f ELSE e.kind = "Variable" /\ IsLast(e.id, S)

LEMMA CheckerFinds ==
  ASSUME Types, NEW ss \in Seq(Scope), NEW c \in 1..(Len(program) + 1), NEW n \in Names,
         Len(ss) = 1 + Depth(program, c - 1),
         \A k \in 0..Depth(program, c - 1) :
           HoldsLet("Variable", ss[k + 1].swa[n], VisibleAt(program, n, c, k))
  PROVE  Answers(Found(ss, "swa", functions, n), Visible(program, n, c), functions[n])
<1> DEFINE top == Depth(program, c - 1)
           e == Found(ss, "swa", functions, n)
<1>1. /\ program \in Program /\ WellNested(program) /\ top \in Int
      /\ functions[n] \in Entries
  <2>1. /\ program \in Program /\ WellNested(program) /\ Len(program) \in Nat
        /\ c - 1 \in 0..Len(program)
    BY WalkHere DEF Types, Walk
  <2>2. top \in Int
    BY <2>1, DepthIn DEF Program
  <2>3. functions[n] \in [kind : {"Function"}, id : Positions] \cup {Absent}
    BY DEF Types, Tabled, Table
  <2> QED
    BY <2>1, <2>2, <2>3 DEF Entries
<1>2. Len(ss) = 1 + top /\ Len(ss) \in Nat
  OBVIOUS
<1>3. ASSUME NEW k \in 0..top
      PROVE  HoldsLet("Variable", ss[k + 1]["swa"][n], VisibleAt(program, n, c, k))
  OBVIOUS
<1>4. CASE \E i \in 1..Len(ss) :
             /\ ss[i]["swa"][n] # Absent
             /\ e = ss[i]["swa"][n]
             /\ \A j \in (i + 1)..Len(ss) : ss[j]["swa"][n] = Absent
  <2> HIDE DEF e, top
  <2>1. PICK i \in 1..Len(ss) :
             /\ ss[i]["swa"][n] # Absent
             /\ e = ss[i]["swa"][n]
             /\ \A j \in (i + 1)..Len(ss) : ss[j]["swa"][n] = Absent
    BY <1>4
  <2>2. i - 1 \in 0..top /\ i - 1 \in Int /\ (i - 1) + 1 = i
    BY <1>1, <1>2
  <2>3. HoldsLet("Variable", e, VisibleAt(program, n, c, i - 1)) /\ e # Absent
    BY <1>3, <2>1, <2>2
  <2>4. ASSUME NEW m \in 0..top, m > i - 1
        PROVE  VisibleAt(program, n, c, m) = {}
    <3>1. m + 1 \in (i + 1)..Len(ss)
      BY <1>1, <1>2, <2>2, <2>4
    <3>2. HoldsLet("Variable", Absent, VisibleAt(program, n, c, m))
      BY <1>3, <2>1, <3>1
    <3> QED
      BY <3>2 DEF HoldsLet, Absent
  <2>5. e.kind = "Variable" /\ IsLast(e.id, VisibleAt(program, n, c, i - 1))
    BY <2>3 DEF HoldsLet
  <2>6. IsLast(e.id, Visible(program, n, c))
    BY <1>1, <2>2, <2>4, <2>5, VisibleByDepth DEF top
  <2>7. Visible(program, n, c) # {}
    BY <2>6 DEF IsLast
  <2> QED
    BY <2>5, <2>6, <2>7 DEF Answers, e
<1>5. CASE (\A i \in 1..Len(ss) : ss[i]["swa"][n] = Absent) /\ e = functions[n]
  <2> HIDE DEF e, top
  <2>1. ASSUME NEW j \in Visible(program, n, c) PROVE FALSE
    <3>1. Depth(program, j) \in 0..top /\ j \in VisibleAt(program, n, c, Depth(program, j))
      BY <1>1, VisibleByDepth DEF top
    <3>2. Depth(program, j) + 1 \in 1..Len(ss)
      BY <1>1, <1>2, <3>1
    <3>3. HoldsLet("Variable", Absent, VisibleAt(program, n, c, Depth(program, j)))
      BY <1>3, <1>5, <3>1, <3>2
    <3> QED
      BY <3>1, <3>3 DEF HoldsLet, Absent
  <2>2. Visible(program, n, c) = {}
    BY <2>1
  <2> QED
    BY <1>5, <2>2 DEF Answers, e
<1> QED
  BY <1>1, <1>4, <1>5, FoundIsInnermost

(***************************************************************************)
(* The scopes of the generator: the body of the k-th visit, and before the *)
(* body of a function the scope of its parameter.                          *)
(***************************************************************************)
LEMMA FramesGrow ==
  ASSUME NEW text, NEW v, NEW m \in Nat, NEW k \in 0..m
  PROVE  Frames(text, v, k) <= Frames(text, v, m)
<1>1. k \in Nat /\ k <= m
  OBVIOUS
<1>2. IsFiniteSet(FuncsTo(text, v, m)) /\ FuncsTo(text, v, k) \in SUBSET FuncsTo(text, v, m)
  <2>1. IsFiniteSet(1..m)
    BY FS_Interval
  <2>2. FuncsTo(text, v, m) \in SUBSET (1..m)
    BY DEF FuncsTo
  <2>3. FuncsTo(text, v, k) \in SUBSET FuncsTo(text, v, m)
    BY <1>1 DEF FuncsTo
  <2> QED
    BY <2>1, <2>2, <2>3, FS_Subset
<1>3. /\ IsFiniteSet(FuncsTo(text, v, k))
      /\ Cardinality(FuncsTo(text, v, k)) <= Cardinality(FuncsTo(text, v, m))
  BY <1>2, FS_Subset
<1>4. Cardinality(FuncsTo(text, v, k)) \in Nat /\ Cardinality(FuncsTo(text, v, m)) \in Nat
  BY <1>2, <1>3, FS_CardinalityType
<1> QED
  BY <1>1, <1>3, <1>4 DEF Frames

(* Every scope is the one of a body or the one of a parameter.             *)
LEMMA FrameOf ==
  ASSUME NEW text, NEW v, NEW m \in Nat, NEW i \in 1..(1 + Frames(text, v, m))
  PROVE  \/ \E k \in 0..m : i = 1 + Frames(text, v, k)
         \/ \E k \in 1..m : i = Frames(text, v, k) /\ text[v[k]].kind = "func"
<1>1. /\ \A k \in Nat : Frames(text, v, k) \in Nat
      /\ Frames(text, v, 0) = 0
  BY FramesStep
<1> DEFINE below == {k \in 0..m : 1 + Frames(text, v, k) <= i}
<1>2. PICK k \in below : \A j \in below : j <= k
  <2>1. 0 \in below /\ below \in SUBSET (0..m)
    BY <1>1
  <2> HIDE DEF below
  <2> QED
    BY <2>1, Greatest
<1>3. k \in 0..m /\ k \in Nat /\ 1 + Frames(text, v, k) <= i
  OBVIOUS
<1>4. CASE i = 1 + Frames(text, v, k)
  BY <1>3, <1>4
<1>5. CASE i # 1 + Frames(text, v, k)
  <2>1. k # m
    BY <1>1, <1>3, <1>5
  <2>2. k + 1 \in 1..m /\ k + 1 \in Nat \ {0} /\ k + 1 \in 0..m /\ ~ (k + 1 <= k) /\ (k + 1) - 1 = k
    BY <1>3, <2>1
  <2>3. ~ (1 + Frames(text, v, k + 1) <= i)
    BY <1>2, <2>2
  <2>4. Frames(text, v, k + 1) = Frames(text, v, k)
                                   + (IF text[v[k + 1]].kind = "func" THEN 2 ELSE 1)
    <3>1. \A x \in Nat \ {0} :
            Frames(text, v, x) = Frames(text, v, x - 1)
                                   + (IF text[v[x]].kind = "func" THEN 2 ELSE 1)
      BY FramesStep
    <3> HIDE DEF below
    <3>2. Frames(text, v, k + 1) = Frames(text, v, k + 1 - 1)
                                     + (IF text[v[k + 1]].kind = "func" THEN 2 ELSE 1)
      BY <2>2, <3>1
    <3> QED
      BY <2>2, <3>2
  <2>5. i = Frames(text, v, k + 1) /\ text[v[k + 1]].kind = "func"
    BY <1>1, <1>3, <1>5, <2>2, <2>3, <2>4
  <2> QED
    BY <2>2, <2>5
<1> QED
  BY <1>4, <1>5

GeneratorScopes(ss, v, c) ==
  /\ \A k \in 0..Len(v), n \in Names :
       HoldsLet("Value", ss[1 + Frames(program, v, k)].llvm[n], VisibleAt(program, n, c, k))
  /\ \A k \in 1..Len(v), n \in Names :
       program[v[k]].kind = "func" =>
         ss[Frames(program, v, k)].llvm[n] \in {Absent, [kind |-> "Value", id |-> v[k]]}

(* What the generator finds: the last variable that is visible, or a       *)
(* parameter below all of them.                                            *)
Resolved(e, S) ==
  IF e = Absent THEN S = {}
  ELSE /\ e.kind = "Value"
       /\ \/ IsLast(e.id, S)
          \/ program[e.id].kind = "func" /\ \A j \in S : j < e.id

LEMMA GeneratorFinds ==
  ASSUME Types, mode # "none", phase = "generate", GeneratorScopes(scopes, visits, next),
         NEW n \in Names
  PROVE  Resolved(Found(scopes, "llvm", NoEntries, n), Visible(program, n, next))
<1> DEFINE e == Found(scopes, "llvm", NoEntries, n)
           F(k) == Frames(program, visits, k)
<1>1. /\ program \in Program /\ WellNested(program) /\ next \in 1..(Len(program) + 1)
      /\ Len(program) \in Nat /\ next \in Nat
      /\ Stack(program, visits, next) /\ Len(visits) = Depth(program, next - 1)
      /\ Len(visits) \in Nat
  BY WalkHere DEF Types, Walk, Here, Stack
<1>2. scopes \in Seq(Scope) /\ Len(scopes) = 1 + F(Len(visits))
  BY DEF Types, Counted, Late
<1>3. NoEntries[n] = Absent /\ Absent \in Entries
  BY DEF NoEntries, Entries
<1>4. ASSUME NEW k \in 0..Len(visits)
      PROVE  /\ HoldsLet("Value", scopes[1 + F(k)]["llvm"][n], VisibleAt(program, n, next, k))
             /\ F(k) \in Nat /\ 1 + F(k) \in 1..Len(scopes)
  <2>1. F(k) \in Nat /\ F(Len(visits)) \in Nat /\ F(k) <= F(Len(visits))
    BY <1>1, FramesStep, FramesGrow
  <2>2. HoldsLet("Value", scopes[1 + F(k)]["llvm"][n], VisibleAt(program, n, next, k))
    BY DEF GeneratorScopes
  <2> QED
    BY <1>2, <2>1, <2>2
<1>5. ASSUME NEW j \in Visible(program, n, next)
      PROVE  /\ Depth(program, j) \in 0..Len(visits) /\ j \in 1..(next - 1)
             /\ j \in VisibleAt(program, n, next, Depth(program, j))
             /\ scopes[1 + F(Depth(program, j))]["llvm"][n] # Absent
  <2>1. /\ Depth(program, j) \in 0..Len(visits)
        /\ j \in VisibleAt(program, n, next, Depth(program, j))
    BY <1>1, VisibleByDepth
  <2>2. HoldsLet("Value", scopes[1 + F(Depth(program, j))]["llvm"][n],
                 VisibleAt(program, n, next, Depth(program, j)))
    BY <1>4, <2>1
  <2>3. scopes[1 + F(Depth(program, j))]["llvm"][n] # Absent
    BY <2>1, <2>2 DEF HoldsLet, Absent
  <2> QED
    BY <2>1, <2>3 DEF Visible
<1> HIDE DEF F
<1>6. CASE \E i \in 1..Len(scopes) :
             /\ scopes[i]["llvm"][n] # Absent
             /\ e = scopes[i]["llvm"][n]
             /\ \A j \in (i + 1)..Len(scopes) : scopes[j]["llvm"][n] = Absent
  <2> HIDE DEF e
  <2>1. PICK i \in 1..Len(scopes) :
             /\ scopes[i]["llvm"][n] # Absent
             /\ e = scopes[i]["llvm"][n]
             /\ \A j \in (i + 1)..Len(scopes) : scopes[j]["llvm"][n] = Absent
    BY <1>6
  <2>2. CASE \E k \in 0..Len(visits) : i = 1 + F(k)
    <3>1. PICK k \in 0..Len(visits) : i = 1 + F(k)
      BY <2>2
    <3>2. e.kind = "Value" /\ IsLast(e.id, VisibleAt(program, n, next, k))
      BY <1>4, <2>1, <3>1 DEF HoldsLet
    <3>3. ASSUME NEW m \in 0..Len(visits), m > k
          PROVE  VisibleAt(program, n, next, m) = {}
      <4>1. m \in Nat \ {0} /\ m - 1 \in Nat /\ k \in 0..(m - 1)
        BY <1>1, <3>3
      <4>2. /\ F(k) <= F(m - 1) /\ F(k) \in Nat /\ F(m - 1) \in Nat
            /\ F(m) = F(m - 1) + (IF program[visits[m]].kind = "func" THEN 2 ELSE 1)
        <5>1. F(k) <= F(m - 1)
          BY <4>1, FramesGrow DEF F
        <5>2. F(m) = F(m - 1) + (IF program[visits[m]].kind = "func" THEN 2 ELSE 1)
          BY <4>1, FramesStep DEF F
        <5>3. k \in Nat
          OBVIOUS
        <5>4. F(k) \in Nat /\ F(m - 1) \in Nat
          BY <4>1, <5>3, FramesStep DEF F
        <5> QED
          BY <5>1, <5>2, <5>4
      <4>3. 1 + F(m) \in (i + 1)..Len(scopes)
        BY <1>4, <3>1, <4>2
      <4>4. HoldsLet("Value", Absent, VisibleAt(program, n, next, m))
        <5>1. HoldsLet("Value", scopes[1 + F(m)]["llvm"][n], VisibleAt(program, n, next, m))
          BY <1>4
        <5> QED
          BY <2>1, <4>3, <5>1
      <4> QED
        BY <4>4 DEF HoldsLet, Absent
    <3>4. IsLast(e.id, Visible(program, n, next))
      BY <1>1, <3>2, <3>3, VisibleByDepth
    <3> QED
      BY <2>1, <3>2, <3>4 DEF Resolved, e
  <2>3. CASE \E k \in 1..Len(visits) : i = F(k) /\ program[visits[k]].kind = "func"
    <3>1. PICK k \in 1..Len(visits) : i = F(k) /\ program[visits[k]].kind = "func"
      BY <2>3
    <3>2. e = [kind |-> "Value", id |-> visits[k]]
      BY <2>1, <3>1 DEF GeneratorScopes, F
    <3>3. ASSUME NEW j \in Visible(program, n, next) PROVE j < visits[k]
      <4> DEFINE d == Depth(program, j)
      <4>1. d \in 0..Len(visits) /\ d \in Int /\ k \in Int
        BY <1>1, <1>5
      <4>2. ~ (d >= k)
        <5> SUFFICES ASSUME d >= k PROVE FALSE
          OBVIOUS
        <5>1. k \in 0..d /\ d \in Nat
          BY <1>1, <4>1
        <5>2. F(k) <= F(d) /\ F(k) \in Nat /\ F(d) \in Nat
          <6> HIDE DEF d
          <6>1. k \in Nat
            BY <5>1
          <6>2. F(k) <= F(d)
            BY <5>1, FramesGrow DEF F
          <6>3. F(k) \in Nat /\ F(d) \in Nat
            BY <5>1, <6>1, FramesStep DEF F
          <6> QED
            BY <6>2, <6>3
        <5>3. 1 + F(d) \in (i + 1)..Len(scopes)
          BY <1>4, <3>1, <4>1, <5>2
        <5> QED
          BY <1>5, <2>1, <5>3
      <4>3. /\ visits[k] \in Nat /\ Depth(program, visits[k]) = k
            /\ \A m \in visits[k]..(next - 1) : Depth(program, m) >= Depth(program, visits[k])
        BY <1>1 DEF Stack, OpenIn
      <4>4. j \in Nat /\ j <= next - 1
        BY <1>1, <1>5
      <4> QED
        BY <1>1, <4>1, <4>2, <4>3, <4>4
    <3> QED
      BY <2>1, <3>1, <3>2, <3>3 DEF Resolved, e
  <2>4. i \in 1..(1 + Frames(program, visits, Len(visits)))
    BY <1>2 DEF F
  <2>5. \/ \E k \in 0..Len(visits) : i = 1 + F(k)
        \/ \E k \in 1..Len(visits) : i = F(k) /\ program[visits[k]].kind = "func"
    BY <1>1, <2>4, FrameOf DEF F
  <2> QED
    BY <2>2, <2>3, <2>5
<1>7. CASE (\A i \in 1..Len(scopes) : scopes[i]["llvm"][n] = Absent) /\ e = Absent
  <2>1. ASSUME NEW j \in Visible(program, n, next) PROVE FALSE
    BY <1>4, <1>5, <1>7
  <2>2. Visible(program, n, next) = {}
    BY <2>1
  <2> QED
    BY <1>7, <2>2 DEF Resolved
<1> QED
  BY <1>2, <1>3, <1>6, <1>7, FoundIsInnermost

(* Where the scopes of the visits are on the stack.                        *)
LEMMA FramesPlaced ==
  ASSUME Types, phase = "generate"
  PROVE  /\ scopes \in Seq(Scope) /\ Len(scopes) \in Nat \ {0}
         /\ Len(scopes) = 1 + Frames(program, visits, Len(visits))
         /\ \A k \in 0..Len(visits) :
              /\ Frames(program, visits, k) \in Nat
              /\ 1 + Frames(program, visits, k) \in 1..Len(scopes)
              /\ k # Len(visits) => 1 + Frames(program, visits, k) \in 1..(Len(scopes) - 1)
         /\ \A k \in 1..Len(visits) : Frames(program, visits, k) \in 1..(Len(scopes) - 1)
<1> DEFINE F(k) == Frames(program, visits, k)
<1>1. Len(visits) \in Nat /\ mode # "none"
  BY WalkHere DEF Types, Walk
<1>2. scopes \in Seq(Scope) /\ Len(scopes) = 1 + F(Len(visits)) /\ F(Len(visits)) \in Nat
  BY <1>1, FramesStep DEF Types, Counted, Late
<1>3. ASSUME NEW k \in 0..Len(visits)
      PROVE  F(k) \in Nat /\ F(k) >= k /\ F(k) <= F(Len(visits))
  BY <1>1, FramesStep, FramesGrow
<1>4. ASSUME NEW k \in 0..Len(visits), k # Len(visits)
      PROVE  F(k) < F(Len(visits))
  <2>1. /\ Len(visits) \in Nat \ {0} /\ k \in 0..(Len(visits) - 1) /\ Len(visits) - 1 \in Nat
        /\ Len(visits) - 1 \in 0..Len(visits)
    BY <1>1, <1>4
  <2>2. F(k) <= F(Len(visits) - 1)
    BY <2>1, FramesGrow
  <2>3. F(Len(visits)) = F(Len(visits) - 1)
                           + (IF program[visits[Len(visits)]].kind = "func" THEN 2 ELSE 1)
    BY <2>1, FramesStep
  <2>4. F(k) \in Nat /\ F(Len(visits) - 1) \in Nat
    BY <1>3, <2>1
  <2> HIDE DEF F
  <2> QED
    BY <2>2, <2>3, <2>4
<1> HIDE DEF F
<1>5. ASSUME NEW k \in 0..Len(visits)
      PROVE  /\ F(k) \in Nat /\ 1 + F(k) \in 1..Len(scopes)
             /\ k # Len(visits) => 1 + F(k) \in 1..(Len(scopes) - 1)
             /\ k # 0 => F(k) \in 1..(Len(scopes) - 1)
  BY <1>1, <1>2, <1>3, <1>4
<1>6. \A k \in 1..Len(visits) : F(k) \in 1..(Len(scopes) - 1)
  BY <1>1, <1>5
<1> QED
  BY <1>2, <1>5, <1>6 DEF F

(* The scopes that stay when the node at next is visited.                  *)
LEMMA GeneratorKept ==
  ASSUME Types, phase = "generate", GeneratorScopes(scopes, visits, next), next \in Positions,
         NEW ss, NEW v, NEW h \in 0..Len(visits), h <= Depth(program, next),
         Opens(program[next]) => h # Depth(program, next),
         program[next].kind # "let",
         \A k \in 1..h : v[k] = visits[k],
         \A i \in 1..(1 + Frames(program, visits, h)) : ss[i] = scopes[i]
  PROVE  /\ \A k \in 0..h, n \in Names :
              HoldsLet("Value", ss[1 + Frames(program, v, k)].llvm[n],
                       VisibleAt(program, n, next + 1, k))
         /\ \A k \in 1..h, n \in Names :
              program[v[k]].kind = "func" =>
                ss[Frames(program, v, k)].llvm[n] \in {Absent, [kind |-> "Value", id |-> v[k]]}
<1>1. /\ Len(visits) \in Nat /\ h \in Nat /\ Depth(program, next) \in Int
      /\ program \in Program
  <2>1. program \in Program /\ next \in 0..Len(program) /\ Len(visits) \in Nat
    BY WalkHere DEF Types, Walk, Positions
  <2> QED
    BY <2>1, DepthIn DEF Program
<1>2. ASSUME NEW k \in 0..h
      PROVE  /\ Frames(program, v, k) = Frames(program, visits, k)
             /\ Frames(program, visits, k) \in Nat
             /\ Frames(program, visits, k) <= Frames(program, visits, h)
             /\ Frames(program, visits, k) >= k
             /\ Frames(program, visits, h) \in Nat
  <2>1. k \in Nat /\ \A i \in 1..k : v[i] = visits[i]
    BY <1>1
  <2> QED
    BY <1>1, <2>1, FramesOfPrefix, FramesStep, FramesGrow
<1>3. ASSUME NEW k \in 0..h, NEW n \in Names
      PROVE  HoldsLet("Value", ss[1 + Frames(program, v, k)].llvm[n],
                      VisibleAt(program, n, next + 1, k))
  <2>1. k \in 0..Len(visits) /\ k \in Int /\ k <= Depth(program, next)
        /\ ~ (Opens(program[next]) /\ k = Depth(program, next))
    BY <1>1
  <2>2. ~ IsLet(program, next, n)
    BY DEF IsLet
  <2>3. VisibleAt(program, n, next + 1, k) = VisibleAt(program, n, next, k) \cup {}
    BY <2>1, <2>2, VisibleNext
  <2>4. 1 + Frames(program, visits, k) \in 1..(1 + Frames(program, visits, h))
    BY <1>2
  <2>5. ss[1 + Frames(program, v, k)] = scopes[1 + Frames(program, visits, k)]
    BY <1>2, <2>4
  <2>6. HoldsLet("Value", scopes[1 + Frames(program, visits, k)].llvm[n],
                 VisibleAt(program, n, next, k))
    BY <2>1 DEF GeneratorScopes
  <2>7. VisibleAt(program, n, next + 1, k) = VisibleAt(program, n, next, k)
    BY <2>3
  <2> QED
    BY <2>5, <2>6, <2>7
<1>4. ASSUME NEW k \in 1..h, NEW n \in Names, program[v[k]].kind = "func"
      PROVE  ss[Frames(program, v, k)].llvm[n] \in {Absent, [kind |-> "Value", id |-> v[k]]}
  <2>1. k \in 0..h /\ k \in 1..Len(visits) /\ v[k] = visits[k]
    BY <1>1
  <2>2. Frames(program, visits, k) \in 1..(1 + Frames(program, visits, h))
    BY <1>1, <1>2, <2>1
  <2>3. ss[Frames(program, v, k)] = scopes[Frames(program, visits, k)]
    BY <1>2, <2>1, <2>2
  <2> QED
    BY <1>4, <2>1, <2>3 DEF GeneratorScopes
<1> QED
  BY <1>3, <1>4

LEMMA GeneratorPass ==
  ASSUME Types, phase = "generate", phase' = "generate",
         GeneratorScopes(scopes, visits, next), PassStep
  PROVE  GeneratorScopes(scopes', visits', next')
<1> DEFINE top == Len(visits)
           F(k) == Frames(program, visits, k)
<1>1. /\ Walk /\ program \in Program /\ next \in Nat \ {0} /\ top \in Nat
      /\ visits \in Seq(Nat) /\ visits \in Seq(Positions)
      /\ top = Depth(program, next - 1) /\ top \in 0..top
  BY WalkHere DEF Types, Walk, Here, Stack, Positions
<1>2. /\ scopes \in Seq(Scope) /\ Len(scopes) \in Nat \ {0} /\ Len(scopes) = 1 + F(top)
      /\ \A k \in 0..top : /\ F(k) \in Nat /\ 1 + F(k) \in 1..Len(scopes)
                           /\ k # top => 1 + F(k) \in 1..(Len(scopes) - 1)
      /\ \A k \in 1..top : F(k) \in 1..(Len(scopes) - 1)
  BY FramesPlaced
<1>3. CASE GenerateLet
  <2> DEFINE m == program[next].name
             value == [kind |-> "Value", id |-> next]
  <2>1. /\ next \in Positions /\ program[next].kind = "let" /\ m \in Names
        /\ scopes' = Declared(scopes, "llvm", m, value)
        /\ visits' = visits /\ next' = next + 1
    BY <1>1, <1>3, KindAtNext DEF GenerateLet, Generating, Visiting
  <2>2. Depth(program, next) = top /\ ~ Opens(program[next])
    BY <1>1, <2>1, KindAtNext, OneMove DEF Positions
  <2>3. /\ \A i \in 1..(Len(scopes) - 1) : scopes'[i] = scopes[i]
        /\ \A n \in Names : scopes'[Len(scopes)].llvm[n]
                              = IF n = m THEN value ELSE scopes[Len(scopes)].llvm[n]
    <3> HIDE DEF m, value
    <3>1. scopes \in Seq(Scope) /\ scopes # <<>> /\ m \in Names
      BY <1>2, <2>1
    <3>2. /\ \A i \in 1..(Len(scopes) - 1) : Declared(scopes, "llvm", m, value)[i] = scopes[i]
          /\ \A n \in Names : Declared(scopes, "llvm", m, value)[Len(scopes)].llvm[n]
                                = IF n = m THEN value ELSE scopes[Len(scopes)].llvm[n]
      BY <3>1, DeclaredEntries
    <3> QED
      BY <2>1, <3>2
  <2>4. ASSUME NEW k \in 0..top, NEW n \in Names
        PROVE  HoldsLet("Value", scopes'[1 + F(k)].llvm[n], VisibleAt(program, n, next + 1, k))
    <3>1. VisibleAt(program, n, next + 1, k)
            = VisibleAt(program, n, next, k) \cup (IF n = m /\ k = top THEN {next} ELSE {})
      BY <1>1, <2>1, <2>2, VisibleNext DEF IsLet
    <3>2. HoldsLet("Value", scopes[1 + F(k)].llvm[n], VisibleAt(program, n, next, k))
      BY DEF GeneratorScopes
    <3> HIDE DEF F, top
    <3>3. CASE ~ (n = m /\ k = top)
      <4>1. scopes'[1 + F(k)].llvm[n] = scopes[1 + F(k)].llvm[n]
        BY <1>2, <2>3, <3>3
      <4>2. VisibleAt(program, n, next + 1, k) = VisibleAt(program, n, next, k)
        BY <3>1, <3>3
      <4> QED
        BY <3>2, <4>1, <4>2
    <3>4. CASE n = m /\ k = top
      <4>1. scopes'[1 + F(k)].llvm[n] = value
        BY <1>2, <2>3, <3>4
      <4>2. \A j \in VisibleAt(program, n, next, k) : j <= next
        BY <1>1 DEF VisibleAt
      <4>3. IsLast(next, VisibleAt(program, n, next, k) \cup {next})
        BY <1>1, <4>2 DEF IsLast
      <4> QED
        BY <3>1, <3>4, <4>1, <4>3 DEF HoldsLet
    <3> QED
      BY <3>3, <3>4
  <2>5. ASSUME NEW k \in 1..top, NEW n \in Names, program[visits[k]].kind = "func"
        PROVE  scopes'[F(k)].llvm[n] \in {Absent, [kind |-> "Value", id |-> visits[k]]}
    BY <1>2, <2>3, <2>5 DEF GeneratorScopes
  <2> QED
    BY <2>1, <2>4, <2>5 DEF GeneratorScopes
<1>4. CASE GeneratePrint \/ GenerateReturn
  <2>1. /\ next \in Positions /\ program[next].kind \in {"print", "return"}
        /\ scopes' = scopes /\ visits' = visits /\ next' = next + 1
    BY <1>4 DEF GeneratePrint, GenerateReturn, Generating, Visiting
  <2>2. Depth(program, next) = top /\ ~ Opens(program[next])
    BY <1>1, <2>1, KindAtNext, OneMove DEF Positions
  <2>3. top <= Depth(program, next) /\ program[next].kind # "let"
    BY <1>1, <2>1, <2>2
  <2>4. /\ \A k \in 1..top : visits'[k] = visits[k]
        /\ \A i \in 1..(1 + F(top)) : scopes'[i] = scopes[i]
    BY <2>1
  <2> QED
    BY <1>1, <2>1, <2>2, <2>3, <2>4, GeneratorKept DEF GeneratorScopes
<1>5. CASE GenerateBlock \/ GenerateFunction
  <2>1. /\ next \in Positions /\ Opens(program[next]) /\ next' = next + 1
        /\ visits' = Append(visits, next) /\ program[next].kind # "let"
    BY <1>5 DEF GenerateBlock, GenerateFunction, Generating, Visiting, Enter, Opens
  <2>2. Depth(program, next) = top + 1
    BY <1>1, <2>1, OneMove DEF Positions
  <2>3. top <= Depth(program, next) /\ top # Depth(program, next)
    BY <1>1, <2>2
  <2>4. /\ Len(visits') = top + 1 /\ visits'[top + 1] = next
        /\ \A k \in 1..top : visits'[k] = visits[k]
        /\ Frames(program, visits', top + 1)
             = F(top) + (IF program[next].kind = "func" THEN 2 ELSE 1)
    BY <1>1, <2>1, FramesOfAppend
  <2>5. /\ \A i \in 1..Len(scopes) : scopes'[i] = scopes[i]
        /\ scopes'[1 + Frames(program, visits', top + 1)] = EmptyScope
        /\ program[next].kind = "func" =>
             \A n \in Names : scopes'[Frames(program, visits', top + 1)].llvm[n]
                                \in {Absent, [kind |-> "Value", id |-> next]}
    <3>1. CASE GenerateBlock
      <4>1. scopes' = Append(scopes, EmptyScope) /\ program[next].kind = "block"
        BY <3>1 DEF GenerateBlock, Generating, Visiting
      <4>2. 1 + Frames(program, visits', top + 1) = Len(scopes) + 1
        BY <1>1, <1>2, <2>4, <4>1
      <4> QED
        BY <1>2, <4>1, <4>2
    <3>2. CASE GenerateFunction
      <4> DEFINE s == program[next]
                 f == IF module[s.name].kind = "function" THEN module[s.name].id ELSE next
      <4>1. PICK parameters :
              /\ parameters = (IF program[f].param = NoName THEN EmptyScope
                               ELSE [EmptyScope EXCEPT
                                       !.llvm[s.param] = [kind |-> "Value", id |-> next]])
              /\ scopes' = scopes \o <<parameters, EmptyScope>>
        BY <3>2 DEF GenerateFunction
      <4>2. \A n \in Names : parameters.llvm[n] \in {Absent, [kind |-> "Value", id |-> next]}
        <5>1. CASE parameters = EmptyScope
          BY <5>1 DEF EmptyScope, NoEntries
        <5>2. CASE parameters = [EmptyScope EXCEPT !.llvm[s.param]
                                   = [kind |-> "Value", id |-> next]]
          <6>1. parameters.llvm = [NoEntries EXCEPT ![s.param] = [kind |-> "Value", id |-> next]]
            BY <5>2 DEF EmptyScope
          <6> QED
            BY <6>1 DEF NoEntries
        <5> QED
          BY <4>1, <5>1, <5>2
      <4>3. program[next].kind = "func"
        BY <3>2 DEF GenerateFunction, Generating, Visiting
      <4>4. /\ Frames(program, visits', top + 1) = Len(scopes) + 1
            /\ 1 + Frames(program, visits', top + 1) = Len(scopes) + 2
        BY <1>1, <1>2, <2>4, <4>3
      <4> HIDE DEF f
      <4> DEFINE two == <<parameters, EmptyScope>>
      <4>5. /\ \A i \in 1..Len(scopes) : scopes'[i] = scopes[i]
            /\ scopes'[Len(scopes) + 1] = parameters /\ scopes'[Len(scopes) + 2] = EmptyScope
        <5> DEFINE all == Scope \cup {parameters, EmptyScope}
        <5>1. two \in Seq(all) /\ Len(two) = 2 /\ two[1] = parameters /\ two[2] = EmptyScope
          OBVIOUS
        <5>2. Len(scopes) \in Nat /\ scopes' = scopes \o two /\ scopes \in Seq(all)
          BY <1>2, <4>1
        <5> HIDE DEF two, all
        <5>3. \A i \in 1..(Len(scopes) + 2) :
                (scopes \o two)[i] = IF i <= Len(scopes) THEN scopes[i] ELSE two[i - Len(scopes)]
          <6>1. two \in Seq(all) /\ scopes \in Seq(all)
            BY <5>1, <5>2
          <6>2. \A i \in 1..(Len(scopes) + Len(two)) :
                  (scopes \o two)[i] = IF i <= Len(scopes) THEN scopes[i] ELSE two[i - Len(scopes)]
            BY <6>1, ConcatProperties
          <6> QED
            BY <5>1, <6>2
        <5>4. \A i \in 1..Len(scopes) : (scopes \o two)[i] = scopes[i]
          BY <5>2, <5>3
        <5>5. (scopes \o two)[Len(scopes) + 1] = two[1] /\ (scopes \o two)[Len(scopes) + 2] = two[2]
          <6>1. /\ Len(scopes) + 1 \in 1..(Len(scopes) + 2) /\ (Len(scopes) + 1) - Len(scopes) = 1
                /\ Len(scopes) + 2 \in 1..(Len(scopes) + 2) /\ (Len(scopes) + 2) - Len(scopes) = 2
                /\ ~ (Len(scopes) + 1 <= Len(scopes)) /\ ~ (Len(scopes) + 2 <= Len(scopes))
            BY <5>2
          <6> QED
            BY <5>3, <6>1
        <5> QED
          BY <5>1, <5>2, <5>4, <5>5
      <4> QED
        BY <4>2, <4>3, <4>4, <4>5
    <3> QED
      BY <1>5, <3>1, <3>2
  <2>6. /\ \A k \in 0..top, n \in Names :
              HoldsLet("Value", scopes'[1 + Frames(program, visits', k)].llvm[n],
                       VisibleAt(program, n, next + 1, k))
        /\ \A k \in 1..top, n \in Names :
              program[visits'[k]].kind = "func" =>
                scopes'[Frames(program, visits', k)].llvm[n]
                  \in {Absent, [kind |-> "Value", id |-> visits'[k]]}
    <3>1. \A i \in 1..(1 + F(top)) : scopes'[i] = scopes[i]
      BY <1>2, <2>5
    <3> QED
      BY <1>1, <2>1, <2>3, <2>4, <3>1, GeneratorKept
  <2>7. ASSUME NEW n \in Names
        PROVE  HoldsLet("Value", scopes'[1 + Frames(program, visits', top + 1)].llvm[n],
                        VisibleAt(program, n, next + 1, top + 1))
    <3>1. VisibleAt(program, n, next + 1, top + 1) = {}
      BY <1>1, <2>1, <2>2, VisibleNext
    <3> QED
      BY <2>5, <3>1 DEF HoldsLet, EmptyScope, NoEntries
  <2>8. /\ \A k \in 0..(top + 1) : k = top + 1 \/ k \in 0..top
        /\ \A k \in 1..(top + 1) : k = top + 1 \/ k \in 1..top
    BY <1>1
  <2> QED
    BY <2>1, <2>4, <2>5, <2>6, <2>7, <2>8 DEF GeneratorScopes
<1>6. CASE GenerateClose
  <2> DEFINE c == IF Innermost.kind = "func" THEN 2 ELSE 1
             h == top - 1
  <2>1. /\ next \in Positions /\ program[next].kind = "close" /\ next' = next + 1
        /\ visits' = Popped(visits, 1)
        /\ scopes' = Popped(scopes, c)
    BY <1>6 DEF GenerateClose, Leave, Generating, Visiting
  <2>2. /\ program[next] = Close /\ ~ Opens(program[next])
        /\ visits # <<>> /\ top \in Nat \ {0}
    BY <1>1, <2>1, KindAtNext, CloseIsNoOpening, AtClose
  <2>3. Depth(program, next) = top - 1
    BY <1>1, <2>1, <2>2, OneMove DEF Positions
  <2>4. h \in 0..top /\ h <= Depth(program, next) /\ program[next].kind # "let"
    BY <1>1, <2>1, <2>2, <2>3
  <2>5. /\ Len(visits') = h /\ \A k \in 1..h : visits'[k] = visits[k]
        /\ Frames(program, visits', h) = F(top) - c
        /\ Frames(program, visits', h) = F(h)
    <3>1. /\ Len(Popped(visits, 1)) = Len(visits) - 1
          /\ \A i \in 1..(Len(visits) - 1) : Popped(visits, 1)[i] = visits[i]
          /\ Frames(program, Popped(visits, 1), Len(visits) - 1)
               = Frames(program, visits, Len(visits))
                   - (IF program[visits[Len(visits)]].kind = "func" THEN 2 ELSE 1)
          /\ \A k \in 0..(Len(visits) - 1) :
               Frames(program, Popped(visits, 1), k) = Frames(program, visits, k)
      BY <1>1, <2>2, FramesOfPopped
    <3>2. h \in 0..h
      BY <1>1, <2>2
    <3> QED
      BY <2>1, <3>1, <3>2 DEF Innermost
  <2>6. \A i \in 1..(1 + F(h)) : scopes'[i] = scopes[i]
    <3>1. c \in {1, 2}
      OBVIOUS
    <3>2. F(h) \in Nat /\ F(h) = F(top) - c /\ F(top) \in Nat
      BY <1>1, <1>2, <2>4, <2>5
    <3> HIDE DEF c, F, h, top
    <3>3. c \in 0..Len(scopes) /\ Len(scopes) - c = 1 + F(h)
      BY <1>2, <3>1, <3>2
    <3> QED
      BY <1>2, <2>1, <3>3, PoppedIs
  <2>7. /\ h \in 0..Len(visits)
        /\ \A i \in 1..(1 + Frames(program, visits, h)) : scopes'[i] = scopes[i]
    BY <2>4, <2>6
  <2> HIDE DEF h
  <2>8. /\ \A k \in 0..h, n \in Names :
              HoldsLet("Value", scopes'[1 + Frames(program, visits', k)].llvm[n],
                       VisibleAt(program, n, next + 1, k))
        /\ \A k \in 1..h, n \in Names :
              program[visits'[k]].kind = "func" =>
                scopes'[Frames(program, visits', k)].llvm[n]
                  \in {Absent, [kind |-> "Value", id |-> visits'[k]]}
    <3>1. /\ h <= Depth(program, next) /\ program[next].kind # "let"
          /\ Opens(program[next]) => h # Depth(program, next)
          /\ \A k \in 1..h : visits'[k] = visits[k]
      BY <2>2, <2>4, <2>5
    <3>2. next \in Positions
      BY <2>1
    <3> QED
      BY <2>7, <3>1, <3>2, GeneratorKept
  <2> QED
    BY <2>1, <2>5, <2>8 DEF GeneratorScopes
<1> QED
  BY <1>3, <1>4, <1>5, <1>6, LateSteps
     DEF GenerateUndefined, GenerateThrow, GenerateEnd

LEMMA GeneratorStart ==
  ASSUME NEW ss, NEW v, ss = <<EmptyScope>>, v = <<>>
  PROVE  GeneratorScopes(ss, v, 1)
<1>1. Len(v) = 0 /\ ss[1] = EmptyScope
  OBVIOUS
<1>2. ASSUME NEW k \in 0..Len(v), NEW n \in Names
      PROVE  HoldsLet("Value", ss[1 + Frames(program, v, k)].llvm[n], VisibleAt(program, n, 1, k))
  <2>1. k = 0
    BY <1>1
  <2>2. 1 + Frames(program, v, k) = 1
    BY <2>1, FramesStep
  <2>3. ss[1 + Frames(program, v, k)] = EmptyScope
    BY <1>1, <2>2
  <2> QED
    BY <2>3, VisibleStart DEF HoldsLet, EmptyScope, NoEntries
<1> QED
  BY <1>1, <1>2 DEF GeneratorScopes

ScopesAsWalked ==
  /\ phase = "check" => CheckerScopes(scopes, visits, next)
  /\ phase = "generate" => GeneratorScopes(scopes, visits, next)

(* The uses of variables a pass has been at.                               *)
VariablesBound ==
  /\ mode = "none" => checked = <<>>
  /\ mode = "Build" => checked = NothingSeen
  /\ mode = "Run" =>
       \A i \in Positions : Use(i).kind = "id" =>
         /\ checked[i].kind = "Variable"
              => IsLast(checked[i].id, Visible(program, Use(i).name, i + 1))
         /\ generated[i] # Unseen
              => generated[i] # Absent /\ Resolved(generated[i], Visible(program, Use(i).name, i))

(* What the check has been at has an answer, and no answer is an error.    *)
Visited(i) == program[i].kind \in {"let", "print"} /\ Use(i) # Literal
AnswersKnown ==
  /\ phase = "check" =>
       \A i \in Positions : i < next /\ Visited(i) =>
         checked[i] # Unseen /\ (checked[i] = Absent => errors)
  /\ phase = "generate" /\ mode = "Run" =>
       \A i \in Positions : Visited(i) => checked[i] \notin {Unseen, Absent}

LEMMA ScopesPass ==
  ASSUME Types, ScopesAsWalked, PassStep
  PROVE  ScopesAsWalked'
<1>1. /\ Walk /\ UNCHANGED <<program, mode>> /\ phase \in Passes
      /\ phase' \in {"declare", "check", "rejected"} => phase \in {"declare", "check"}
  BY PassMoves DEF Types
<1>2. ASSUME phase' = "check" PROVE CheckerScopes(scopes', visits', next')
  <2>1. CASE phase = "check"
    BY <1>2, <2>1, CheckerPass DEF ScopesAsWalked
  <2>2. CASE phase = "declare"
    <3>1. DeclareEnd
      BY <1>2, <2>2, EarlySteps
         DEF DeclareFunction, DeclareBlock, DeclareClose, DeclareSkip, CheckLet, CheckPrint,
             CheckReturn, CheckFunction, CheckBlock, CheckClose, CheckErrors, CheckEnd,
             Visiting, Finished
    <3>2. scopes' = <<EmptyScope>> /\ visits' = <<>> /\ next' = 1
      BY <3>1 DEF DeclareEnd, BeginPass
    <3>3. ASSUME NEW k \in 0..Len(visits'), NEW n \in Names
          PROVE  HoldsLet("Variable", scopes'[k + 1].swa[n], VisibleAt(program, n, next', k))
      <4>1. k = 0
        BY <3>2
      <4>2. scopes'[k + 1] = EmptyScope
        BY <3>2, <4>1
      <4> QED
        BY <3>2, <4>2, VisibleStart DEF HoldsLet, EmptyScope, NoEntries
    <3> QED
      BY <3>3 DEF CheckerScopes
  <2> QED
    BY <1>1, <1>2, <2>1, <2>2
<1>3. ASSUME phase' = "generate" PROVE GeneratorScopes(scopes', visits', next')
  <2>1. CASE phase = "generate"
    BY <1>3, <2>1, GeneratorPass DEF ScopesAsWalked
  <2>2. CASE phase \in {"declare", "check"}
    <3>1. CheckEnd
      BY <1>3, <2>2, EarlySteps
         DEF DeclareFunction, DeclareBlock, DeclareClose, DeclareSkip, DeclareEnd, CheckLet,
             CheckPrint, CheckReturn, CheckFunction, CheckBlock, CheckClose, CheckErrors,
             BeginPass, Visiting, Finished
    <3>2. scopes' = <<EmptyScope>> /\ visits' = <<>> /\ next' = 1
      BY <3>1 DEF CheckEnd, BeginPass
    <3> QED
      BY <3>2, GeneratorStart
  <2> QED
    BY <1>1, <2>1, <2>2 DEF Passes
<1>4. /\ CheckerScopes(scopes, visits, next)' <=> CheckerScopes(scopes', visits', next')
      /\ GeneratorScopes(scopes, visits, next)' <=> GeneratorScopes(scopes', visits', next')
  BY <1>1 DEF CheckerScopes, GeneratorScopes
<1> QED
  BY <1>2, <1>3, <1>4 DEF ScopesAsWalked

(* What a let and a print are answered by the check.                       *)
LEMMA CheckerAnswers ==
  ASSUME Types, ScopesAsWalked, CheckLet \/ CheckPrint, program[next].use # Literal
  PROVE  \E e : /\ checked' = [checked EXCEPT ![next] = e]
                /\ errors' = (errors \/ e = Absent)
                /\ e \in Entries
                /\ Answers(e, Visible(program, program[next].use.name, next + 1),
                           functions[program[next].use.name])
<1> DEFINE u == program[next].use
<1>1. /\ Walk /\ next \in Positions /\ next \in 1..Len(program) /\ phase = "check"
      /\ program[next].kind \in {"let", "print"} /\ u \in Uses
      /\ mode = "Run" /\ program \in Program /\ Len(program) \in Nat
      /\ Len(visits) = Depth(program, next - 1) /\ Len(visits) \in Nat
      /\ ~ Opens(program[next]) /\ program[next] # Close
  <2>1. Walk /\ next \in Positions /\ phase = "check" /\ program[next].kind \in {"let", "print"}
    BY DEF CheckLet, CheckPrint, Visiting, Types
  <2>2. u \in Uses /\ ~ Opens(program[next]) /\ program[next] # Close
    BY <2>1, KindAtNext
  <2> QED
    BY <2>1, <2>2, WalkHere DEF Walk, Here, Stack, Positions
<1>2. u.name \in Names
  BY <1>1 DEF Uses
<1>3. scopes \in Seq(Scope) /\ Len(scopes) = 1 + Len(visits) /\ scopes # <<>>
  <2>1. scopes \in Seq(Scope) /\ Len(scopes) = 1 + Len(visits)
    BY <1>1 DEF Types, Counted, Late
  <2> QED
    BY <1>1, <2>1
<1>4. /\ Depth(program, next) = Len(visits)
      /\ next + 1 - 1 = next /\ next + 1 \in 1..(Len(program) + 1)
      /\ Depth(program, next) = Depth(program, (next + 1) - 1)
  BY <1>1, OneMove
<1>5. CheckerScopes(scopes, visits, next)
  BY <1>1 DEF ScopesAsWalked
<1>6. functions[u.name] \in Entries
  <2>1. functions[u.name] \in [kind : {"Function"}, id : Positions] \cup {Absent}
    BY <1>2 DEF Types, Tabled, Table
  <2> QED
    BY <2>1 DEF Entries
<1>7. PICK ss \in Seq(Scope) :
        /\ Check(ss, u) /\ Len(ss) = Len(scopes)
        /\ \A k \in 0..Len(visits) :
             HoldsLet("Variable", ss[k + 1].swa[u.name], VisibleAt(program, u.name, next + 1, k))
  <2>1. CASE CheckLet
    <3> DEFINE ss == Declared(scopes, "swa", program[next].name,
                              [kind |-> "Variable", id |-> next])
    <3>1. program[next].kind = "let" /\ program[next].name \in Names
      BY <1>1, <2>1, KindAtNext DEF CheckLet, Visiting
    <3>2. Check(ss, u) /\ scopes' = ss /\ visits' = visits /\ next' = next + 1 /\ phase' = phase
      BY <2>1 DEF CheckLet
    <3>3. ss \in Seq(Scope) /\ Len(ss) = Len(scopes)
      BY <1>1, <1>3, <3>1, DeclaredTyped
    <3>4. PassStep
      BY <2>1 DEF PassStep
    <3>5. CheckerScopes(scopes', visits', next')
      BY <1>1, <1>5, <3>2, <3>4, CheckerPass
    <3> HIDE DEF ss
    <3>6. \A k \in 0..Len(visits) :
            HoldsLet("Variable", ss[k + 1].swa[u.name], VisibleAt(program, u.name, next + 1, k))
      BY <1>2, <3>2, <3>5 DEF CheckerScopes
    <3> QED
      BY <3>2, <3>3, <3>6
  <2>2. CASE CheckPrint
    <3>2. /\ Check(scopes, u) /\ scopes' = scopes /\ visits' = visits /\ next' = next + 1
          /\ phase' = phase
      BY <2>2 DEF CheckPrint
    <3>4. PassStep
      BY <2>2 DEF PassStep
    <3>5. CheckerScopes(scopes', visits', next')
      BY <1>1, <1>5, <3>2, <3>4, CheckerPass
    <3>6. \A k \in 0..Len(visits) :
            HoldsLet("Variable", scopes[k + 1].swa[u.name],
                     VisibleAt(program, u.name, next + 1, k))
      BY <1>2, <3>2, <3>5 DEF CheckerScopes
    <3> QED
      BY <1>3, <3>2, <3>6
  <2> QED
    BY <2>1, <2>2
<1> DEFINE e == Found(ss, "swa", functions, u.name)
<1>8. Answers(e, Visible(program, u.name, next + 1), functions[u.name])
  <2>1. Len(ss) = 1 + Depth(program, (next + 1) - 1)
    BY <1>3, <1>4, <1>7
  <2>2. \A k \in 0..Depth(program, (next + 1) - 1) :
          HoldsLet("Variable", ss[k + 1].swa[u.name], VisibleAt(program, u.name, next + 1, k))
    BY <1>4, <1>7
  <2>3. next + 1 \in 1..(Len(program) + 1)
    BY <1>4
  <2> HIDE DEF u, e
  <2>4. Answers(Found(ss, "swa", functions, u.name), Visible(program, u.name, next + 1),
                functions[u.name])
    BY <1>2, <2>1, <2>2, <2>3, CheckerFinds
  <2> QED
    BY <2>4 DEF e
<1>9. e \in Entries
  BY <1>2, <1>6, FoundIsInnermost
<1>10. checked' = [checked EXCEPT ![next] = e] /\ errors' = (errors \/ e = Absent)
  BY <1>7 DEF Check
<1> HIDE DEF e
<1> QED
  BY <1>8, <1>9, <1>10

(* What a use of a variable is answered by the generation.                 *)
LEMMA GeneratorAnswers ==
  ASSUME Types, ScopesAsWalked, phase = "generate", next \in Positions,
         program[next].kind \in {"let", "print", "return"}, program[next].use.kind = "id"
  PROVE  Resolved(Resolution(program[next].use),
                  Visible(program, program[next].use.name, next))
<1> DEFINE u == program[next].use
<1>1. u \in Uses /\ u.name \in Names /\ mode # "none"
  <2>1. u \in Uses /\ mode # "none"
    BY KindAtNext DEF Types, Walk
  <2> QED
    BY <2>1 DEF Uses, Literal
<1>2. Resolution(u) = Found(scopes, "llvm", NoEntries, u.name)
  BY DEF Resolution
<1>3. GeneratorScopes(scopes, visits, next)
  BY DEF ScopesAsWalked
<1> HIDE DEF u
<1>4. Resolved(Found(scopes, "llvm", NoEntries, u.name), Visible(program, u.name, next))
  BY <1>1, <1>3, GeneratorFinds
<1> QED
  BY <1>2, <1>4 DEF u

LEMMA VariablesPass ==
  ASSUME Types, ScopesAsWalked, VariablesBound, PassStep
  PROVE  VariablesBound'
<1>1. /\ Walk /\ UNCHANGED <<program, mode>> /\ Positions' = Positions /\ mode # "none"
  <2>1. Walk /\ UNCHANGED <<program, mode>> /\ phase \in Passes
    BY PassMoves DEF Types
  <2> QED
    BY <2>1 DEF Walk, Passes, Positions
<1>2. /\ checked \in [Positions -> Binding({"Variable", "Function"})]
      /\ generated \in [Positions -> Binding({"Value", "Function"})]
  BY <1>1 DEF Types, Tabled
<1> DEFINE Seen(i) == Visible(program, Use(i).name, i + 1)
           Below(i) == Visible(program, Use(i).name, i)
<1>3. ASSUME mode = "Build" => checked' = NothingSeen,
             \A i \in Positions : mode = "Run" /\ Use(i).kind = "id" =>
               /\ checked'[i].kind = "Variable" => IsLast(checked'[i].id, Seen(i))
               /\ generated'[i] # Unseen =>
                    generated'[i] # Absent /\ Resolved(generated'[i], Below(i))
      PROVE  VariablesBound'
  <2>1. NothingSeen' = NothingSeen
    BY <1>1 DEF NothingSeen
  <2>2. ASSUME NEW i \in Positions
        PROVE  Use(i)' = Use(i)
    BY <1>1, UseKept
  <2>3. ASSUME NEW i \in Positions, mode = "Run", Use(i).kind = "id"
        PROVE  /\ checked'[i].kind = "Variable"
                    => IsLast(checked[i].id, Visible(program, Use(i).name, i + 1))'
               /\ generated'[i] # Unseen =>
                    /\ generated'[i] # Absent
                    /\ Resolved(generated[i], Visible(program, Use(i).name, i))'
    <3>1. /\ Visible(program, Use(i).name, i + 1)' = Seen(i)
          /\ Visible(program, Use(i).name, i)' = Below(i)
      BY <1>1, <2>2
    <3>2. IsLast(checked[i].id, Visible(program, Use(i).name, i + 1))'
            <=> IsLast(checked'[i].id, Seen(i))
      BY <3>1 DEF IsLast
    <3>3. Resolved(generated[i], Visible(program, Use(i).name, i))'
            <=> Resolved(generated'[i], Below(i))
      BY <1>1, <3>1 DEF Resolved, IsLast, Absent
    <3> QED
      BY <1>3, <2>3, <3>2, <3>3
  <2> QED
    BY <1>1, <1>3, <2>1, <2>2, <2>3 DEF VariablesBound, Unseen, Absent
<1>4. ASSUME NEW i \in Positions, mode = "Run", Use(i).kind = "id"
      PROVE  /\ checked[i].kind = "Variable" => IsLast(checked[i].id, Seen(i))
             /\ generated[i] # Unseen =>
                  generated[i] # Absent /\ Resolved(generated[i], Below(i))
  BY <1>4 DEF VariablesBound
<1>5. CASE (CheckLet \/ CheckPrint) /\ program[next].use # Literal
  <2> DEFINE u == program[next].use
  <2>1. PICK e : /\ checked' = [checked EXCEPT ![next] = e]
                 /\ Answers(e, Visible(program, u.name, next + 1), functions[u.name])
    BY <1>5, CheckerAnswers
  <2>2. /\ phase = "check" /\ next \in Positions /\ program[next].kind \in {"let", "print"}
        /\ generated' = generated
    BY <1>5 DEF CheckLet, CheckPrint, Visiting
  <2>3. mode = "Run" /\ u = Use(next) /\ u \in Uses
    BY <1>1, <2>2, KindAtNext DEF Walk, Use
  <2>4. ASSUME NEW i \in Positions, Use(i).kind = "id", checked'[i].kind = "Variable"
        PROVE  IsLast(checked'[i].id, Seen(i))
    <3>1. CASE i # next
      <4>1. checked'[i] = checked[i]
        BY <1>2, <2>1, <3>1
      <4> QED
        BY <1>4, <2>3, <2>4, <4>1
    <3>2. CASE i = next
      <4>1. checked'[i] = e /\ Visible(program, u.name, next + 1) = Seen(i)
        BY <1>2, <2>1, <2>3, <3>2
      <4>2. u.name \in Names
        BY <1>5, <2>3 DEF Uses
      <4>3. functions[u.name] \in [kind : {"Function"}, id : Positions] \cup {Absent}
        BY <4>2 DEF Types, Tabled, Table
      <4>4. functions[u.name].kind # "Variable"
        BY <4>3 DEF Absent
      <4>5. e # functions[u.name]
        BY <2>4, <4>1, <4>4
      <4>6. IsLast(e.id, Seen(i))
        BY <2>1, <4>1, <4>5 DEF Answers
      <4> QED
        BY <4>1, <4>6
    <3> QED
      BY <3>1, <3>2
  <2> QED
    BY <1>3, <1>4, <2>2, <2>3, <2>4
<1>6. CASE GenerateLet \/ GeneratePrint \/ GenerateReturn
  <2> DEFINE u == program[next].use
  <2>1. /\ next \in Positions /\ program[next].kind \in {"let", "print", "return"}
        /\ phase = "generate" /\ Evaluate(u) /\ checked' = checked
    BY <1>6 DEF GenerateLet, GeneratePrint, GenerateReturn, Generating, Visiting
  <2>2. u = Use(next)
    BY <2>1 DEF Use
  <2>3. ASSUME NEW i \in Positions, mode = "Run", Use(i).kind = "id", generated'[i] # Unseen
        PROVE  generated'[i] # Absent /\ Resolved(generated'[i], Below(i))
    <3>1. CASE i # next
      <4>1. generated'[i] = generated[i]
        BY <1>2, <2>1, <3>1 DEF Evaluate
      <4> QED
        BY <1>4, <2>3, <4>1
    <3>2. CASE i = next
      <4>1. generated'[i] = Resolution(u) /\ Resolution(u) # Absent
        BY <1>2, <2>1, <3>2 DEF Evaluate
      <4>2. Resolved(Resolution(u), Visible(program, u.name, next))
        BY <2>1, <2>2, <2>3, <3>2, GeneratorAnswers
      <4> QED
        BY <2>2, <3>2, <4>1, <4>2
    <3> QED
      BY <3>1, <3>2
  <2> QED
    BY <1>1, <1>3, <1>4, <2>1, <2>3 DEF VariablesBound
<1>7. CASE UNCHANGED <<checked, generated>>
  BY <1>1, <1>3, <1>4, <1>7 DEF VariablesBound
<1>8. CASE (CheckLet \/ CheckPrint) /\ program[next].use = Literal
  <2>1. UNCHANGED <<checked, generated>>
    BY <1>8 DEF CheckLet, CheckPrint, Check
  <2> QED
    BY <1>7, <2>1
<1> QED
  BY <1>5, <1>6, <1>7, <1>8, PassChanges

LEMMA AnswersPass ==
  ASSUME Types, ScopesAsWalked, AnswersKnown, PassStep
  PROVE  AnswersKnown'
<1>1. /\ Walk /\ UNCHANGED <<program, mode>> /\ Positions' = Positions /\ mode # "none"
      /\ phase \in Passes /\ \A i : Visited(i)' <=> Visited(i)
      /\ phase' \in {"declare", "check", "rejected"} => phase \in {"declare", "check"}
  <2>1. /\ Walk /\ UNCHANGED <<program, mode>> /\ Positions' = Positions /\ mode # "none"
        /\ phase \in Passes
        /\ phase' \in {"declare", "check", "rejected"} => phase \in {"declare", "check"}
    <3>1. /\ Walk /\ UNCHANGED <<program, mode>> /\ phase \in Passes
          /\ phase' \in {"declare", "check", "rejected"} => phase \in {"declare", "check"}
      BY PassMoves DEF Types
    <3> QED
      BY <3>1 DEF Walk, Passes, Positions
  <2>2. \A i : Visited(i)' <=> Visited(i)
    BY <2>1, UseKept DEF Visited
  <2> QED
    BY <2>1, <2>2
<1>2. /\ Len(program) \in Nat /\ next \in Nat \ {0}
      /\ checked \in [Positions -> Binding({"Variable", "Function"})]
      /\ errors \in BOOLEAN
  BY <1>1, WalkHere DEF Types, Tabled
<1>3. ASSUME phase' = "check", phase = "check", NEW i \in Positions, i < next', Visited(i)
      PROVE  checked'[i] # Unseen /\ (checked'[i] = Absent => errors')
  <2>1. i < next => checked[i] # Unseen /\ (checked[i] = Absent => errors)
    BY <1>3 DEF AnswersKnown
  <2>2. \/ CheckLet \/ CheckPrint \/ CheckReturn \/ CheckFunction \/ CheckBlock \/ CheckClose
    BY <1>3, EarlySteps
       DEF DeclareFunction, DeclareBlock, DeclareClose, DeclareSkip, DeclareEnd, CheckErrors,
           CheckEnd, BeginPass, Visiting, Finished
  <2>3. next' = next + 1 /\ i \in Nat
    BY <1>2, <2>2 DEF CheckLet, CheckPrint, CheckReturn, CheckFunction, CheckBlock, CheckClose,
                      Enter, Leave, Positions
  <2>4. CASE i # next
    <3>1. i < next
      BY <1>2, <1>3, <2>3, <2>4
    <3>2. checked'[i] = checked[i] /\ (errors => errors')
      <4>1. CASE (CheckLet \/ CheckPrint) /\ program[next].use # Literal
        BY <1>2, <2>4, <4>1, CheckerAnswers
      <4>2. CASE (CheckLet \/ CheckPrint) /\ program[next].use = Literal
        BY <4>2 DEF CheckLet, CheckPrint, Check
      <4>3. CASE ~ (CheckLet \/ CheckPrint)
        BY <2>2, <4>3 DEF CheckReturn, CheckFunction, CheckBlock, CheckClose
      <4> QED
        BY <4>1, <4>2, <4>3
    <3> QED
      BY <2>1, <3>1, <3>2
  <2>5. CASE i = next
    <3>1. (CheckLet \/ CheckPrint) /\ program[next].use # Literal
      <4>1. program[next].kind \in {"let", "print"} /\ Use(next) = program[next].use
        BY <1>3, <2>5 DEF Visited, Use
      <4>2. CheckLet \/ CheckPrint
        BY <2>2, <4>1 DEF CheckReturn, CheckFunction, CheckBlock, CheckClose, Visiting
      <4> QED
        BY <1>3, <2>5, <4>1, <4>2 DEF Visited
    <3>2. PICK e \in Entries : /\ checked' = [checked EXCEPT ![next] = e]
                               /\ errors' = (errors \/ e = Absent)
      BY <3>1, CheckerAnswers
    <3>3. checked'[i] = e /\ e # Unseen
      BY <1>2, <1>3, <2>5, <3>2 DEF Entries, Unseen, Absent
    <3> QED
      BY <3>2, <3>3
  <2> QED
    BY <2>4, <2>5
<1>4. ASSUME phase' = "check", phase = "declare", NEW i \in Positions, i < next'
      PROVE  FALSE
  <2>1. DeclareEnd
    BY <1>4, EarlySteps
       DEF DeclareFunction, DeclareBlock, DeclareClose, DeclareSkip, CheckLet, CheckPrint,
           CheckReturn, CheckFunction, CheckBlock, CheckClose, CheckErrors, CheckEnd,
           Visiting, Finished
  <2>2. next' = 1 /\ i \in Nat \ {0}
    BY <1>2, <2>1 DEF DeclareEnd, BeginPass, Positions
  <2> QED
    BY <1>4, <2>2
<1>5. ASSUME phase' = "generate", mode = "Run", NEW i \in Positions, Visited(i)
      PROVE  checked'[i] \notin {Unseen, Absent}
  <2>1. CASE phase = "generate"
    <3>1. checked' = checked
      BY <2>1, PassChanges DEF CheckLet, CheckPrint, Visiting
    <3> QED
      BY <1>5, <2>1, <3>1 DEF AnswersKnown
  <2>2. CASE phase \in {"declare", "check"}
    <3>1. CheckEnd
      BY <1>5, <2>2, EarlySteps
         DEF DeclareFunction, DeclareBlock, DeclareClose, DeclareSkip, DeclareEnd, CheckLet,
             CheckPrint, CheckReturn, CheckFunction, CheckBlock, CheckClose, CheckErrors,
             BeginPass, Visiting, Finished
    <3>2. phase = "check" /\ next > Len(program) /\ ~ errors /\ checked' = checked
      BY <3>1 DEF CheckEnd, Finished
    <3>3. i < next
      BY <1>2, <3>2 DEF Positions
    <3> QED
      BY <1>5, <3>2, <3>3 DEF AnswersKnown
  <2> QED
    BY <1>1, <2>1, <2>2 DEF Passes
<1> QED
  BY <1>1, <1>3, <1>4, <1>5 DEF AnswersKnown, Passes, Unseen, Absent

(* The generation of an accepted program runs out of names only as the     *)
(* property says.                                                          *)
LEMMA AcceptedPass ==
  ASSUME Types, ScopesAsWalked, VariablesBound, AnswersKnown, AcceptedNamesResolve, PassStep
  PROVE  AcceptedNamesResolve'
<1>1. /\ Walk /\ UNCHANGED <<program, mode>> /\ phase \in Passes
      /\ phase' \in {"declare", "check", "rejected"} => phase \in {"declare", "check"}
  BY PassMoves DEF Types
<1> SUFFICES ASSUME phase' = "aborted", mode = "Run"
             PROVE  \/ program[next].kind = "return"
                    \/ program[next].use.kind = "id" /\ checked[next].id = next
                    \/ program[next].use.kind = "id" /\ checked[next].kind = "Function"
                    \/ program[next].use.kind = "call" /\ checked[next].kind = "Variable"
  <2>1. GenerateThrow \/ GeneratePrint => (next' = next /\ checked' = checked) \/ phase' = phase
    BY DEF GenerateThrow, GeneratePrint
  <2>2. phase' = "aborted" => GenerateThrow \/ (GeneratePrint /\ phase' # phase)
    BY DEF PassStep, DeclareFunction, DeclareBlock, DeclareClose, DeclareSkip, DeclareEnd,
           CheckLet, CheckPrint, CheckReturn, CheckFunction, CheckBlock, CheckClose, CheckErrors,
           CheckEnd, BeginPass, GenerateUndefined, GenerateThrow, GenerateLet, GeneratePrint,
           GenerateReturn, GenerateFunction, GenerateBlock, GenerateClose, GenerateEnd,
           Generating, Visiting, Finished
  <2>3. phase' = "aborted" => phase' # phase
    BY <1>1 DEF Passes
  <2> QED
    BY <1>1, <2>1, <2>2, <2>3 DEF AcceptedNamesResolve
<1> DEFINE u == program[next].use
<1>2. CASE GenerateThrow
  <2>1. /\ phase = "generate" /\ next \in Positions /\ Resolution(u) = Absent
        /\ program[next].kind \in {"let", "print", "return"} /\ u.kind # "call"
    BY <1>2 DEF GenerateThrow, Generating, Visiting
  <2>2. u \in Uses /\ u = Use(next)
    BY <1>1, <2>1, KindAtNext DEF Use
  <2>3. u.kind = "id"
    <3>1. u # Literal
      BY <2>1 DEF Resolution, Literal, Unseen, Absent
    <3> QED
      BY <2>1, <2>2, <3>1 DEF Uses
  <2>4. CASE program[next].kind # "return"
    <3>1. Visited(next)
      BY <2>1, <2>2, <2>3, <2>4 DEF Visited, Literal
    <3>2. checked[next] \notin {Unseen, Absent}
      BY <2>1, <3>1 DEF AnswersKnown
    <3>3. checked[next] \in Binding({"Variable", "Function"})
      BY <2>1 DEF Types, Tabled
    <3>4. CASE checked[next].kind = "Variable"
      <4>1. IsLast(checked[next].id, Visible(program, u.name, next + 1))
        BY <2>1, <2>2, <2>3, <3>4 DEF VariablesBound
      <4>2. Visible(program, u.name, next) = {}
        BY <2>1, <2>3, GeneratorAnswers DEF Resolved
      <4>3. /\ program \in Program /\ next \in 1..Len(program) /\ ~ Opens(program[next])
            /\ program[next] # Close
        BY <1>1, <2>1, KindAtNext DEF Walk, Positions
      <4>4. Visible(program, u.name, next + 1) = Visible(program, u.name, next)
              \cup (IF IsLet(program, next, u.name) THEN {next} ELSE {})
        BY <4>3, VisibleAtUse
      <4>5. checked[next].id = next
        BY <4>1, <4>2, <4>4 DEF IsLast
      <4> QED
        BY <2>3, <4>5
    <3> QED
      BY <2>3, <3>2, <3>3, <3>4 DEF Binding
  <2> QED
    BY <2>4
<1>3. CASE GeneratePrint
  <2>1. /\ phase = "generate" /\ next \in Positions /\ program[next].kind = "print"
        /\ u.kind = "call" /\ checked[next].kind # "Function"
    BY <1>1, <1>3 DEF GeneratePrint, PrintsDirty, Generating, Visiting, Passes
  <2>2. Visited(next)
    BY <2>1 DEF Visited, Use, Literal
  <2>3. checked[next] \notin {Unseen, Absent}
    BY <2>1, <2>2 DEF AnswersKnown
  <2>4. checked[next] \in Binding({"Variable", "Function"})
    BY <2>1 DEF Types, Tabled
  <2> QED
    BY <2>1, <2>3, <2>4 DEF Binding
<1> QED
  BY <1>2, <1>3
     DEF PassStep, DeclareFunction, DeclareBlock, DeclareClose, DeclareSkip, DeclareEnd,
         CheckLet, CheckPrint, CheckReturn, CheckFunction, CheckBlock, CheckClose, CheckErrors,
         CheckEnd, BeginPass, GenerateUndefined, GenerateLet, GenerateReturn, GenerateFunction,
         GenerateBlock, GenerateClose, GenerateEnd, Generating, Visiting, Finished

(***************************************************************************)
(* What a use of a variable is bound to, as an inductive invariant.        *)
(***************************************************************************)
Bindings == Types /\ ScopesAsWalked /\ VariablesBound /\ AnswersKnown /\ AcceptedNamesResolve

LEMMA BindingsInit == Init => Bindings
<1> SUFFICES ASSUME Init PROVE Bindings
  OBVIOUS
<1>1. Types
  BY TypesInit
<1>2. mode = "none" /\ phase = "parse" /\ checked = <<>>
  BY DEF Init
<1> QED
  BY <1>1, <1>2 DEF Bindings, ScopesAsWalked, VariablesBound, AnswersKnown, AcceptedNamesResolve

LEMMA BindingsNext == Bindings /\ [Next]_vars => Bindings'
<1> SUFFICES ASSUME Bindings, [Next]_vars PROVE Bindings'
  OBVIOUS
<1>1. Types /\ Types'
  BY TypesNext DEF Bindings
<1>2. CASE UNCHANGED vars
  <2>1. /\ CheckerScopes(scopes, visits, next)' <=> CheckerScopes(scopes, visits, next)
        /\ GeneratorScopes(scopes, visits, next)' <=> GeneratorScopes(scopes, visits, next)
    BY <1>2 DEF vars, CheckerScopes, GeneratorScopes
  <2>2. \A i : (Use(i)' = Use(i)) /\ (Visited(i)' <=> Visited(i))
    BY <1>2, UseKept DEF vars, Visited
  <2>3. Positions' = Positions /\ NothingSeen' = NothingSeen
    BY <1>2 DEF vars, Positions, NothingSeen
  <2>4. VariablesBound'
    <3>1. ASSUME NEW i \in Positions
          PROVE  /\ IsLast(checked[i].id, Visible(program, Use(i).name, i + 1))'
                      <=> IsLast(checked[i].id, Visible(program, Use(i).name, i + 1))
                 /\ Resolved(generated[i], Visible(program, Use(i).name, i))'
                      <=> Resolved(generated[i], Visible(program, Use(i).name, i))
      BY <1>2, <2>2 DEF vars, Resolved, IsLast, Absent
    <3> QED
      BY <1>2, <2>2, <2>3, <3>1 DEF vars, Bindings, VariablesBound, Unseen, Absent
  <2>5. AnswersKnown'
    BY <1>2, <2>2, <2>3 DEF vars, Bindings, AnswersKnown, Unseen, Absent
  <2>6. AcceptedNamesResolve'
    BY <1>2 DEF vars, Bindings, AcceptedNamesResolve
  <2>7. ScopesAsWalked'
    BY <1>2, <2>1 DEF vars, Bindings, ScopesAsWalked
  <2> QED
    BY <1>1, <2>4, <2>5, <2>6, <2>7 DEF Bindings
<1>3. CASE (\E s \in Statements : ParseStatement(s)) \/ ParseClose
  <2>1. phase = "parse" /\ mode = "none" /\ UNCHANGED <<mode, phase, checked>>
    BY <1>1, <1>3 DEF ParseStatement, ParseClose, Types, Walk
  <2> QED
    BY <1>1, <2>1
       DEF Bindings, ScopesAsWalked, VariablesBound, AnswersKnown, AcceptedNamesResolve
<1>4. CASE StartRun \/ StartBuild
  <2>1. /\ UNCHANGED program /\ scopes' = <<EmptyScope>> /\ visits' = <<>> /\ next' = 1
        /\ <<mode', phase'>> \in {<<"Run", "declare">>, <<"Build", "generate">>}
        /\ checked' = NothingSeen /\ generated' = NothingSeen
    BY <1>4 DEF StartRun, StartBuild, BeginPass
  <2>2. Positions' = Positions /\ NothingSeen' = NothingSeen
    BY <2>1 DEF Positions, NothingSeen
  <2>3. ScopesAsWalked'
    <3>1. GeneratorScopes(scopes', visits', next')
      BY <2>1, GeneratorStart
    <3>2. GeneratorScopes(scopes, visits, next)'
      BY <2>1, <3>1 DEF GeneratorScopes
    <3> QED
      BY <2>1, <3>2 DEF ScopesAsWalked
  <2>4. VariablesBound'
    <3>1. \A i \in Positions : checked'[i] = Unseen /\ generated'[i] = Unseen
      BY <2>1 DEF NothingSeen
    <3> QED
      BY <2>1, <2>2, <3>1 DEF VariablesBound, Unseen
  <2> QED
    BY <1>1, <2>1, <2>3, <2>4 DEF Bindings, AnswersKnown, AcceptedNamesResolve
<1>5. CASE PassStep
  BY <1>1, <1>5, ScopesPass, VariablesPass, AnswersPass, AcceptedPass DEF Bindings
<1> QED
  BY <1>2, <1>3, <1>4, <1>5, NextSteps

LEMMA BindingsAlways == Spec => []Bindings
<1> QED
  BY BindingsInit, BindingsNext, PTL DEF Spec

LEMMA BindingsSuffice == Bindings => VariableUsesAgree
<1> SUFFICES ASSUME Bindings, NEW i \in DOMAIN checked, Bound(i, "id"),
                    checked[i].kind = "Variable"
             PROVE  \/ generated[i] = [kind |-> "Value", id |-> checked[i].id]
                    \/ checked[i].id = i
                    \/ program[generated[i].id].kind = "func" /\ checked[i].id < generated[i].id
  BY DEF VariableUsesAgree
<1>1. /\ mode # "none" /\ i \in Positions /\ Walk /\ program \in Program /\ i \in Nat
      /\ i \in 1..Len(program)
      /\ checked \in [Positions -> Binding({"Variable", "Function"})]
      /\ generated \in [Positions -> Binding({"Value", "Function"})]
  <2>1. mode # "none" /\ Walk /\ program \in Program
    BY DEF Bindings, VariablesBound, Types, Walk
  <2> QED
    BY <2>1 DEF Bindings, Types, Tabled, Positions
<1>2. mode = "Run"
  <2>1. NothingSeen[i].kind # "Variable"
    BY <1>1 DEF NothingSeen, Unseen
  <2> QED
    BY <1>1, <2>1 DEF Bindings, Walk, VariablesBound
<1>3. /\ Use(i).kind = "id"
      /\ IsLast(checked[i].id, Visible(program, Use(i).name, i + 1))
      /\ generated[i] # Absent /\ Resolved(generated[i], Visible(program, Use(i).name, i))
  BY <1>1, <1>2 DEF Bindings, VariablesBound, Bound
<1>4. Visible(program, Use(i).name, i + 1)
        = Visible(program, Use(i).name, i)
            \cup (IF IsLet(program, i, Use(i).name) THEN {i} ELSE {})
  <2>1. ~ Opens(program[i]) /\ program[i] # Close
    BY <1>3 DEF Use, Literal, Opens, Close
  <2> QED
    BY <1>1, <2>1, VisibleAtUse
<1>5. CASE checked[i].id # i
  <2>1. IsLast(checked[i].id, Visible(program, Use(i).name, i))
    BY <1>3, <1>4, <1>5 DEF IsLast
  <2>2. /\ generated[i] \in [kind : {"Value", "Function"}, id : Positions]
        /\ generated[i].kind = "Value"
    BY <1>1, <1>3 DEF Resolved, Binding, Unseen, Absent
  <2>3. checked[i].id \in Nat /\ generated[i].id \in Nat
    BY <2>1, <2>2 DEF IsLast, Visible, Positions
  <2>4. CASE IsLast(generated[i].id, Visible(program, Use(i).name, i))
    <3>1. generated[i].id = checked[i].id
      BY <2>1, <2>3, <2>4 DEF IsLast
    <3> QED
      BY <2>2, <3>1
  <2>5. CASE /\ program[generated[i].id].kind = "func"
             /\ \A j \in Visible(program, Use(i).name, i) : j < generated[i].id
    BY <2>1, <2>5 DEF IsLast
  <2> QED
    BY <1>3, <2>4, <2>5 DEF Resolved
<1> QED
  BY <1>5

(* In SwaCompiler::Run a variable is generated from the declaration        *)
(* TypeCheckVisitor has checked it with, except in its own initialiser and *)
(* below a parameter.                                                      *)
THEOREM UsesAgree == Spec => []VariableUsesAgree
<1> QED
  BY BindingsAlways, BindingsSuffice, PTL

(* CodeGenVisitor runs out of names in a program TypeCheckVisitor accepts  *)
(* only at a return, at a variable initialised with itself and where a     *)
(* function is used as a variable or a variable as a function.             *)
THEOREM AcceptedNamesAreResolved == Spec => []AcceptedNamesResolve
<1>1. Bindings => AcceptedNamesResolve
  BY DEF Bindings
<1> QED
  BY <1>1, BindingsAlways, PTL
=============================================================================
