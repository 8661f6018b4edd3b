---------------------------- MODULE OutcomeProofs ----------------------------
(***************************************************************************)
(* The text of a program and what CodeGenVisitor makes of it: where code   *)
(* goes, which tests are called, and which modules the verifier passes.    *)
(***************************************************************************)
EXTENDS EmissionProofs

(***************************************************************************)
(* The text: which bodies are open, and whose a statement is.              *)
(***************************************************************************)
Owning == {"func", "test"}
Nesting == NestedIn("func") \/ NestedIn("test")

(* Statement i is the one frame k visits.                                  *)
VisitedBy(k, i) ==
  /\ program[i] = visits[k].kind /\ Inside(i, Len(program) + 1)
  /\ Opened(i, Len(program)) = Closed(i, Len(program)) + (Len(visits) + 1 - k)
Followed == \A k \in DOMAIN visits : \E i \in Positions : VisitedBy(k, i)

(* Unless a function is declared inside, one body that owns code is open,  *)
(* and code is added to its function.                                      *)
OneOwner ==
  \A k, m \in DOMAIN visits :
    k < m /\ visits[k].kind \in Owning => visits[m].kind = "block"
InOwn ==
  (\E k \in DOMAIN visits : visits[k].kind \in Owning) =>
    insert # 0 /\ blocks[insert].function = Len(functions)
Texted ==
  phase \in {"program", "tests"} => Followed /\ (Nesting \/ (OneOwner /\ InOwn))

OpensAt(i, j) == {k \in i..j : program[k] \in Bodies}
ClosesAt(i, j) == {k \in i..j : program[k] = "close"}

LEMMA TextCounts ==
  ASSUME NEW i \in Nat, NEW j \in Nat
  PROVE  /\ IsFiniteSet(OpensAt(i, j)) /\ IsFiniteSet(ClosesAt(i, j))
         /\ Opened(i, j) = Cardinality(OpensAt(i, j)) /\ Opened(i, j) \in Nat
         /\ Closed(i, j) = Cardinality(ClosesAt(i, j)) /\ Closed(i, j) \in Nat
<1>1. IsFiniteSet(i..j)
  BY FS_Interval
<1>2. OpensAt(i, j) \in SUBSET (i..j) /\ ClosesAt(i, j) \in SUBSET (i..j)
  BY DEF OpensAt, ClosesAt
<1>3. IsFiniteSet(OpensAt(i, j)) /\ IsFiniteSet(ClosesAt(i, j))
  BY <1>1, <1>2, FS_Subset
<1>4. Cardinality(OpensAt(i, j)) \in Nat /\ Cardinality(ClosesAt(i, j)) \in Nat
  BY <1>3, FS_CardinalityType
<1> QED
  BY <1>3, <1>4 DEF Opened, Closed, OpensAt, ClosesAt

(* A statement is added.                                                   *)
Reads(s) ==
  LET n == Len(program) IN
  /\ n \in Nat /\ Len(program') = n + 1
  /\ \A k \in 1..n : program'[k] = program[k]
  /\ program'[n + 1] = s

LEMMA ReadsOne ==
  ASSUME Typed, NEW s \in Kinds, program' = Append(program, s)
  PROVE  Reads(s)
<1>1. program \in Seq(Kinds)
  BY DEF Typed
<1>2. /\ Len(Append(program, s)) = Len(program) + 1 /\ Len(program) \in Nat
      /\ \A k \in 1..Len(program) : Append(program, s)[k] = program[k]
      /\ Append(program, s)[Len(program) + 1] = s
  BY <1>1, Added, LenProperties
<1> QED
  BY <1>2 DEF Reads

LEMMA ReadsCounts ==
  ASSUME NEW s, Reads(s), NEW n, n = Len(program)
  PROVE  /\ \A i \in Nat, j \in 0..n : i # 0 =>
              Opened(i, j)' = Opened(i, j) /\ Closed(i, j)' = Closed(i, j)
         /\ \A i \in 1..(n + 1) :
              /\ Opened(i, n + 1)' = Opened(i, n) + (IF s \in Bodies THEN 1 ELSE 0)
              /\ Closed(i, n + 1)' = Closed(i, n) + (IF s = "close" THEN 1 ELSE 0)
<1>1. /\ n \in Nat /\ \A k \in 1..n : program'[k] = program[k]
      /\ program'[n + 1] = s
  BY DEF Reads
<1>2. ASSUME NEW i \in Nat, NEW j \in 0..n, i # 0
      PROVE  OpensAt(i, j)' = OpensAt(i, j) /\ ClosesAt(i, j)' = ClosesAt(i, j)
  <2>1. \A k \in i..j : program'[k] = program[k]
    BY <1>1, <1>2
  <2> QED
    BY <2>1 DEF OpensAt, ClosesAt
<1>3. ASSUME NEW i \in Nat, NEW j \in 0..n, i # 0
      PROVE  Opened(i, j)' = Opened(i, j) /\ Closed(i, j)' = Closed(i, j)
  BY <1>2, <1>3 DEF Opened, Closed, OpensAt, ClosesAt
<1>4. ASSUME NEW i \in 1..(n + 1)
      PROVE  /\ OpensAt(i, n + 1)' = OpensAt(i, n) \cup (IF s \in Bodies THEN {n + 1} ELSE {})
             /\ ClosesAt(i, n + 1)' = ClosesAt(i, n) \cup (IF s = "close" THEN {n + 1} ELSE {})
             /\ n + 1 \notin OpensAt(i, n) /\ n + 1 \notin ClosesAt(i, n)
  <2>1. i..(n + 1) = (i..n) \cup {n + 1} /\ n + 1 \notin i..n /\ \A k \in i..n : k \in 1..n
    BY <1>1, <1>4
  <2>2. \A k \in i..n : program'[k] = program[k]
    BY <1>1, <2>1
  <2> QED
    BY <1>1, <2>1, <2>2 DEF OpensAt, ClosesAt
<1>5. ASSUME NEW i \in 1..(n + 1)
      PROVE  Opened(i, n + 1)' = Opened(i, n) + (IF s \in Bodies THEN 1 ELSE 0)
  <2>1. IsFiniteSet(OpensAt(i, n)) /\ Opened(i, n) = Cardinality(OpensAt(i, n)) /\ Opened(i, n) \in Nat
    BY <1>1, <1>5, TextCounts
  <2>2. Opened(i, n + 1)' = Cardinality(OpensAt(i, n + 1)')
    BY DEF Opened, OpensAt
  <2>3. CASE s \in Bodies
    <3>1. OpensAt(i, n + 1)' = OpensAt(i, n) \cup {n + 1} /\ n + 1 \notin OpensAt(i, n)
      BY <1>4, <1>5, <2>3
    <3>2. Cardinality(OpensAt(i, n) \cup {n + 1}) = Cardinality(OpensAt(i, n)) + 1
      BY <2>1, <3>1, FS_AddElement
    <3> QED
      BY <2>1, <2>2, <2>3, <3>1, <3>2
  <2>4. CASE s \notin Bodies
    <3>1. OpensAt(i, n + 1)' = OpensAt(i, n)
      BY <1>4, <1>5, <2>4
    <3> QED
      BY <2>1, <2>2, <2>4, <3>1
  <2> QED
    BY <2>3, <2>4
<1>6. ASSUME NEW i \in 1..(n + 1)
      PROVE  Closed(i, n + 1)' = Closed(i, n) + (IF s = "close" THEN 1 ELSE 0)
  <2>1. IsFiniteSet(ClosesAt(i, n)) /\ Closed(i, n) = Cardinality(ClosesAt(i, n)) /\ Closed(i, n) \in Nat
    BY <1>1, <1>6, TextCounts
  <2>2. Closed(i, n + 1)' = Cardinality(ClosesAt(i, n + 1)')
    BY DEF Closed, ClosesAt
  <2>3. CASE s = "close"
    <3>1. ClosesAt(i, n + 1)' = ClosesAt(i, n) \cup {n + 1} /\ n + 1 \notin ClosesAt(i, n)
      BY <1>4, <1>6, <2>3
    <3>2. Cardinality(ClosesAt(i, n) \cup {n + 1}) = Cardinality(ClosesAt(i, n)) + 1
      BY <2>1, <3>1, FS_AddElement
    <3> QED
      BY <2>1, <2>2, <2>3, <3>1, <3>2
  <2>4. CASE s # "close"
    <3>1. ClosesAt(i, n + 1)' = ClosesAt(i, n)
      BY <1>4, <1>6, <2>4
    <3> QED
      BY <2>1, <2>2, <2>4, <3>1
  <2> QED
    BY <2>3, <2>4
<1> QED
  BY <1>3, <1>5, <1>6

(* The statements before it stay whose they are; it is itself owned by     *)
(* what was open.                                                          *)
LEMMA ReadsInside ==
  ASSUME NEW s, Reads(s), NEW n, n = Len(program)
  PROVE  /\ \A i \in 1..n, j \in 1..(n + 1) : Inside(i, j)' <=> Inside(i, j)
         /\ \A i \in 1..n : Inside(i, n + 2)' <=>
              Inside(i, n + 1) /\ Opened(i, n + 1)' > Closed(i, n + 1)'
         /\ s \in Bodies => Inside(n + 1, n + 2)'
<1>1. n \in Nat
  BY DEF Reads
<1>2. ASSUME NEW i \in 1..n, NEW k \in i..n
      PROVE  Opened(i, k)' = Opened(i, k) /\ Closed(i, k)' = Closed(i, k)
  <2>1. i \in Nat /\ k \in 0..n /\ i # 0
    BY <1>1, <1>2
  <2> QED
    BY <2>1, ReadsCounts
<1>3. ASSUME NEW i \in 1..n, NEW j \in 1..(n + 1)
      PROVE  Inside(i, j)' <=> Inside(i, j)
  <2>1. \A k \in i..(j - 1) : k \in i..n
    BY <1>1, <1>3
  <2> QED
    BY <1>2, <2>1 DEF Inside
<1>4. ASSUME NEW i \in 1..n
      PROVE  Inside(i, n + 2)' <=> Inside(i, n + 1) /\ Opened(i, n + 1)' > Closed(i, n + 1)'
  <2>1. /\ i..(n + 2 - 1) = (i..(n + 1 - 1)) \cup {n + 1} /\ i < n + 1 /\ i < n + 2
        /\ \A k \in i..(n + 1 - 1) : k \in i..n
    BY <1>1, <1>4
  <2> QED
    BY <1>2, <2>1 DEF Inside
<1>5. ASSUME s \in Bodies PROVE Inside(n + 1, n + 2)'
  <2>1. s # "close"
    BY <1>5 DEF Bodies
  <2>2. OpensAt(n + 1, n) = {} /\ ClosesAt(n + 1, n) = {}
    BY <1>1 DEF OpensAt, ClosesAt
  <2>3. Opened(n + 1, n) = 0 /\ Closed(n + 1, n) = 0
    <3>1. n + 1 \in Nat
      BY <1>1
    <3>2. /\ Opened(n + 1, n) = Cardinality(OpensAt(n + 1, n))
          /\ Closed(n + 1, n) = Cardinality(ClosesAt(n + 1, n))
      BY <1>1, <3>1, TextCounts
    <3> QED
      BY <2>2, <3>2, FS_EmptySet
  <2>4. n + 1 \in 1..(n + 1)
    BY <1>1
  <2>5. Opened(n + 1, n + 1)' = 1 /\ Closed(n + 1, n + 1)' = 0
    BY <1>5, <2>1, <2>3, <2>4, ReadsCounts
  <2>6. (n + 1)..(n + 2 - 1) = {n + 1} /\ n + 1 < n + 2
    BY <1>1
  <2> QED
    BY <2>5, <2>6 DEF Inside
<1> QED
  BY <1>3, <1>4, <1>5

OwnersOf(j) == {i \in Positions : program[i] \in {"func", "test"} /\ Inside(i, j)}
LastOf(S) == IF S = {} THEN 0 ELSE CHOOSE i \in S : \A k \in S : k <= i

LEMMA OwnerOf ==
  ASSUME Len(program) \in Nat, NEW j, NEW i \in OwnersOf(j)
  PROVE  Owner(j) \in OwnersOf(j) /\ Owner(j) # 0
<1> DEFINE n == Len(program)
           above == {n - k : k \in OwnersOf(j)}
<1>1. \A k \in OwnersOf(j) : k \in 1..n /\ k \in Nat /\ n - k \in Nat
  BY DEF OwnersOf, Positions
<1>2. PICK m \in above : \A k \in above : m <= k
  <2>1. above \in SUBSET Nat /\ above # {}
    BY <1>1
  <2> HIDE DEF above
  <2> QED
    BY <2>1, Least
<1>3. PICK o \in OwnersOf(j) : m = n - o
  BY <1>2
<1>4. \A k \in OwnersOf(j) : k <= o
  <2>1. ASSUME NEW k \in OwnersOf(j) PROVE k <= o
    <3>1. n - k \in above
      BY <2>1
    <3>2. n - o <= n - k
      BY <1>2, <1>3, <3>1
    <3>3. k \in Nat /\ o \in Nat /\ n \in Nat
      BY <1>1, <1>3
    <3> HIDE DEF n
    <3> QED
      BY <3>2, <3>3
  <2> QED
    BY <2>1
<1> DEFINE c == CHOOSE x \in OwnersOf(j) : \A k \in OwnersOf(j) : k <= x
<1>5. c \in OwnersOf(j)
  BY <1>4
<1>6. Owner(j) = c
  <2>1. OwnersOf(j) # {}
    OBVIOUS
  <2> QED
    BY <2>1 DEF Owner, OwnersOf
<1> HIDE DEF c
<1>7. c # 0
  BY <1>1, <1>5
<1> QED
  BY <1>5, <1>6, <1>7

LEMMA OwnersKept ==
  ASSUME NEW s, Reads(s), NEW n, n = Len(program), NEW j \in 1..(n + 1)
  PROVE  Owner(j)' = Owner(j)
<1>1. n \in Nat /\ Len(program') = n + 1 /\ \A k \in 1..n : program'[k] = program[k]
  BY DEF Reads
<1>2. \A i : i \in OwnersOf(j)' <=> i \in OwnersOf(j)
  <2>1. ASSUME NEW i, i \in 1..n PROVE i \in OwnersOf(j)' <=> i \in OwnersOf(j)
    <3>1. Inside(i, j)' <=> Inside(i, j)
      BY <2>1, ReadsInside
    <3>2. i \in Positions /\ i \in Positions' /\ program'[i] = program[i]
      BY <1>1, <2>1 DEF Positions
    <3> QED
      BY <3>1, <3>2 DEF OwnersOf
  <2>2. ASSUME NEW i, i \notin 1..n PROVE i \notin OwnersOf(j)' /\ i \notin OwnersOf(j)
    <3>1. i \notin Positions /\ (i \in Positions' => i = n + 1)
      BY <1>1, <2>2 DEF Positions
    <3>2. ~ (n + 1 < j)
      BY <1>1
    <3>3. i = n + 1 => ~ Inside(i, j)'
      BY <3>2 DEF Inside
    <3> QED
      BY <3>1, <3>3 DEF OwnersOf
  <2> QED
    BY <2>1, <2>2
<1>3. OwnersOf(j)' = OwnersOf(j)
  BY <1>2
<1>4. Owner(j) = LastOf(OwnersOf(j))
  BY DEF Owner, OwnersOf, LastOf
<1>5. Owner(j)' = LastOf(OwnersOf(j)')
  BY DEF Owner, OwnersOf, LastOf
<1> QED
  BY <1>3, <1>4, <1>5

LEMMA NestingKept ==
  ASSUME NEW s, Reads(s), Nesting
  PROVE  Nesting'
<1>1. /\ Len(program) \in Nat /\ Len(program') = Len(program) + 1
      /\ \A k \in 1..Len(program) : program'[k] = program[k]
  BY DEF Reads
<1>2. PICK j \in Positions, kind \in Owning :
        program[j] = "func" /\ Owner(j) # 0 /\ program[Owner(j)] = kind
  BY DEF Nesting, NestedIn, OwnedBy, Owning
<1>3. Owner(j)' = Owner(j)
  <2>1. PICK n : n = Len(program)
    OBVIOUS
  <2>2. j \in 1..(n + 1)
    BY <1>1, <1>2, <2>1 DEF Positions
  <2> QED
    BY <2>1, <2>2, OwnersKept
<1>4. Owner(j) \in 1..Len(program)
  <2>1. OwnersOf(j) # {}
    BY <1>2 DEF Owner, OwnersOf
  <2>2. Owner(j) \in OwnersOf(j)
    BY <1>1, <2>1, OwnerOf
  <2> QED
    BY <2>2 DEF OwnersOf, Positions
<1>5. /\ j \in Positions' /\ program'[j] = "func" /\ Owner(j)' # 0 /\ program'[Owner(j)'] = kind
  BY <1>1, <1>2, <1>3, <1>4 DEF Positions
<1> QED
  BY <1>2, <1>5 DEF Nesting, NestedIn, OwnedBy, Owning

(* A function declared in a function or a test is nested.                  *)
LEMMA NestingBegins ==
  ASSUME Reads("func"), Followed, NEW k \in DOMAIN visits, visits[k].kind \in Owning
  PROVE  Nesting'
<1>1. PICK n : n = Len(program)
  OBVIOUS
<1>2. /\ n \in Nat /\ Len(program') = n + 1 /\ program'[n + 1] = "func"
      /\ \A i \in 1..n : program'[i] = program[i]
  BY <1>1 DEF Reads
<1>3. PICK i \in Positions : program[i] = visits[k].kind /\ Inside(i, n + 1)
  BY <1>1 DEF Followed, VisitedBy
<1>4. i \in OwnersOf(n + 1)
  BY <1>3 DEF OwnersOf, Owning
<1>5. Owner(n + 1) \in OwnersOf(n + 1) /\ Owner(n + 1) # 0
  BY <1>1, <1>2, <1>4, OwnerOf
<1>6. Owner(n + 1)' = Owner(n + 1)
  <2>1. n + 1 \in 1..(n + 1)
    BY <1>2
  <2> QED
    BY <1>1, <2>1, OwnersKept
<1>7. PICK o : o = Owner(n + 1)
  OBVIOUS
<1>8. o \in 1..n /\ program[o] \in {"func", "test"}
  BY <1>1, <1>5, <1>7 DEF OwnersOf, Positions
<1>9. /\ n + 1 \in Positions' /\ program'[o] \in {"func", "test"} /\ Owner(n + 1)' = o /\ o # 0
  BY <1>2, <1>5, <1>6, <1>7, <1>8 DEF Positions
<1> QED
  BY <1>2, <1>9 DEF Nesting, NestedIn, OwnedBy

(* A body that was open and is not the one being closed.                   *)
LEMMA VisitKept ==
  ASSUME NEW s, Reads(s), NEW k, NEW i \in Positions, VisitedBy(k, i),
         Len(visits) \in Nat, k \in 1..Len(visits), k \in 1..Len(visits'),
         visits'[k] = visits[k], Len(visits') \in Nat,
         \/ s \in Bodies /\ Len(visits') = Len(visits) + 1
         \/ s = "close" /\ Len(visits) = Len(visits') + 1
         \/ s \notin Bodies /\ s # "close" /\ Len(visits') = Len(visits)
  PROVE  i \in Positions' /\ VisitedBy(k, i)'
<1>1. PICK n : n = Len(program)
  OBVIOUS
<1>2. /\ n \in Nat /\ Len(program') = n + 1 /\ i \in 1..n
      /\ program'[i] = program[i] /\ program[i] = visits[k].kind /\ Inside(i, n + 1)
      /\ Opened(i, n) = Closed(i, n) + (Len(visits) + 1 - k)
  BY <1>1 DEF Reads, Positions, VisitedBy
<1>3. i \in Nat /\ n \in Nat /\ i \in 1..(n + 1)
  BY <1>2
<1>4. Opened(i, n) \in Nat /\ Closed(i, n) \in Nat
  BY <1>3, TextCounts
<1>5. /\ Opened(i, n + 1)' = Opened(i, n) + (IF s \in Bodies THEN 1 ELSE 0)
      /\ Closed(i, n + 1)' = Closed(i, n) + (IF s = "close" THEN 1 ELSE 0)
  BY <1>1, <1>3, ReadsCounts
<1>6. PICK l, m, a, b, c, d : /\ l = Len(visits) /\ m = Len(visits')
                              /\ a = Opened(i, n) /\ b = Closed(i, n)
                              /\ c = Opened(i, n + 1)' /\ d = Closed(i, n + 1)'
  OBVIOUS
<1>7. c = d + (m + 1 - k) /\ c > d
  <2>1. /\ a = b + (l + 1 - k) /\ c = a + (IF s \in Bodies THEN 1 ELSE 0)
        /\ d = b + (IF s = "close" THEN 1 ELSE 0)
        /\ a \in Nat /\ b \in Nat /\ l \in Nat /\ m \in Nat /\ k \in 1..m
    BY <1>2, <1>4, <1>5, <1>6
  <2>2. "close" \notin Bodies
    BY DEF Bodies
  <2>3. CASE s \in Bodies /\ m = l + 1
    <3>1. c = a + 1 /\ d = b
      BY <2>1, <2>2, <2>3
    <3>2. k \in Int /\ k <= m /\ m = l + 1
      BY <2>1, <2>3
    <3>3. a = b + (l + 1 - k)
      BY <2>1
    <3>4. c = b + (l + 1 - k) + 1 /\ b \in Nat /\ l \in Nat
      BY <2>1, <3>1, <3>3
    <3> QED
      BY <3>1, <3>2, <3>4
  <2>4. CASE s = "close" /\ l = m + 1
    <3>1. c = a /\ d = b + 1
      BY <2>1, <2>2, <2>4
    <3> QED
      BY <2>1, <2>4, <3>1
  <2>5. CASE s \notin Bodies /\ s # "close" /\ m = l
    <3>1. c = a /\ d = b
      BY <2>1, <2>5
    <3> QED
      BY <2>1, <2>5, <3>1
  <2> QED
    BY <1>6, <2>3, <2>4, <2>5
<1>8. Inside(i, n + 2)'
  <2>1. Opened(i, n + 1)' > Closed(i, n + 1)'
    BY <1>6, <1>7
  <2> QED
    BY <1>1, <1>2, <2>1, ReadsInside
<1>9. Len(program') = n + 1 /\ Len(program') + 1 = n + 2 /\ i \in 1..Len(program')
  BY <1>2
<1>10. Opened(i, Len(program))' = Closed(i, Len(program))' + (Len(visits') + 1 - k)
  <2>1. /\ Opened(i, Len(program))' = Opened(i, n + 1)'
        /\ Closed(i, Len(program))' = Closed(i, n + 1)'
    BY <1>9 DEF Opened, Closed
  <2> QED
    BY <1>6, <1>7, <2>1
<1>11. Inside(i, Len(program) + 1)'
  BY <1>8, <1>9 DEF Inside
<1> QED
  BY <1>2, <1>9, <1>10, <1>11 DEF VisitedBy, Positions

(* Code goes where it went.                                                *)
Carries ==
  functions' = functions /\
  (insert # 0 => insert' # 0 /\ blocks'[insert'].function = blocks[insert].function)

LEMMA TextStays ==
  ASSUME Typed, Texted, phase \in {"program", "tests"}, NEW s, Reads(s), s \notin Bodies, s # "close",
         visits' = visits, Carries
  PROVE  Texted'
<1>1. Len(visits) \in Nat /\ DOMAIN visits = 1..Len(visits)
  BY Elements DEF Typed
<1>2. Followed'
  <2>1. ASSUME NEW k \in DOMAIN visits' PROVE \E i \in Positions' : VisitedBy(k, i)'
    <3>1. PICK i \in Positions : VisitedBy(k, i)
      BY <2>1 DEF Texted, Followed
    <3>2. /\ Len(visits') \in Nat /\ k \in 1..Len(visits) /\ k \in 1..Len(visits')
          /\ visits'[k] = visits[k] /\ Len(visits') = Len(visits)
      BY <1>1, <2>1
    <3>3. i \in Positions' /\ VisitedBy(k, i)'
      BY <1>1, <3>1, <3>2, VisitKept
    <3> QED
      BY <3>3
  <2> QED
    BY <2>1 DEF Followed
<1>3. OneOwner => OneOwner'
  BY DEF OneOwner
<1>4. InOwn => InOwn'
  BY DEF InOwn, Carries
<1>5. Nesting => Nesting'
  BY NestingKept
<1> QED
  BY <1>2, <1>3, <1>4, <1>5 DEF Texted

LEMMA TextPushes ==
  ASSUME Followed, NEW s \in Bodies, Reads(s), Pushed(s)
  PROVE  Followed'
<1>1. /\ Len(visits) \in Nat /\ DOMAIN visits = 1..Len(visits) /\ DOMAIN visits' = 1..(Len(visits) + 1)
      /\ Len(visits') = Len(visits) + 1 /\ visits'[Len(visits) + 1].kind = s
      /\ \A k \in DOMAIN visits : visits'[k] = visits[k]
  BY DEF Pushed
<1>2. ASSUME NEW k \in DOMAIN visits PROVE \E i \in Positions' : VisitedBy(k, i)'
  <2>1. PICK i \in Positions : VisitedBy(k, i)
    BY <1>2 DEF Followed
  <2>2. k \in 1..Len(visits) /\ k \in 1..Len(visits') /\ visits'[k] = visits[k] /\ Len(visits') \in Nat
    BY <1>1, <1>2
  <2>3. i \in Positions' /\ VisitedBy(k, i)'
    BY <1>1, <2>1, <2>2, VisitKept
  <2> QED
    BY <2>3
<1>3. ASSUME NEW k, k = Len(visits) + 1
      PROVE  \E i \in Positions' : VisitedBy(k, i)'
  <2>1. PICK n : n = Len(program)
    OBVIOUS
  <2>2. n \in Nat /\ Len(program') = n + 1 /\ program'[n + 1] = s
    BY <2>1 DEF Reads
  <2>3. Inside(n + 1, n + 2)'
    BY <2>1, ReadsInside
  <2>4. Opened(n + 1, n + 1)' = 1 /\ Closed(n + 1, n + 1)' = 0
    <3>1. n + 1 \in Nat /\ n + 1 \in 1..(n + 1) /\ s # "close"
      BY <2>2 DEF Bodies
    <3>2. OpensAt(n + 1, n) = {} /\ ClosesAt(n + 1, n) = {}
      BY <2>2 DEF OpensAt, ClosesAt
    <3>3. /\ Opened(n + 1, n) = Cardinality(OpensAt(n + 1, n))
          /\ Closed(n + 1, n) = Cardinality(ClosesAt(n + 1, n))
      BY <2>2, <3>1, TextCounts
    <3>4. Opened(n + 1, n) = 0 /\ Closed(n + 1, n) = 0
      BY <3>2, <3>3, FS_EmptySet
    <3> QED
      BY <2>1, <3>1, <3>4, ReadsCounts
  <2>5. /\ Opened(n + 1, Len(program))' = Opened(n + 1, n + 1)'
        /\ Closed(n + 1, Len(program))' = Closed(n + 1, n + 1)'
    BY <2>2 DEF Opened, Closed
  <2>6. Len(visits') + 1 - k = 1
    BY <1>1, <1>3
  <2>7. Inside(n + 1, Len(program) + 1)'
    <3>1. Len(program') + 1 = n + 2
      BY <2>2
    <3> QED
      BY <2>3, <3>1 DEF Inside
  <2>8. n + 1 \in Positions' /\ program'[n + 1] = visits'[k].kind
    BY <1>1, <1>3, <2>2 DEF Positions
  <2>9. Opened(n + 1, Len(program))' = Closed(n + 1, Len(program))' + (Len(visits') + 1 - k)
    BY <2>4, <2>5, <2>6
  <2>10. VisitedBy(k, n + 1)'
    BY <2>7, <2>8, <2>9 DEF VisitedBy
  <2> QED
    BY <2>8, <2>10
<1>4. \A k \in DOMAIN visits' : k \in DOMAIN visits \/ k = Len(visits) + 1
  BY <1>1
<1> QED
  BY <1>2, <1>3, <1>4 DEF Followed

(* A body opens: a block of the body that owns code, or one that owns code *)
(* itself and has just been given a function.                              *)
LEMMA TextOpens ==
  ASSUME Typed, Texted, phase \in {"program", "tests"}, NEW s \in Bodies, Reads(s), Pushed(s),
         s = "block" => Carries,
         s = "test" => visits = <<>>,
         s \in Owning => insert' # 0 /\ blocks'[insert'].function = Len(functions')
  PROVE  Texted'
<1>1. /\ Len(visits) \in Nat /\ DOMAIN visits = 1..Len(visits) /\ DOMAIN visits' = 1..(Len(visits) + 1)
      /\ visits'[Len(visits) + 1].kind = s
      /\ \A k \in DOMAIN visits : visits'[k] = visits[k]
  BY DEF Pushed
<1>2. Followed /\ Followed'
  BY TextPushes DEF Texted
<1>3. ASSUME Nesting PROVE Nesting'
  BY <1>3, NestingKept
<1>4. ASSUME s = "func", NEW k \in DOMAIN visits, visits[k].kind \in Owning PROVE Nesting'
  BY <1>2, <1>4, NestingBegins
<1>5. ASSUME ~ Nesting' PROVE OneOwner' /\ InOwn'
  <2>1. OneOwner /\ InOwn
    BY <1>3, <1>5 DEF Texted
  <2>2. CASE s = "block"
    <3>1. \A k \in DOMAIN visits' : visits'[k].kind \in Owning =>
            k \in DOMAIN visits /\ visits[k].kind \in Owning
      <4>1. "block" \notin Owning
        BY DEF Owning
      <4>2. \A k \in DOMAIN visits' : k \in DOMAIN visits \/ k = Len(visits) + 1
        BY <1>1
      <4> QED
        BY <1>1, <2>2, <4>1, <4>2
    <3>2. OneOwner'
      <4>1. ASSUME NEW k \in DOMAIN visits', NEW m \in DOMAIN visits', k < m,
                   visits'[k].kind \in Owning
            PROVE  visits'[m].kind = "block"
        <5>1. CASE m = Len(visits) + 1
          BY <1>1, <2>2, <5>1
        <5>2. CASE m # Len(visits) + 1
          <6>1. m \in DOMAIN visits
            BY <1>1, <5>2
          <6>2. k \in DOMAIN visits /\ visits[k].kind \in Owning
            BY <3>1, <4>1
          <6> QED
            BY <1>1, <2>1, <4>1, <6>1, <6>2 DEF OneOwner
        <5> QED
          BY <5>1, <5>2
      <4> QED
        BY <4>1 DEF OneOwner
    <3>3. InOwn'
      BY <2>1, <2>2, <3>1 DEF InOwn, Carries
    <3> QED
      BY <3>2, <3>3
  <2>3. CASE s \in Owning
    <3>1. \A k \in DOMAIN visits : visits[k].kind \notin Owning
      <4>1. CASE s = "func"
        BY <1>4, <1>5, <4>1
      <4>2. CASE s = "test"
        <5>1. DOMAIN visits = {}
          BY <4>2
        <5> QED
          BY <5>1
      <4> QED
        BY <2>3, <4>1, <4>2 DEF Owning
    <3>2. \A k \in DOMAIN visits' : visits'[k].kind \in Owning => k = Len(visits) + 1
      BY <1>1, <3>1
    <3>3. OneOwner'
      <4>1. \A m \in DOMAIN visits' : ~ (Len(visits) + 1 < m)
        BY <1>1
      <4> QED
        BY <3>2, <4>1 DEF OneOwner
    <3>4. InOwn'
      BY <2>3 DEF InOwn
    <3> QED
      BY <3>3, <3>4
  <2> QED
    BY <2>2, <2>3 DEF Bodies, Owning
<1> QED
  BY <1>2, <1>5 DEF Texted

(* A body closes.                                                          *)
LEMMA TextCloses ==
  ASSUME Typed, Texted, phase \in {"program", "tests"}, Reads("close"), NEW kind, Popped(kind),
         kind = "block" => Carries, kind \in Bodies
  PROVE  Texted'
<1>1. /\ Len(visits) \in Nat /\ DOMAIN visits = 1..Len(visits) /\ Len(visits) \in DOMAIN visits
      /\ DOMAIN visits' = 1..(Len(visits) - 1) /\ visits[Len(visits)].kind = kind
      /\ \A k \in DOMAIN visits' : visits'[k] = visits[k]
  BY DEF Popped, Node
<1>2. Len(visits') \in Nat /\ Len(visits) = Len(visits') + 1
  <2>1. Len(visits') \in Nat /\ DOMAIN visits' = 1..Len(visits')
    BY Elements DEF Popped
  <2>2. PICK l, m : l = Len(visits) /\ m = Len(visits')
    OBVIOUS
  <2>3. /\ l \in Nat /\ m \in Nat /\ l \in 1..l /\ 1..m = 1..(l - 1)
    BY <1>1, <2>1, <2>2
  <2>4. l = m + 1
    BY <2>3
  <2> QED
    BY <2>1, <2>2, <2>4
<1>3. \A k \in DOMAIN visits' : k \in DOMAIN visits /\ k < Len(visits)
  BY <1>1
<1>4. Followed'
  <2>1. ASSUME NEW k \in DOMAIN visits' PROVE \E i \in Positions' : VisitedBy(k, i)'
    <3>1. PICK i \in Positions : VisitedBy(k, i)
      BY <1>3, <2>1 DEF Texted, Followed
    <3>2. k \in 1..Len(visits) /\ k \in 1..Len(visits') /\ visits'[k] = visits[k]
      BY <1>1, <1>2, <2>1
    <3>3. i \in Positions' /\ VisitedBy(k, i)'
      BY <1>1, <1>2, <3>1, <3>2, VisitKept
    <3> QED
      BY <3>3
  <2> QED
    BY <2>1 DEF Followed
<1>5. Nesting => Nesting'
  BY NestingKept
<1>6. ASSUME OneOwner, InOwn PROVE OneOwner' /\ InOwn'
  <2>1. OneOwner'
    BY <1>1, <1>3, <1>6 DEF OneOwner
  <2>2. CASE kind = "block"
    <3>1. (\E k \in DOMAIN visits' : visits'[k].kind \in Owning)
            => \E k \in DOMAIN visits : visits[k].kind \in Owning
      BY <1>1, <1>3
    <3>2. InOwn'
      BY <1>6, <2>2, <3>1 DEF InOwn, Carries
    <3> QED
      BY <2>1, <3>2
  <2>3. CASE kind # "block"
    <3>1. \A k \in DOMAIN visits' : visits[k].kind \notin Owning
      BY <1>1, <1>3, <1>6, <2>3 DEF OneOwner
    <3> QED
      BY <1>1, <2>1, <3>1 DEF InOwn
  <2> QED
    BY <2>1, <2>2, <2>3
<1> QED
  BY <1>4, <1>5, <1>6 DEF Texted

LEMMA EmitCarries ==
  ASSUME Typed, insert \in 0..Len(blocks), NEW is, Emit(is)
  PROVE  Carries
<1>1. /\ blocks' = Inserted(blocks, insert, is) /\ functions' = functions /\ insert' = insert
      /\ blocks \in Seq(BlockSet)
  BY DEF Emit, Typed
<1>2. ASSUME insert # 0 PROVE blocks'[insert].function = blocks[insert].function
  <2>1. insert \in DOMAIN blocks
    BY <1>2, CodeNumbers
  <2>2. blocks' = [blocks EXCEPT ![insert].code = @ \o is]
    BY <1>1, <1>2 DEF Inserted
  <2>3. blocks[insert] \in BlockSet
    BY <2>1, CodeNumbers
  <2>4. blocks'[insert] = [blocks[insert] EXCEPT !.code = @ \o is]
    BY <2>1, <2>2
  <2> QED
    BY <2>3, <2>4 DEF BlockSet
<1> QED
  BY <1>1, <1>2 DEF Carries

(* One statement without a body: what is emitted goes where code went.     *)
LEMMA TextOfLeaf ==
  ASSUME Inv, Texted, NEW s \in Leaves, Visit(s), visits' = visits, Carries
  PROVE  Texted'
<1>1. s \in Kinds /\ s \notin Bodies /\ s # "close"
  BY DEF Kinds, Leaves, Bodies
<1>2. phase \in {"program", "tests"} /\ program' = Append(program, s) /\ Typed
  BY DEF Visit, Inv
<1>3. Reads(s)
  BY <1>1, <1>2, ReadsOne
<1> QED
  BY <1>1, <1>2, <1>3, TextStays

LEMMA TextOfBody ==
  ASSUME Inv, Texted, NEW s \in Bodies, Visit(s), Open(s),
         s = "block" => Carries,
         s \in Owning => insert' # 0 /\ blocks'[insert'].function = Len(functions')
  PROVE  Texted'
<1>1. s \in Kinds
  BY DEF Kinds
<1>2. /\ phase \in {"program", "tests"} /\ program' = Append(program, s) /\ Typed
      /\ s = "test" => visits = <<>>
  BY DEF Visit, Inv
<1>3. Reads(s)
  BY <1>1, <1>2, ReadsOne
<1>4. Pushed(s)
  BY <1>2, OpenPushes
<1> QED
  BY <1>2, <1>3, <1>4, TextOpens

LEMMA TextOfEnd ==
  ASSUME Inv, Texted, NEW kind \in Bodies, Close(kind), kind = "block" => Carries
  PROVE  Texted'
<1>1. /\ phase \in {"program", "tests"} /\ program' = Append(program, "close") /\ Typed
      /\ "close" \in Kinds
  BY DEF Close, Inv, Kinds
<1>2. Reads("close")
  BY <1>1, ReadsOne
<1>3. Popped(kind)
  BY <1>1, ClosePops
<1> QED
  BY <1>1, <1>2, <1>3, TextCloses

LEMMA AssertCarries ==
  ASSUME Inv, AssertEqual
  PROVE  Carries
<1>1. Typed /\ Coded
  BY DEF Inv
<1>2. PICK fail, cont, f :
        fail = Len(blocks) + 1 /\ cont = Len(blocks) + 2 /\ f = blocks[insert].function
  OBVIOUS
<1>3. AssertBranches(fail, cont, f) /\ insert' = cont /\ functions' = functions /\ insert # 0
  BY <1>2 DEF AssertEqual, Failing, AssertBranches
<1>4. PICK ext : Asserts(fail, cont, ext)
  BY <1>1, <1>2, <1>3, AssertWrites
<1>5. cont # 0 /\ blocks'[cont].function = blocks[insert].function
  BY <1>4 DEF Asserts
<1> QED
  BY <1>3, <1>5 DEF Carries

(* Created last, a block belongs to the function created last.             *)
LEMMA FunctionInOwn ==
  ASSUME Inv, BeginFunction
  PROVE  insert' # 0 /\ blocks'[insert'].function = Len(functions')
<1>1. PICK f, entry : f = Len(functions) + 1 /\ entry = Len(blocks) + 1
  OBVIOUS
<1>2. PICK name \in FunctionNames : Create(name, entry)
  BY <1>1 DEF BeginFunction
<1>3. blocks' = blocks \o <<NewBlock(f), NewBlock(f)>> /\ insert' = entry
  BY <1>1 DEF BeginFunction
<1>4. /\ blocks \in Seq(BlockSet) /\ Len(blocks) \in Nat /\ Len(functions) \in Nat
      /\ functions \in Seq(FunctionSet) /\ Typed
  BY CodeNumbers DEF Inv, Typed
<1>5. NewBlock(f) \in BlockSet /\ NewBlock(f).function = f
  BY <1>1, <1>4, AssertBlocks
<1>6. (blocks \o <<NewBlock(f), NewBlock(f)>>)[Len(blocks) + 1] = NewBlock(f)
  BY <1>4, <1>5, JoinedTwo
<1>7. Len(functions') = f
  <2>1. entry \in Nat /\ name \in FunctionNames \cup TestNames
    BY <1>1, <1>4
  <2>2. Len(functions') = Len(functions) + 1
    BY <1>2, <1>4, <2>1, CreatedFunction
  <2> QED
    BY <1>1, <2>2
<1> QED
  BY <1>1, <1>3, <1>4, <1>5, <1>6, <1>7

LEMMA TestInOwn ==
  ASSUME Inv, BeginTest
  PROVE  insert' # 0 /\ blocks'[insert'].function = Len(functions')
<1>1. PICK f, entry : f = Len(functions) + 1 /\ entry = Len(blocks) + 1
  OBVIOUS
<1>2. PICK name \in TestNames : Create(name, entry)
  BY <1>1 DEF BeginTest
<1>3. blocks' = Append(blocks, NewBlock(f)) /\ insert' = entry
  BY <1>1 DEF BeginTest
<1>4. /\ blocks \in Seq(BlockSet) /\ Len(blocks) \in Nat /\ Len(functions) \in Nat /\ Typed
  BY CodeNumbers DEF Inv, Typed
<1>5. NewBlock(f) \in BlockSet /\ NewBlock(f).function = f
  BY <1>1, <1>4, AssertBlocks
<1>6. Append(blocks, NewBlock(f))[Len(blocks) + 1] = NewBlock(f)
  BY <1>4, <1>5, Added
<1>7. Len(functions') = f
  <2>1. entry \in Nat /\ name \in FunctionNames \cup TestNames
    BY <1>1, <1>4
  <2>2. Len(functions') = Len(functions) + 1
    BY <1>2, <1>4, <2>1, CreatedFunction
  <2> QED
    BY <1>1, <2>2
<1> QED
  BY <1>1, <1>3, <1>4, <1>5, <1>6, <1>7

LEMMA TextNext ==
  ASSUME Inv, Texted, [Next]_vars
  PROVE  Texted'
<1>1. Typed /\ insert \in 0..Len(blocks)
  BY DEF Inv, Coded, Placed
<1>2. ASSUME NEW s \in Leaves, Visit(s), visits' = visits, NEW is, Emit(is)
      PROVE  Texted'
  BY <1>1, <1>2, EmitCarries, TextOfLeaf
<1>3. UNCHANGED code => Carries
  BY DEF code, Carries
<1>5. CASE Let
  <2>1. "let" \in Leaves /\ Visit("let") /\ visits' = visits
    BY <1>5 DEF Let, Leaves
  <2>2. Emit(<<Other>>) \/ UNCHANGED code
    BY <1>5 DEF Let
  <2> QED
    BY <1>2, <1>3, <2>1, <2>2, TextOfLeaf
<1>22. CASE LetString
  <2>1. "let string" \in Leaves /\ Visit("let string") /\ visits' = visits
    BY <1>22 DEF LetString, Leaves
  <2>2. Emit(<<Other>>) \/ UNCHANGED code
    BY <1>22 DEF LetString
  <2> QED
    BY <1>2, <1>3, <2>1, <2>2, TextOfLeaf
<1>6. CASE LetCall
  <2>1. "let call" \in Leaves /\ Visit("let call") /\ visits' = visits /\ Emit(<<Other>>)
    BY <1>6 DEF LetCall, Leaves
  <2> QED
    BY <1>2, <2>1
<1>7. CASE LetLarge
  <2>1. "let large" \in Leaves /\ Visit("let large") /\ visits' = visits
    BY <1>7 DEF LetLarge, Leaves
  <2>2. PICK v : v = Len(program) + 1
    OBVIOUS
  <2>3. Emit(<<Instruction("malloc", {v})>>) \/ UNCHANGED code
    BY <1>7, <2>2 DEF LetLarge
  <2> QED
    BY <1>2, <1>3, <2>1, <2>3, TextOfLeaf
<1>8. CASE PrintValues
  <2>1. "print" \in Leaves /\ Visit("print") /\ visits' = visits /\ Emit(<<Other>>)
    BY <1>8 DEF PrintValues, Leaves
  <2> QED
    BY <1>2, <2>1
<1>9. CASE AssertEqual
  <2>1. "assert" \in Leaves /\ Visit("assert") /\ visits' = visits
    BY <1>9 DEF AssertEqual, Leaves
  <2> QED
    BY <1>9, <2>1, AssertCarries, TextOfLeaf
<1>10. CASE If
  <2>1. "if" \in Leaves /\ Visit("if") /\ visits' = visits /\ UNCHANGED code
    BY <1>10 DEF If, Leaves
  <2> QED
    BY <1>3, <2>1, TextOfLeaf
<1>11. CASE Return
  <2>1. "return" \in Leaves /\ Visit("return") /\ visits' = visits
    BY <1>11 DEF Return, Leaves
  <2>2. PICK value \in Values : Emit(<<Instruction("store", value), Br(exit)>>)
    BY <1>11 DEF Return
  <2> QED
    BY <1>2, <2>1, <2>2
<1>12. CASE BeginBlock
  <2>1. "block" \in Bodies /\ Visit("block") /\ Open("block") /\ UNCHANGED code
    BY <1>12 DEF BeginBlock, Bodies
  <2> QED
    BY <1>3, <2>1, TextOfBody DEF Owning
<1>13. CASE BeginFunction
  <2>1. "func" \in Bodies /\ Visit("func") /\ Open("func")
    BY <1>13 DEF BeginFunction, Bodies
  <2> QED
    BY <1>13, <2>1, FunctionInOwn, TextOfBody
<1>14. CASE BeginTest
  <2>1. "test" \in Bodies /\ Visit("test") /\ Open("test")
    BY <1>14 DEF BeginTest, Bodies
  <2> QED
    BY <1>14, <2>1, TestInOwn, TextOfBody
<1>15. CASE EndBlock
  <2>1. "block" \in Bodies /\ Close("block") /\ UNCHANGED code
    BY <1>15 DEF EndBlock, Bodies
  <2> QED
    BY <1>3, <2>1, TextOfEnd
<1>16. CASE EndFunction
  <2>1. "func" \in Bodies /\ Close("func")
    BY <1>16 DEF EndFunction, Bodies
  <2> QED
    BY <2>1, TextOfEnd
<1>17. CASE EndTest
  <2>1. "test" \in Bodies /\ Close("test")
    BY <1>17 DEF EndTest, Bodies
  <2> QED
    BY <2>1, TextOfEnd
<1>18. CASE StartTests
  <2>1. visits' = visits /\ DOMAIN visits = {}
    BY <1>18 DEF StartTests, tree
  <2> QED
    BY <2>1 DEF Texted, Followed, OneOwner, InOwn
<1>19. CASE AssertOther \/ Undefined
  <2>1. phase' \notin {"program", "tests"}
    BY <1>19 DEF AssertOther, Undefined
  <2> QED
    BY <2>1 DEF Texted
<1>20. CASE FinishProgram \/ FinishTests \/ VerifyTests \/ Execute \/ Step
  <2>1. phase' \notin {"program", "tests"}
    BY <1>20 DEF FinishProgram, FinishTests, VerifyTests, verifyModule, Execute, Step
  <2> QED
    BY <2>1 DEF Texted
<1>21. CASE UNCHANGED vars
  <2>1. /\ program' = program /\ visits' = visits /\ phase' = phase /\ insert' = insert
        /\ blocks' = blocks /\ functions' = functions
    BY <1>21 DEF vars, tree, code
  <2>2. \A i, j : (Opened(i, j)' = Opened(i, j)) /\ (Closed(i, j)' = Closed(i, j))
    BY <2>1 DEF Opened, Closed
  <2>3. \A i, j : Inside(i, j)' <=> Inside(i, j)
    BY <2>2 DEF Inside
  <2>4. Followed => Followed'
    BY <2>1, <2>2, <2>3 DEF Followed, VisitedBy, Positions
  <2>5. \A j : Owner(j)' = Owner(j)
    <3>1. ASSUME NEW j PROVE Owner(j)' = Owner(j)
      <4>1. \A i : i \in OwnersOf(j)' <=> i \in OwnersOf(j)
        BY <2>1, <2>3 DEF OwnersOf, Positions
      <4>2. OwnersOf(j)' = OwnersOf(j)
        BY <4>1
      <4>3. Owner(j) = LastOf(OwnersOf(j))
        BY DEF Owner, OwnersOf, LastOf
      <4>4. Owner(j)' = LastOf(OwnersOf(j)')
        BY DEF Owner, OwnersOf, LastOf
      <4> QED
        BY <4>2, <4>3, <4>4
    <3> QED
      BY <3>1
  <2>6. Nesting => Nesting'
    BY <2>1, <2>5 DEF Nesting, NestedIn, OwnedBy, Positions
  <2> QED
    BY <2>1, <2>4, <2>6 DEF Texted, OneOwner, InOwn
<1> QED
  BY <1>5, <1>6, <1>7, <1>8, <1>9, <1>10, <1>11, <1>12, <1>13, <1>14, <1>15, <1>16, <1>17, <1>18,
     <1>19, <1>20, <1>21, <1>22 DEF Next

(* Code written in a body goes to a block of the function made for that    *)
(* body, whatever assertions and blocks come before it, unless a function  *)
(* is declared inside another or inside a test.                            *)
THEOREM CodeStaysInFunction == Spec => []StaysInFunction
<1>1. Init => Texted
  <2>1. ASSUME Init PROVE Texted
    <3>1. DOMAIN visits = {}
      BY <2>1 DEF Init
    <3> QED
      BY <3>1 DEF Texted, Followed, OneOwner, InOwn
  <2> QED
    BY <2>1
<1>2. Inv /\ Texted /\ [Next]_vars => Texted'
  BY TextNext
<1>3. Texted => StaysInFunction
  BY DEF Texted, StaysInFunction, Nesting, InOwn, Owning
<1> QED
  BY <1>1, <1>2, <1>3, InvHolds, PTL DEF Spec

(***************************************************************************)
(* The tests, and the entry point that calls them.                         *)
(***************************************************************************)
AsTests(fs) == [f \in DOMAIN fs |-> IF fs[f].name[1] \in TestNames THEN <<f>> ELSE <<>>]
Numbered(fs) == [f \in DOMAIN fs |-> f]
TestsOf(fs) == JoinAll(AsTests(fs), <<>>, Numbered(fs))

(* A sequence that is one longer joins one more.                           *)
OneLonger(g, h, s, t) == Len(t) = Len(s) + 1 /\ \A k \in 1..Len(s) : g[s[k]] = h[t[k]]
JoinsLast(g, h, base, s, t) == JoinAll(h, base, t) = JoinAll(g, base, s) \o h[t[Len(t)]]

LEMMA JoinsOneMore ==
  ASSUME NEW g, NEW h, NEW base, NEW S, NEW s \in Seq(S), NEW t \in Seq(S), OneLonger(g, h, s, t)
  PROVE  JoinsLast(g, h, base, s, t)
<1>1. PICK a : /\ Joins(a, g, base, s)
               /\ JoinAll(g, base, s) = a[Len(s)]
  BY FoldJoins
<1>2. PICK b : /\ Joins(b, h, base, t)
               /\ JoinAll(h, base, t) = b[Len(t)]
  BY FoldJoins
<1>3. Len(s) \in Nat /\ Len(t) = Len(s) + 1 /\ \A k \in 1..Len(s) : g[s[k]] = h[t[k]]
  BY Elements DEF OneLonger
<1> DEFINE bad == {k \in 0..Len(s) : a[k] # b[k]}
<1>4. bad = {}
  <2> SUFFICES ASSUME bad # {} PROVE FALSE
    OBVIOUS
  <2>1. PICK m \in bad : \A k \in bad : m <= k
    <3>1. bad \in SUBSET Nat
      OBVIOUS
    <3> HIDE DEF bad
    <3> QED
      BY <3>1, Least
  <2>2. m # 0
    BY <1>1, <1>2, <2>1 DEF Joins
  <2>3. /\ m \in 1..Len(s) /\ m \in 1..Len(t) /\ m - 1 \in 0..Len(s) /\ ~ (m <= m - 1)
    BY <1>3, <2>1, <2>2
  <2>4. a[m - 1] = b[m - 1]
    BY <2>1, <2>3
  <2>5. a[m] = a[m - 1] \o g[s[m]] /\ b[m] = b[m - 1] \o h[t[m]]
    BY <1>1, <1>2, <1>3, <2>3 DEF Joins
  <2> QED
    BY <1>3, <2>1, <2>3, <2>4, <2>5
<1>5. a[Len(s)] = b[Len(s)]
  <2>1. Len(s) \in 0..Len(s)
    BY <1>3
  <2> QED
    BY <1>4, <2>1
<1>6. b[Len(t)] = b[Len(s)] \o h[t[Len(t)]]
  <2>1. Len(t) \in 1..Len(t) /\ Len(t) - 1 = Len(s)
    BY <1>3
  <2> QED
    BY <1>2, <2>1 DEF Joins
<1>7. JoinAll(h, base, t) = JoinAll(g, base, s) \o h[t[Len(t)]] /\ Len(t) \in Nat
  BY <1>1, <1>2, <1>3, <1>5, <1>6
<1> QED
  BY <1>7 DEF JoinsLast

LEMMA TestsOfSequence ==
  ASSUME NEW fs \in Seq(FunctionSet)
  PROVE  /\ TestsOf(fs) \in Seq(Nat)
         /\ Numbered(fs) \in Seq(Nat) /\ Len(Numbered(fs)) = Len(fs)
         /\ \A k \in 1..Len(fs) : Numbered(fs)[k] = k
<1>1. Len(fs) \in Nat /\ DOMAIN fs = 1..Len(fs)
  BY Elements
<1>2. /\ Numbered(fs) \in Seq(Nat) /\ Len(Numbered(fs)) = Len(fs)
      /\ \A k \in 1..Len(fs) : Numbered(fs)[k] = k
  <2> DEFINE n == Len(fs)
  <2>1. Numbered(fs) = [f \in 1..n |-> f] /\ n \in Nat
    BY <1>1 DEF Numbered
  <2> HIDE DEF n
  <2>2. [f \in 1..n |-> f] \in Seq(Nat) /\ Len([f \in 1..n |-> f]) = n
    BY <2>1
  <2>3. Numbered(fs) \in Seq(Nat) /\ Len(Numbered(fs)) = n /\ \A k \in 1..n : Numbered(fs)[k] = k
    BY <2>1, <2>2
  <2> QED
    BY <2>3 DEF n
<1>3. \A k \in 1..Len(fs) : AsTests(fs)[k] \in Seq(Nat)
  <2>1. \A k \in 1..Len(fs) : k \in Nat /\ <<k>> \in Seq(Nat) /\ <<>> \in Seq(Nat)
    BY <1>1
  <2>2. \A k \in 1..Len(fs) : AsTests(fs)[k] = <<k>> \/ AsTests(fs)[k] = <<>>
    BY <1>1 DEF AsTests
  <2> QED
    BY <2>1, <2>2
<1>4. \A k \in 1..Len(Numbered(fs)) : AsTests(fs)[Numbered(fs)[k]] \in Seq(Nat)
  BY <1>2, <1>3
<1>5. TestsOf(fs) \in Seq(Nat)
  <2>1. <<>> \in Seq(Nat)
    OBVIOUS
  <2>2. JoinAll(AsTests(fs), <<>>, Numbered(fs)) \in Seq(Nat)
    BY <1>2, <1>4, <2>1, JoinedSequence
  <2> QED
    BY <2>2 DEF TestsOf
<1> QED
  BY <1>2, <1>5

(* One more function is one more test, if it is one.                       *)
LEMMA OneMoreTest ==
  ASSUME NEW fs \in Seq(FunctionSet), NEW e \in FunctionSet
  PROVE  TestsOf(Append(fs, e)) = IF e.name[1] \in TestNames THEN Append(TestsOf(fs), Len(fs) + 1)
                                  ELSE TestsOf(fs)
<1>1. PICK gs : gs = Append(fs, e)
  OBVIOUS
<1>2. /\ gs \in Seq(FunctionSet) /\ Len(gs) = Len(fs) + 1 /\ DOMAIN gs = 1..(Len(fs) + 1)
      /\ \A k \in 1..Len(fs) : gs[k] = fs[k]
      /\ gs[Len(fs) + 1] = e
  BY <1>1, Added
<1>3. Len(fs) \in Nat /\ DOMAIN fs = 1..Len(fs)
  BY Elements
<1>4. /\ Numbered(fs) \in Seq(Nat) /\ Len(Numbered(fs)) = Len(fs)
      /\ \A k \in 1..Len(fs) : Numbered(fs)[k] = k
      /\ TestsOf(fs) \in Seq(Nat)
  BY TestsOfSequence
<1>5. /\ Numbered(gs) \in Seq(Nat) /\ Len(Numbered(gs)) = Len(gs)
      /\ \A k \in 1..Len(gs) : Numbered(gs)[k] = k
  BY <1>2, TestsOfSequence
<1>6. \A k \in 1..Len(fs) : AsTests(fs)[k] = AsTests(gs)[k]
  <2>1. \A k \in 1..Len(fs) : k \in DOMAIN fs /\ k \in DOMAIN gs
    BY <1>2, <1>3
  <2> QED
    BY <1>2, <2>1 DEF AsTests
<1>7. Len(gs) \in 1..Len(gs) /\ \A k \in 1..Len(fs) : k \in 1..Len(gs)
  BY <1>2, <1>3
<1>8. AsTests(gs)[Len(gs)] = IF e.name[1] \in TestNames THEN <<Len(gs)>> ELSE <<>>
  BY <1>2, <1>7 DEF AsTests
<1>9. JoinAll(AsTests(gs), <<>>, Numbered(gs))
        = JoinAll(AsTests(fs), <<>>, Numbered(fs)) \o AsTests(gs)[Numbered(gs)[Len(Numbered(gs))]]
  <2>1. Len(Numbered(gs)) = Len(Numbered(fs)) + 1
    BY <1>2, <1>4, <1>5
  <2>2. \A k \in 1..Len(Numbered(fs)) :
          AsTests(fs)[Numbered(fs)[k]] = AsTests(gs)[Numbered(gs)[k]]
    BY <1>4, <1>5, <1>6, <1>7
  <2>3. PICK g, h, base, s, t : /\ g = AsTests(fs) /\ h = AsTests(gs) /\ base = <<>>
                                /\ s = Numbered(fs) /\ t = Numbered(gs)
    OBVIOUS
  <2>4. s \in Seq(Nat) /\ t \in Seq(Nat) /\ Len(t) = Len(s) + 1
    BY <1>4, <1>5, <2>1, <2>3
  <2>5. OneLonger(g, h, s, t)
    BY <2>2, <2>3, <2>4 DEF OneLonger
  <2>6. JoinsLast(g, h, base, s, t)
    BY <2>4, <2>5, JoinsOneMore
  <2> QED
    BY <2>3, <2>6 DEF JoinsLast
<1>10. TestsOf(gs) = TestsOf(fs) \o AsTests(gs)[Len(gs)]
  BY <1>5, <1>7, <1>9 DEF TestsOf
<1>11. TestsOf(fs) \o <<>> = TestsOf(fs)
  BY <1>4, ConcatEmptySeq
<1>12. TestsOf(fs) \o <<Len(gs)>> = Append(TestsOf(fs), Len(gs))
  <2>1. Len(gs) \in Nat
    BY <1>2, <1>3
  <2> QED
    BY <1>4, <2>1, AppendIsConcat
<1>13. CASE e.name[1] \in TestNames
  BY <1>1, <1>2, <1>8, <1>10, <1>12, <1>13
<1>14. CASE e.name[1] \notin TestNames
  BY <1>1, <1>8, <1>10, <1>11, <1>14
<1> QED
  BY <1>13, <1>14

(***************************************************************************)
(* Every test is in Tests, in the order of the tests of the text; the      *)
(* function of a name is the first test that has it.                       *)
(***************************************************************************)
TestsAt == {j \in Positions : program[j] = "test"}
NameOf(k) == functions[Tests[k]].name[1]
First(k, n) == NameOf(k) = n /\ \A i \in DOMAIN Tests : i < k => NameOf(i) # n

Recorded ==
  /\ Len(Tests) = Cardinality(TestsAt)
  /\ \A k \in DOMAIN Tests : Tests[k] \in DOMAIN functions /\ IsTest(Tests[k])
  /\ \A f \in DOMAIN functions : IsTest(f) => \E k \in DOMAIN Tests : Tests[k] = f
  /\ \A n \in TestNames : \A k \in DOMAIN Tests : First(k, n) => getFunction(n) = {Tests[k]}

LEMMA TestsAsJoined ==
  Tests = TestsOf(functions)
BY DEF Tests, TestsOf, AsTests, Numbered, JoinAll, AsTest, IsTest

LEMMA TestNumbers ==
  ASSUME Typed
  PROVE  Tests \in Seq(Nat) /\ Len(Tests) \in Nat /\ DOMAIN Tests = 1..Len(Tests)
<1>1. Tests \in Seq(Nat)
  BY TestsAsJoined, TestsOfSequence DEF Typed
<1> QED
  BY <1>1, Elements

(* What a new function changes.                                            *)
LEMMA CreatedTest ==
  ASSUME Typed, NEW name \in FunctionNames \cup TestNames, NEW entry \in Nat,
         Create(name, entry)
  PROVE  /\ name \in TestNames => Tests' = Append(Tests, Len(functions'))
         /\ name \notin TestNames => Tests' = Tests
<1> DEFINE e == [name |-> <<name, Cardinality(Named(name))>>, entry |-> entry]
<1>1. functions \in Seq(FunctionSet) /\ functions' = Append(functions, e)
  BY DEF Typed, Create
<1>2. Len(functions') = Len(functions) + 1 /\ functions' \in Seq(FunctionSet)
      /\ functions'[Len(functions')] \in FunctionSet
      /\ functions'[Len(functions')].name[1] = name
  <2>1. /\ functions' \in Seq(FunctionSet) /\ Len(functions') = Len(functions) + 1
        /\ functions' # <<>> /\ functions'[Len(functions')].name[1] = name
    BY CreatedFunction
  <2>2. Len(functions') \in 1..Len(functions')
    BY <1>1, <2>1, Elements
  <2> QED
    BY <2>1, <2>2, Elements
<1>3. e \in FunctionSet /\ e.name[1] = name
  <2>1. functions'[Len(functions')] = e
    <3>1. Append(functions, e)[Len(functions) + 1] = e
      <4> HIDE DEF e
      <4> QED
        BY <1>1, AppendProperties
    <3> QED
      BY <1>1, <1>2, <3>1
  <2> QED
    BY <1>2, <2>1
<1>4. Tests = TestsOf(functions) /\ Tests' = TestsOf(functions')
  <2>1. Tests' = TestsOf(functions')
    BY DEF Tests, TestsOf, AsTests, Numbered, JoinAll, AsTest, IsTest, FoldLeft, MapThenFoldSet
  <2> QED
    BY <2>1, TestsAsJoined
<1> HIDE DEF e
<1>5. name \in TestNames => TestsOf(Append(functions, e)) = Append(TestsOf(functions), Len(functions) + 1)
  BY <1>1, <1>3, OneMoreTest
<1>6. name \notin TestNames => TestsOf(Append(functions, e)) = TestsOf(functions)
  BY <1>1, <1>3, OneMoreTest
<1> QED
  BY <1>1, <1>2, <1>4, <1>5, <1>6

LEMMA CreatedName ==
  ASSUME Typed, NEW name \in FunctionNames \cup TestNames, NEW entry \in Nat,
         Create(name, entry)
  PROVE  /\ \A n : n # name \/ Named(n) # {} => getFunction(n)' = getFunction(n)
         /\ Named(name) = {} => getFunction(name)' = {Len(functions')}
<1> DEFINE e == [name |-> <<name, Cardinality(Named(name))>>, entry |-> entry]
<1>1. PICK new : new = Len(functions')
  OBVIOUS
<1>2. /\ DOMAIN functions' = DOMAIN functions \cup {new} /\ new \notin DOMAIN functions
      /\ \A f \in DOMAIN functions : functions'[f] = functions[f]
  BY <1>1, CreatedFunction
<1>3. functions'[new] = e
  <2>1. functions' = Append(functions, e) /\ functions \in Seq(FunctionSet)
    BY DEF Create, Typed
  <2>2. new = Len(functions) + 1
    BY <1>1, CreatedFunction
  <2>3. Append(functions, e)[Len(functions) + 1] = e
    <3> HIDE DEF e
    <3> QED
      BY <2>1, AppendProperties
  <2> QED
    BY <2>1, <2>2, <2>3
<1>4. functions'[new].name[1] = name /\ functions'[new].name[2] = Cardinality(Named(name))
  BY <1>3
<1>5. IsFiniteSet(Named(name))
  <2>1. DOMAIN functions = 1..Len(functions) /\ Len(functions) \in Nat
    BY CodeNumbers
  <2>2. IsFiniteSet(1..Len(functions)) /\ Named(name) \in SUBSET (1..Len(functions))
    BY <2>1, FS_Interval DEF Named
  <2> QED
    BY <2>2, FS_Subset
<1>6. Named(name) = {} <=> Cardinality(Named(name)) = 0
  BY <1>5, FS_EmptySet
<1> HIDE DEF e
<1>7. ASSUME NEW n, NEW f
      PROVE  f \in getFunction(n)' <=>
               \/ f \in getFunction(n)
               \/ f = new /\ n = name /\ Named(name) = {}
  <2>1. f \in getFunction(n)' <=>
          f \in DOMAIN functions' /\ functions'[f].name[1] = n /\ functions'[f].name[2] = 0
    BY DEF getFunction, Named
  <2>2. f \in getFunction(n) <=>
          f \in DOMAIN functions /\ functions[f].name[1] = n /\ functions[f].name[2] = 0
    BY DEF getFunction, Named
  <2>3. CASE f = new
    BY <1>2, <1>4, <1>6, <2>1, <2>2, <2>3
  <2>4. CASE f # new
    BY <1>2, <2>1, <2>2, <2>4
  <2> QED
    BY <2>3, <2>4
<1>8. ASSUME NEW n, n # name \/ Named(n) # {} PROVE getFunction(n)' = getFunction(n)
  <2>1. \A f : f \in getFunction(n)' <=> f \in getFunction(n)
    BY <1>7, <1>8
  <2> QED
    BY <2>1
<1>9. ASSUME Named(name) = {} PROVE getFunction(name)' = {new}
  <2>1. \A f : f \notin getFunction(name)
    BY <1>9 DEF getFunction
  <2>2. \A f : f \in getFunction(name)' <=> f = new
    BY <1>7, <1>9, <2>1
  <2> QED
    BY <2>2
<1> QED
  BY <1>1, <1>8, <1>9

LEMMA RecordedGrows ==
  ASSUME Typed, Recorded, NEW name \in FunctionNames \cup TestNames, NEW entry \in Nat,
         Create(name, entry),
         Cardinality(TestsAt)' = IF name \in TestNames THEN Cardinality(TestsAt) + 1
                                 ELSE Cardinality(TestsAt)
  PROVE  Recorded'
<1>1. PICK ts, us, new : ts = Tests /\ us = Tests' /\ new = Len(functions')
  OBVIOUS
<1>2. ts \in Seq(Nat) /\ Len(ts) \in Nat /\ DOMAIN ts = 1..Len(ts)
  BY <1>1, TestNumbers
<1>3. /\ name \in TestNames => us = Append(ts, new)
      /\ name \notin TestNames => us = ts
  BY <1>1, CreatedTest
<1>4. /\ DOMAIN functions' = DOMAIN functions \cup {new} /\ new \notin DOMAIN functions
      /\ \A f \in DOMAIN functions : functions'[f] = functions[f]
      /\ functions'[new].name[1] = name /\ new \in Nat
  <2>1. Len(functions') \in Nat
    BY CreatedFunction, Elements
  <2> QED
    BY <1>1, <2>1, CreatedFunction
<1>5. /\ \A n : n # name \/ Named(n) # {} => getFunction(n)' = getFunction(n)
      /\ Named(name) = {} => getFunction(name)' = {new}
  BY <1>1, CreatedName
<1>6. /\ Len(ts) = Cardinality(TestsAt)
      /\ \A k \in DOMAIN ts : ts[k] \in DOMAIN functions /\ functions[ts[k]].name[1] \in TestNames
      /\ \A f \in DOMAIN functions :
           functions[f].name[1] \in TestNames => \E k \in DOMAIN ts : ts[k] = f
      /\ \A n \in TestNames : \A k \in DOMAIN ts :
           /\ functions[ts[k]].name[1] = n
           /\ \A i \in DOMAIN ts : i < k => functions[ts[i]].name[1] # n
           => getFunction(n) = {ts[k]}
  BY <1>1 DEF Recorded, First, NameOf, IsTest
<1>7. SUFFICES
        /\ Len(us) = Cardinality(TestsAt)'
        /\ \A k \in DOMAIN us : us[k] \in DOMAIN functions' /\ functions'[us[k]].name[1] \in TestNames
        /\ \A f \in DOMAIN functions' :
             functions'[f].name[1] \in TestNames => \E k \in DOMAIN us : us[k] = f
        /\ \A n \in TestNames : \A k \in DOMAIN us :
             /\ functions'[us[k]].name[1] = n
             /\ \A i \in DOMAIN us : i < k => functions'[us[i]].name[1] # n
             => getFunction(n)' = {us[k]}
  BY <1>1 DEF Recorded, First, NameOf, IsTest
(* The function of a test that was first stays. *)
<1>8. ASSUME NEW n \in TestNames, NEW k \in DOMAIN ts, functions'[ts[k]].name[1] = n,
             \A i \in DOMAIN ts : i < k => functions'[ts[i]].name[1] # n
      PROVE  getFunction(n)' = {ts[k]}
  <2>1. \A i \in DOMAIN ts : functions'[ts[i]] = functions[ts[i]]
    BY <1>4, <1>6
  <2>2. functions[ts[k]].name[1] = n /\ \A i \in DOMAIN ts : i < k => functions[ts[i]].name[1] # n
    BY <1>8, <2>1
  <2>3. getFunction(n) = {ts[k]}
    BY <1>6, <2>2
  <2>4. Named(n) # {}
    BY <2>3 DEF getFunction
  <2> QED
    BY <1>5, <2>3, <2>4
<1>9. CASE name \notin TestNames
  <2>1. us = ts /\ Len(us) = Cardinality(TestsAt)'
    BY <1>3, <1>6, <1>9
  <2>2. \A k \in DOMAIN us : us[k] \in DOMAIN functions' /\ functions'[us[k]].name[1] \in TestNames
    BY <1>4, <1>6, <2>1
  <2>3. \A f \in DOMAIN functions' :
          functions'[f].name[1] \in TestNames => \E k \in DOMAIN us : us[k] = f
    BY <1>4, <1>6, <1>9, <2>1
  <2> QED
    BY <1>8, <2>1, <2>2, <2>3
<1>10. CASE name \in TestNames
  <2>1. /\ us \in Seq(Nat) /\ Len(us) = Len(ts) + 1 /\ DOMAIN us = 1..(Len(ts) + 1)
        /\ \A k \in 1..Len(ts) : us[k] = ts[k]
        /\ us[Len(ts) + 1] = new
    <3>1. us = Append(ts, new) /\ new \in Nat /\ ts \in Seq(Nat)
      BY <1>2, <1>3, <1>4, <1>10
    <3> QED
      BY <3>1, Added
  <2>2. PICK last : last = Len(ts) + 1
    OBVIOUS
  <2>3. /\ DOMAIN us = DOMAIN ts \cup {last} /\ us[last] = new /\ last \in Nat
        /\ \A k \in DOMAIN ts : us[k] = ts[k] /\ k < last
    BY <1>2, <2>1, <2>2
  <2>4. Len(us) = Cardinality(TestsAt)'
    BY <1>6, <1>10, <2>1
  <2>5. \A k \in DOMAIN us : us[k] \in DOMAIN functions' /\ functions'[us[k]].name[1] \in TestNames
    BY <1>4, <1>6, <1>10, <2>3
  <2>6. \A f \in DOMAIN functions' :
          functions'[f].name[1] \in TestNames => \E k \in DOMAIN us : us[k] = f
    BY <1>4, <1>6, <2>3
  <2>7. ASSUME NEW n \in TestNames, NEW k \in DOMAIN us, functions'[us[k]].name[1] = n,
               \A i \in DOMAIN us : i < k => functions'[us[i]].name[1] # n
        PROVE  getFunction(n)' = {us[k]}
    <3>1. CASE k \in DOMAIN ts
      <4>1. functions'[ts[k]].name[1] = n /\ \A i \in DOMAIN ts : i < k => functions'[ts[i]].name[1] # n
        BY <2>3, <2>7, <3>1
      <4> QED
        BY <1>8, <2>3, <3>1, <4>1
    <3>2. CASE k = last
      <4>1. n = name
        BY <1>4, <2>3, <2>7, <3>2
      <4>2. \A i \in DOMAIN ts : functions[ts[i]].name[1] # name
        <5>1. ASSUME NEW i \in DOMAIN ts PROVE functions[ts[i]].name[1] # name
          <6>1. i \in DOMAIN us /\ i < k /\ us[i] = ts[i]
            BY <2>3, <3>2
          <6>2. functions'[us[i]].name[1] # n
            BY <2>7, <6>1
          <6> QED
            BY <1>4, <1>6, <4>1, <6>1, <6>2
        <5> QED
          BY <5>1
      <4>3. Named(name) = {}
        BY <1>6, <1>10, <4>2 DEF Named
      <4> QED
        BY <1>5, <2>3, <3>2, <4>1, <4>3
    <3> QED
      BY <2>3, <3>1, <3>2
  <2> QED
    BY <2>4, <2>5, <2>6, <2>7
<1> QED
  BY <1>9, <1>10

LEMMA TestsCounted ==
  ASSUME Typed, NEW s \in Kinds, program' = Append(program, s)
  PROVE  Cardinality(TestsAt)' = IF s = "test" THEN Cardinality(TestsAt) + 1
                                 ELSE Cardinality(TestsAt)
<1>1. PICK n : n = Len(program)
  OBVIOUS
<1>2. /\ n \in Nat /\ Len(program') = n + 1 /\ program'[n + 1] = s
      /\ \A k \in 1..n : program'[k] = program[k]
  BY <1>1, ReadsOne DEF Reads
<1>3. IsFiniteSet(TestsAt) /\ n + 1 \notin TestsAt
  <2>1. IsFiniteSet(1..n) /\ n + 1 \notin 1..n
    BY <1>2, FS_Interval
  <2>2. TestsAt \in SUBSET (1..n)
    BY <1>1 DEF TestsAt, Positions
  <2> QED
    BY <2>1, <2>2, FS_Subset
<1>4. TestsAt' = IF s = "test" THEN TestsAt \cup {n + 1} ELSE TestsAt
  <2>1. 1..(n + 1) = (1..n) \cup {n + 1}
    BY <1>2
  <2>2. \A j : j \in TestsAt' <=> j \in 1..(n + 1) /\ program'[j] = "test"
    BY <1>2 DEF TestsAt, Positions
  <2>3. \A j : j \in TestsAt <=> j \in 1..n /\ program[j] = "test"
    BY <1>1 DEF TestsAt, Positions
  <2>4. \A j : j \in TestsAt' <=> j \in TestsAt \/ (j = n + 1 /\ s = "test")
    BY <1>2, <2>1, <2>2, <2>3
  <2> QED
    BY <2>4
<1>5. Cardinality(TestsAt \cup {n + 1}) = Cardinality(TestsAt) + 1
  BY <1>3, FS_AddElement
<1> QED
  BY <1>4, <1>5

LEMMA TestsKept ==
  ASSUME functions' = functions
  PROVE  /\ Tests' = Tests
         /\ \A n : getFunction(n)' = getFunction(n)
         /\ \A f : IsTest(f)' <=> IsTest(f)
<1>1. Tests' = TestsOf(functions')
  BY DEF Tests, TestsOf, AsTests, Numbered, JoinAll, AsTest, IsTest, FoldLeft, MapThenFoldSet
<1>2. Tests' = Tests
  BY <1>1, TestsAsJoined
<1> QED
  BY <1>2 DEF getFunction, Named, IsTest

LEMMA RecordedKept ==
  ASSUME Recorded, functions' = functions, Cardinality(TestsAt)' = Cardinality(TestsAt)
  PROVE  Recorded'
<1>1. /\ Tests' = Tests /\ (\A n : getFunction(n)' = getFunction(n))
      /\ \A f : IsTest(f)' <=> IsTest(f)
  BY TestsKept
<1>2. \A k, n : First(k, n)' <=> First(k, n)
  BY <1>1 DEF First, NameOf
<1>3. Len(Tests') = Cardinality(TestsAt)'
  BY <1>1 DEF Recorded
<1>4. \A k \in DOMAIN Tests' : Tests'[k] \in DOMAIN functions' /\ IsTest(Tests[k])'
  BY <1>1 DEF Recorded, IsTest
<1>5. \A f \in DOMAIN functions' : IsTest(f)' => \E k \in DOMAIN Tests' : Tests'[k] = f
  BY <1>1 DEF Recorded
<1>6. \A n \in TestNames : \A k \in DOMAIN Tests' : First(k, n)' => getFunction(n)' = {Tests'[k]}
  BY <1>1, <1>2 DEF Recorded
<1> QED
  BY <1>3, <1>4, <1>5, <1>6 DEF Recorded

(* What reads a statement, and makes no function.                          *)
Reading == \E s \in Kinds \ {"test"} : program' = Append(program, s) /\ functions' = functions

LEMMA StatementsRead ==
  ASSUME \/ Let \/ LetString \/ LetCall \/ LetLarge \/ PrintValues \/ AssertEqual \/ AssertOther \/ If
         \/ Return \/ Undefined \/ BeginBlock \/ EndBlock \/ EndFunction \/ EndTest
  PROVE  Reading
<1>1. ASSUME NEW s \in (Leaves \cup {"block", "close"}), program' = Append(program, s),
             functions' = functions
      PROVE  Reading
  BY <1>1 DEF Reading, Kinds, Leaves, Bodies
<1>2. UNCHANGED code => functions' = functions
  BY DEF code
<1>3. \A is : Emit(is) => functions' = functions
  BY DEF Emit
<1>4. CASE Let \/ LetString \/ LetCall \/ PrintValues \/ If \/ AssertOther \/ AssertEqual
  BY <1>1, <1>2, <1>3, <1>4
     DEF Let, LetString, LetCall, PrintValues, If, AssertOther, AssertEqual, Visit, Leaves
<1>5. CASE LetLarge
  <2>1. program' = Append(program, "let large") /\ (UNCHANGED <<code, tables>> \/ \E is : Emit(is))
    BY <1>5 DEF LetLarge, Visit
  <2> QED
    BY <1>1, <1>2, <1>3, <2>1 DEF Leaves
<1>6. CASE Return
  <2>1. program' = Append(program, "return") /\ \E is : Emit(is)
    BY <1>6 DEF Return, Visit
  <2> QED
    BY <1>1, <1>3, <2>1 DEF Leaves
<1>7. CASE Undefined
  BY <1>1, <1>2, <1>7 DEF Undefined, Visit, Leaves
<1>8. CASE BeginBlock
  BY <1>1, <1>2, <1>8 DEF BeginBlock, Visit
<1>9. CASE EndBlock \/ EndFunction \/ EndTest
  BY <1>1, <1>2, <1>9 DEF EndBlock, EndFunction, EndTest, Close
<1> QED
  BY <1>4, <1>5, <1>6, <1>7, <1>8, <1>9

LEMMA RecordedNext ==
  ASSUME Inv, Recorded, [Next]_vars
  PROVE  Recorded'
<1>1. Typed /\ Len(blocks) + 1 \in Nat
  BY CodeNumbers DEF Inv
<1>2. ASSUME Reading PROVE Recorded'
  <2>1. PICK s \in Kinds \ {"test"} : program' = Append(program, s) /\ functions' = functions
    BY <1>2 DEF Reading
  <2>2. Cardinality(TestsAt)' = Cardinality(TestsAt)
    BY <1>1, <2>1, TestsCounted
  <2> QED
    BY <2>1, <2>2, RecordedKept
<1>3. ASSUME program' = program PROVE TestsAt' = TestsAt
  BY <1>3 DEF TestsAt, Positions
<1>4. CASE BeginFunction
  <2>1. PICK entry : entry = Len(blocks) + 1
    OBVIOUS
  <2>2. PICK name \in FunctionNames : Create(name, entry)
    BY <1>4, <2>1 DEF BeginFunction
  <2>3. program' = Append(program, "func") /\ "func" \in Kinds
    BY <1>4 DEF BeginFunction, Visit, Kinds, Bodies
  <2>4. Cardinality(TestsAt)' = Cardinality(TestsAt)
    BY <1>1, <2>3, TestsCounted
  <2>5. name \notin TestNames /\ name \in FunctionNames \cup TestNames /\ entry \in Nat
    BY <1>1, <2>1, KindsAssumption
  <2> QED
    BY <1>1, <2>2, <2>4, <2>5, RecordedGrows
<1>5. CASE BeginTest
  <2>1. PICK entry : entry = Len(blocks) + 1
    OBVIOUS
  <2>2. PICK name \in TestNames : Create(name, entry)
    BY <1>5, <2>1 DEF BeginTest
  <2>3. program' = Append(program, "test") /\ "test" \in Kinds
    BY <1>5 DEF BeginTest, Visit, Kinds, Bodies
  <2>4. Cardinality(TestsAt)' = Cardinality(TestsAt) + 1
    BY <1>1, <2>3, TestsCounted
  <2>5. name \in FunctionNames \cup TestNames /\ entry \in Nat
    BY <1>1, <2>1
  <2> QED
    BY <1>1, <2>2, <2>4, <2>5, RecordedGrows
<1>6. CASE FinishTests
  <2>1. PICK entry : entry = Len(blocks) + 1
    OBVIOUS
  <2>2. Create("main", entry) /\ program' = program
    BY <1>6, <2>1 DEF FinishTests, tree
  <2>3. "main" \notin TestNames /\ "main" \in FunctionNames \cup TestNames /\ entry \in Nat
    BY <1>1, <2>1, KindsAssumption DEF FunctionNames
  <2>4. Cardinality(TestsAt)' = Cardinality(TestsAt)
    BY <1>3, <2>2
  <2> QED
    BY <1>1, <2>2, <2>3, <2>4, RecordedGrows
<1>7. CASE StartTests \/ FinishProgram \/ VerifyTests \/ Execute \/ Step \/ UNCHANGED vars
  <2>1. program' = program /\ functions' = functions
    BY <1>7 DEF StartTests, FinishProgram, VerifyTests, Execute, Step, vars, tree, code
  <2> QED
    BY <1>3, <2>1, RecordedKept
<1> QED
  BY <1>2, <1>4, <1>5, <1>6, <1>7, StatementsRead DEF Next

(***************************************************************************)
(* Outside of functions the builder is in no entry block of the program;   *)
(* the entry block of the entry point keeps the calls it is made with.     *)
(***************************************************************************)
Outside == phase = "program" /\ exit = 0 => \A f \in DOMAIN functions : functions[f].entry # insert
NoTest == phase = "program" => \A k \in DOMAIN visits : visits[k].kind # "test"
CallsTests(is) ==
  /\ DOMAIN is = 1..(Len(Tests) + 1) /\ is[Len(Tests) + 1].op = "ret"
  /\ \A k \in DOMAIN Tests : \A n \in TestNames :
       NameOf(k) = n => is[k].op = "call" /\ is[k].arg = getFunction(n)
Calling ==
  phase \in {"entry", "verified"} /\ functions # <<>> /\ Last(functions).entry = insert =>
    CallsTests(blocks[insert].code)

LEMMA NoTestNext ==
  ASSUME Inv, NoTest, [Next]_vars
  PROVE  NoTest'
<1>1. Typed
  BY DEF Inv
<1>2. CASE BeginBlock \/ BeginFunction
  <2>1. PICK kind \in {"block", "func"} : Open(kind) /\ phase' = phase
    BY <1>2 DEF BeginBlock, BeginFunction
  <2>2. Pushed(kind)
    BY <1>1, <2>1, OpenPushes DEF Bodies
  <2>3. \A k \in DOMAIN visits' : \/ k \in DOMAIN visits /\ visits'[k] = visits[k]
                                  \/ visits'[k].kind = kind
    <3>1. PICK l : l = Len(visits)
      OBVIOUS
    <3>2. /\ DOMAIN visits' = 1..(l + 1) /\ DOMAIN visits = 1..l /\ l \in Nat
          /\ \A k \in DOMAIN visits : visits'[k] = visits[k]
          /\ visits'[l + 1].kind = kind
      BY <2>2, <3>1 DEF Pushed
    <3> QED
      BY <3>2
  <2> QED
    BY <2>1, <2>3 DEF NoTest
<1>3. CASE EndBlock \/ EndFunction \/ EndTest
  <2>1. PICK kind : Close(kind) /\ phase' = phase
    BY <1>3 DEF EndBlock, EndFunction, EndTest
  <2>2. Popped(kind)
    BY <1>1, <2>1, ClosePops
  <2>3. \A k \in DOMAIN visits' : k \in DOMAIN visits /\ visits'[k] = visits[k]
    BY <2>2 DEF Popped
  <2> QED
    BY <2>1, <2>3 DEF NoTest
<1>4. CASE BeginTest
  <2>1. phase # "program" /\ phase' = phase
    BY <1>4 DEF BeginTest, Visit
  <2> QED
    BY <2>1 DEF NoTest
<1>5. CASE Let \/ LetString \/ LetCall \/ LetLarge \/ PrintValues \/ AssertEqual \/ If \/ Return
             \/ UNCHANGED vars
  <2>1. visits' = visits /\ phase' = phase
    BY <1>5 DEF Let, LetString, LetCall, LetLarge, PrintValues, AssertEqual, If, Return, vars, tree
  <2> QED
    BY <2>1 DEF NoTest
<1>6. CASE AssertOther \/ Undefined \/ StartTests \/ FinishProgram \/ FinishTests \/ VerifyTests
             \/ Execute \/ Step
  <2>1. phase' # "program"
    BY <1>6 DEF AssertOther, Undefined, StartTests, FinishProgram, FinishTests, VerifyTests,
                verifyModule, Execute, Step
  <2> QED
    BY <2>1 DEF NoTest
<1> QED
  BY <1>2, <1>3, <1>4, <1>5, <1>6 DEF Next

LEMMA OutsideNext ==
  ASSUME Inv, NoTest, Outside, [Next]_vars
  PROVE  Outside'
<1>1. Typed /\ Placed /\ Generating
  BY DEF Inv, Coded
<1>2. CASE AssertEqual
  <2>1. insert' = Len(blocks) + 2 /\ functions' = functions
    BY <1>2 DEF AssertEqual
  <2>2. Len(blocks) \in Nat /\ DOMAIN blocks = 1..Len(blocks)
    BY <1>1, CodeNumbers
  <2>3. insert' \notin DOMAIN blocks
    BY <2>1, <2>2
  <2>4. \A f \in DOMAIN functions : functions[f].entry \in DOMAIN blocks
    BY <1>1 DEF Placed
  <2> QED
    BY <2>1, <2>3, <2>4 DEF Outside
<1>3. CASE BeginFunction
  <2>1. exit' = Len(blocks) + 1 + 1 /\ Len(blocks) \in Nat
    BY <1>1, <1>3, CodeNumbers DEF BeginFunction
  <2>2. exit' # 0
    BY <2>1
  <2> QED
    BY <2>2 DEF Outside
<1>4. CASE EndFunction
  <2>1. exit # 0 /\ insert' = exit /\ functions' = functions
    BY <1>4 DEF EndFunction
  <2>2. PICK last : last = Len(functions)
    OBVIOUS
  <2>3. exit = functions[last].entry + 1 /\ blocks[exit].function = last
    BY <1>1, <2>1, <2>2 DEF Generating
  <2>4. last \in DOMAIN functions /\ functions[last].entry \in Nat
    <3>1. exit \in DOMAIN blocks
      <4>1. exit \in 0..Len(blocks) /\ DOMAIN blocks = 1..Len(blocks) /\ Len(blocks) \in Nat
        BY <1>1, CodeNumbers DEF Placed
      <4> QED
        BY <2>1, <4>1
    <3>2. blocks[exit].function \in DOMAIN functions
      BY <1>1, <3>1 DEF Placed
    <3> QED
      BY <1>1, <2>3, <3>2, CodeNumbers
  <2>5. ASSUME NEW f \in DOMAIN functions, functions[f].entry = exit PROVE FALSE
    <3>1. f = last
      BY <1>1, <2>3, <2>5 DEF Placed
    <3> QED
      BY <2>3, <2>4, <2>5, <3>1
  <2> QED
    BY <2>1, <2>5 DEF Outside
<1>5. CASE BeginTest
  <2>1. phase' # "program"
    BY <1>5 DEF BeginTest, Visit
  <2> QED
    BY <2>1 DEF Outside
<1>6. CASE EndTest
  <2>1. Close("test") /\ phase' = phase
    BY <1>6 DEF EndTest
  <2>2. Popped("test")
    BY <1>1, <2>1, ClosePops
  <2>3. phase # "program"
    BY <2>2 DEF Popped, NoTest, Node
  <2> QED
    BY <2>1, <2>3 DEF Outside
<1>7. CASE Let \/ LetString \/ LetCall \/ LetLarge \/ PrintValues \/ If \/ Return \/ BeginBlock \/ EndBlock
             \/ UNCHANGED vars
  <2>1. phase' = phase /\ exit' = exit
    BY <1>7 DEF Let, LetString, LetCall, LetLarge, PrintValues, If, Return, BeginBlock, EndBlock, context, vars
  <2>2. functions' = functions /\ insert' = insert
    <3>1. \A is : Emit(is) => functions' = functions /\ insert' = insert
      BY DEF Emit
    <3>2. UNCHANGED code => functions' = functions /\ insert' = insert
      BY DEF code
    <3>3. CASE Let \/ LetString \/ LetCall \/ PrintValues \/ If \/ BeginBlock \/ EndBlock \/ UNCHANGED vars
      BY <3>1, <3>2, <3>3 DEF Let, LetString, LetCall, PrintValues, If, BeginBlock, EndBlock, vars
    <3>4. CASE LetLarge
      <4>1. UNCHANGED <<code, tables>> \/ \E is : Emit(is)
        BY <3>4 DEF LetLarge
      <4> QED
        BY <3>1, <3>2, <4>1
    <3>5. CASE Return
      BY <3>1, <3>5 DEF Return
    <3> QED
      BY <1>7, <3>3, <3>4, <3>5
  <2> QED
    BY <2>1, <2>2 DEF Outside
<1>8. CASE AssertOther \/ Undefined \/ StartTests \/ FinishProgram \/ FinishTests \/ VerifyTests
             \/ Execute \/ Step
  <2>1. phase' # "program"
    BY <1>8 DEF AssertOther, Undefined, StartTests, FinishProgram, FinishTests, VerifyTests,
                verifyModule, Execute, Step
  <2> QED
    BY <2>1 DEF Outside
<1> QED
  BY <1>2, <1>3, <1>4, <1>5, <1>6, <1>7, <1>8 DEF Next

(* The calls, by the names of the tests.                                   *)
LEMMA EntrypointCalls ==
  ASSUME Typed
  PROVE  CallsTests(Entrypoint(testNames))
<1>1. PICK n : n = Len(Tests)
  OBVIOUS
<1>2. n \in Nat /\ DOMAIN Tests = 1..n /\ DOMAIN testNames = 1..n
  BY <1>1, TestNumbers DEF testNames
<1>3. PICK calls : calls = [k \in DOMAIN testNames |-> Call(testNames[k])]
  OBVIOUS
<1>4. calls = [k \in 1..n |-> Call(NameOf(k))]
  BY <1>2, <1>3 DEF testNames, NameOf
<1>5. \A name : Call(name) \in Instructions
  <2>1. \A name : getFunction(name) \in SUBSET Nat
    BY CodeNumbers DEF getFunction, Named
  <2> QED
    BY <2>1 DEF Call, Instruction, Instructions, Operations
<1>6. calls \in Seq(Instructions) /\ Len(calls) = n
  <2>1. [k \in 1..n |-> Call(NameOf(k))] \in Seq(Instructions)
    BY <1>2, <1>5, IsASeq
  <2>2. calls \in Seq(Instructions) /\ DOMAIN calls = 1..n
    BY <1>4, <2>1
  <2> QED
    BY <1>2, <2>2, LenProperties
<1>7. Entrypoint(testNames) = Append(calls, Ret) /\ Ret \in Instructions
  BY <1>3 DEF Entrypoint, Ret, Instruction, Instructions, Operations
<1>8. /\ DOMAIN Append(calls, Ret) = 1..(n + 1)
      /\ \A k \in 1..n : Append(calls, Ret)[k] = calls[k]
      /\ Append(calls, Ret)[n + 1] = Ret
  BY <1>6, <1>7, Added
<1>9. \A k \in 1..n : calls[k].op = "call" /\ calls[k].arg = getFunction(NameOf(k))
  BY <1>4 DEF Call, Instruction
<1>10. Ret.op = "ret"
  BY DEF Ret, Instruction
<1> QED
  BY <1>1, <1>2, <1>7, <1>8, <1>9, <1>10 DEF CallsTests

LEMMA CallingNext ==
  ASSUME Inv, Recorded, Outside, Calling, [Next]_vars
  PROVE  Calling'
<1>1. Typed
  BY DEF Inv
<1>2. CASE FinishTests
  <2>1. PICK f, entry, is : /\ f = Len(functions) + 1 /\ entry = Len(blocks) + 1
                            /\ is = Entrypoint(testNames)
    OBVIOUS
  <2>2. /\ Create("main", entry) /\ insert' = entry
        /\ blocks' = Append(blocks, [NewBlock(f) EXCEPT !.code = is])
    BY <1>2, <2>1 DEF FinishTests
  <2>3. blocks'[entry].code = is
    <3>1. PICK b : b = [NewBlock(f) EXCEPT !.code = is]
      OBVIOUS
    <3>2. b.code = is
      BY <3>1 DEF NewBlock
    <3>3. Append(blocks, b)[Len(blocks) + 1] = b
      BY <1>1, AppendProperties DEF Typed
    <3> QED
      BY <2>1, <2>2, <3>1, <3>2, <3>3
  <2>4. "main" \notin TestNames /\ "main" \in FunctionNames \cup TestNames /\ entry \in Nat
    BY <1>1, <2>1, CodeNumbers, KindsAssumption DEF FunctionNames
  <2>5. /\ Tests' = Tests
        /\ \A n : n # "main" => getFunction(n)' = getFunction(n)
        /\ \A g \in DOMAIN functions : functions'[g] = functions[g]
    BY <1>1, <2>2, <2>4, CreatedTest, CreatedName, CreatedFunction
  <2>6. CallsTests(is)
    BY <1>1, <2>1, EntrypointCalls
  <2>7. \A k \in DOMAIN Tests : NameOf(k)' = NameOf(k)
    BY <2>5 DEF NameOf, Recorded
  <2>8. \A n \in TestNames : getFunction(n)' = getFunction(n)
    BY <2>4, <2>5
  <2>9. CallsTests(is)'
    BY <2>5, <2>6, <2>7, <2>8 DEF CallsTests
  <2> QED
    BY <2>2, <2>3, <2>9 DEF Calling
<1>3. CASE VerifyTests \/ UNCHANGED vars
  <2>1. /\ functions' = functions /\ blocks' = blocks /\ insert' = insert
        /\ phase' = phase \/ phase = "entry"
    BY <1>3 DEF VerifyTests, vars, code
  <2>2. Tests' = Tests /\ \A n : getFunction(n)' = getFunction(n)
    BY <2>1, TestsKept
  <2>3. \A is : CallsTests(is) => CallsTests(is)'
    BY <2>1, <2>2 DEF CallsTests, NameOf
  <2> QED
    BY <2>1, <2>3 DEF Calling
<1>4. CASE FinishProgram
  <2>1. /\ functions' = functions /\ insert' = insert /\ phase = "program" /\ visits = <<>>
    BY <1>4 DEF FinishProgram, code
  <2>2. \A f \in DOMAIN functions : functions[f].entry # insert
    BY <2>1, NothingOpen DEF Outside
  <2>3. functions # <<>> => Last(functions).entry # insert
    <3>1. functions # <<>> => Len(functions) \in DOMAIN functions
      BY <1>1, Elements DEF Typed
    <3> QED
      BY <2>2, <3>1 DEF Last
  <2> QED
    BY <2>1, <2>3 DEF Calling
<1>5. CASE \/ Let \/ LetString \/ LetCall \/ LetLarge \/ PrintValues \/ AssertEqual \/ If \/ Return
            \/ BeginBlock \/ EndBlock \/ BeginFunction \/ EndFunction \/ BeginTest \/ EndTest
  <2>1. phase' = phase /\ phase \in {"program", "tests"}
    BY <1>5 DEF Let, LetString, LetCall, LetLarge, PrintValues, AssertEqual, If, Return, BeginBlock, EndBlock,
                BeginFunction, EndFunction, BeginTest, EndTest, Visit, Close
  <2> QED
    BY <2>1 DEF Calling
<1>6. CASE AssertOther \/ Undefined \/ StartTests \/ Execute \/ Step
  <2>1. phase' \notin {"entry", "verified"}
    BY <1>6 DEF AssertOther, Undefined, StartTests, Execute, Step
  <2> QED
    BY <2>1 DEF Calling
<1> QED
  BY <1>2, <1>3, <1>4, <1>5, <1>6 DEF Next

(* The calls of the entry point are the tests.                             *)
LEMMA CallsAreTests ==
  ASSUME Inv, Recorded, Calling
  PROVE  EntryCallsTests
<1> SUFFICES ASSUME HasEntrypoint PROVE EntryCallsTests
  BY DEF EntryCallsTests
<1>1. PICK is, n, ts : is = blocks[insert].code /\ n = Len(Tests) /\ ts = Tests
  OBVIOUS
<1>2. n \in Nat /\ DOMAIN ts = 1..n
  BY <1>1, TestNumbers DEF Inv
<1>3. CallsTests(is)
  BY <1>1 DEF Calling, HasEntrypoint
<1>4. /\ DOMAIN is = 1..(n + 1) /\ is[n + 1].op = "ret"
      /\ \A k \in 1..n : /\ NameOf(k) \in TestNames /\ is[k].op = "call"
                         /\ is[k].arg = getFunction(NameOf(k))
  BY <1>1, <1>2, <1>3 DEF CallsTests, Recorded, NameOf, IsTest
<1>5. {m \in DOMAIN is : is[m].op = "call"} = 1..n
  <2>1. \A m \in 1..(n + 1) : m \in 1..n <=> m # n + 1
    BY <1>2
  <2> QED
    BY <1>2, <1>4, <2>1
<1>6. PICK called : called = Called(Len(functions))
  OBVIOUS
<1>7. called = [k \in 1..n |-> is[k].arg]
  <2>1. functions[Len(functions)].entry = insert
    BY DEF HasEntrypoint, Last
  <2> QED
    BY <1>1, <1>5, <1>6, <2>1 DEF Called
<1>8. DOMAIN called = 1..Cardinality({j \in Positions : program[j] = "test"})
  BY <1>1, <1>7 DEF Recorded, TestsAt
<1>9. \A k \in 1..n : testNames[k] = NameOf(k)
  BY <1>1, <1>2 DEF testNames, NameOf
<1>10. ASSUME NEW k \in DOMAIN called
       PROVE  IF \E i \in 1..(k - 1) : testNames[i] = testNames[k]
              THEN called[k] \in {called[i] : i \in 1..(k - 1)}
              ELSE called[k] = {ts[k]}
  <2>1. k \in 1..n /\ \A i \in 1..(k - 1) : i \in 1..n
    BY <1>2, <1>7
  <2>2. CASE \E i \in 1..(k - 1) : testNames[i] = testNames[k]
    <3>1. PICK i \in 1..(k - 1) : testNames[i] = testNames[k]
      BY <2>2
    <3>2. called[k] = called[i]
      BY <1>4, <1>7, <1>9, <2>1, <3>1
    <3> QED
      BY <2>2, <3>2
  <2>3. CASE ~ \E i \in 1..(k - 1) : testNames[i] = testNames[k]
    <3>1. \A i \in 1..n : i < k => NameOf(i) # NameOf(k)
      <4>1. \A i \in 1..n : i < k => i \in 1..(k - 1)
        BY <1>2, <2>1
      <4> QED
        BY <1>9, <2>1, <2>3, <4>1
    <3>2. First(k, NameOf(k))
      BY <1>1, <1>2, <3>1 DEF First
    <3>3. getFunction(NameOf(k)) = {ts[k]}
      BY <1>1, <1>2, <1>4, <2>1, <3>2 DEF Recorded
    <3> QED
      BY <1>4, <1>7, <2>1, <2>3, <3>3
  <2> QED
    BY <2>2, <2>3
<1> QED
  BY <1>1, <1>6, <1>8, <1>10 DEF EntryCallsTests

(* The entry point calls each test once, in the order of the tests, unless *)
(* an earlier one has its name when mangled: that one is called in its     *)
(* place.                                                                  *)
THEOREM EveryTestIsCalled == Spec => []EntryCallsTests
<1> DEFINE Entered == Recorded /\ NoTest /\ Outside /\ Calling
<1>1. Init => Entered
  <2> SUFFICES ASSUME Init PROVE Entered
    OBVIOUS
  <2>1. functions = <<>> /\ program = <<>> /\ visits = <<>> /\ phase = "program"
    BY DEF Init
  <2>2. Outside /\ NoTest /\ Calling
    BY <2>1 DEF Outside, NoTest, Calling
  <2>3. DOMAIN functions = {} /\ Numbered(functions) = <<>>
    BY <2>1 DEF Numbered
  <2>4. Len(Tests) = 0 /\ DOMAIN Tests = {}
    <3>1. <<>> \in Seq(Nat) /\ Len(<<>>) = 0 /\ DOMAIN <<>> = {}
      OBVIOUS
    <3>2. PICK acc : /\ Joins(acc, AsTests(functions), <<>>, <<>>)
                     /\ JoinAll(AsTests(functions), <<>>, <<>>) = acc[Len(<<>>)]
      BY <3>1, FoldJoins
    <3>3. acc[0] = <<>>
      BY <3>2 DEF Joins
    <3>4. Tests = <<>>
      BY <2>3, <3>1, <3>2, <3>3, TestsAsJoined DEF TestsOf
    <3> QED
      BY <3>1, <3>4
  <2>5. Cardinality(TestsAt) = 0
    <3>1. TestsAt = {}
      BY <2>1 DEF TestsAt, Positions
    <3> QED
      BY <3>1, FS_EmptySet
  <2>6. Recorded
    BY <2>3, <2>4, <2>5 DEF Recorded
  <2> QED
    BY <2>2, <2>6
<1>2. Inv /\ Entered /\ [Next]_vars => Entered'
  BY RecordedNext, NoTestNext, OutsideNext, CallingNext
<1>3. Inv /\ Entered => EntryCallsTests
  BY CallsAreTests
<1> QED
  BY <1>1, <1>2, <1>3, InvHolds, PTL DEF Spec

-----------------------------------------------------------------------------
(***************************************************************************)
(* The outcome.  The bodies that are open in the text are those of the     *)
(* frames: at[k] is the statement of frame k.                              *)
(***************************************************************************)
Matched(at) ==
  /\ DOMAIN at = DOMAIN visits
  /\ \A k \in DOMAIN visits : at[k] \in Positions /\ VisitedBy(k, at[k])
  /\ \A k, m \in DOMAIN visits : k < m => at[k] < at[m]
  /\ \A i \in Positions : Inside(i, Len(program) + 1) => \E k \in DOMAIN visits : at[k] = i

NoOwner == \A k \in DOMAIN visits : visits[k].kind \notin Owning
LastOwner(k) ==
  /\ k \in DOMAIN visits /\ visits[k].kind \in Owning
  /\ \A m \in DOMAIN visits : m > k => visits[m].kind \notin Owning

LEMMA OpenOwners ==
  ASSUME NEW at, Matched(at)
  PROVE  OwnersOf(Len(program) + 1)
           = {at[k] : k \in {m \in DOMAIN visits : visits[m].kind \in Owning}}
<1>1. ASSUME NEW i \in OwnersOf(Len(program) + 1)
      PROVE  \E k \in DOMAIN visits : at[k] = i /\ visits[k].kind \in Owning
  <2>1. i \in Positions /\ program[i] \in Owning /\ Inside(i, Len(program) + 1)
    BY DEF OwnersOf, Owning
  <2>2. PICK k \in DOMAIN visits : at[k] = i
    BY <2>1 DEF Matched
  <2>3. program[i] = visits[k].kind
    BY <2>2 DEF Matched, VisitedBy
  <2> QED
    BY <2>1, <2>2, <2>3
<1>2. ASSUME NEW k \in DOMAIN visits, visits[k].kind \in Owning
      PROVE  at[k] \in OwnersOf(Len(program) + 1)
  BY <1>2 DEF Matched, VisitedBy, OwnersOf, Owning
<1> QED
  BY <1>1, <1>2

LEMMA CurrentNone ==
  ASSUME NEW at, Matched(at), NoOwner
  PROVE  Owner(Len(program) + 1) = 0
<1>1. OwnersOf(Len(program) + 1) = {}
  BY OpenOwners DEF NoOwner
<1> QED
  BY <1>1 DEF Owner, OwnersOf

LEMMA CurrentLast ==
  ASSUME Typed, NEW at, Matched(at), NEW k, LastOwner(k)
  PROVE  /\ Owner(Len(program) + 1) = at[k] /\ at[k] \in Positions /\ at[k] # 0
         /\ program[at[k]] = visits[k].kind
<1>1. /\ k \in DOMAIN visits /\ at[k] \in Positions /\ program[at[k]] = visits[k].kind
      /\ visits[k].kind \in Owning /\ DOMAIN visits \in SUBSET Nat
  <2>1. DOMAIN visits = 1..Len(visits) /\ Len(visits) \in Nat
    BY Elements DEF Typed
  <2>2. DOMAIN visits \in SUBSET Nat
    BY <2>1
  <2> QED
    BY <2>2 DEF Matched, VisitedBy, LastOwner
<1>2. PICK S : S = OwnersOf(Len(program) + 1)
  OBVIOUS
<1>3. at[k] \in S
  BY <1>1, <1>2, OpenOwners
<1>4. S \in SUBSET Nat
  BY <1>2 DEF OwnersOf, Positions
<1>5. \A i \in S : i <= at[k]
  <2>1. ASSUME NEW i \in S PROVE i <= at[k]
    <3>1. PICK m \in DOMAIN visits : i = at[m] /\ visits[m].kind \in Owning
      BY <1>2, OpenOwners
    <3>2. ~ (m > k) /\ m \in Nat /\ k \in Nat
      BY <1>1, <3>1 DEF LastOwner
    <3>3. m < k \/ m = k
      BY <3>2
    <3>4. i \in Nat /\ at[k] \in Nat
      BY <1>3, <1>4
    <3>5. m < k => at[m] < at[k]
      BY <1>1, <3>1 DEF Matched
    <3> QED
      BY <3>1, <3>3, <3>4, <3>5
  <2> QED
    BY <2>1
<1>6. S # {}
  BY <1>3
<1>7. Owner(Len(program) + 1) = CHOOSE i \in S : \A j \in S : j <= i
  BY <1>2, <1>6 DEF Owner, OwnersOf
<1>8. (CHOOSE i \in S : \A j \in S : j <= i) = at[k]
  <2> DEFINE c == CHOOSE i \in S : \A j \in S : j <= i
  <2>1. c \in S /\ \A j \in S : j <= c
    BY <1>3, <1>5
  <2> HIDE DEF c
  <2>2. c <= at[k] /\ at[k] <= c /\ c \in Nat /\ at[k] \in Nat
    BY <1>3, <1>4, <1>5, <2>1
  <2>3. c = at[k]
    BY <2>2
  <2> QED
    BY <2>3 DEF c
<1>9. at[k] # 0
  BY <1>1 DEF Positions
<1> QED
  BY <1>1, <1>7, <1>8, <1>9

LEMMA SomeOwner ==
  ASSUME Typed, ~ NoOwner
  PROVE  \E k : LastOwner(k)
<1>1. DOMAIN visits = 1..Len(visits) /\ Len(visits) \in Nat
  BY Elements DEF Typed
<1> DEFINE owners == {k \in DOMAIN visits : visits[k].kind \in Owning}
           below == {Len(visits) - k : k \in owners}
<1>2. \A k \in owners : k \in Nat /\ Len(visits) - k \in Nat
  BY <1>1
<1>3. PICK d \in below : \A e \in below : d <= e
  <2>1. below \in SUBSET Nat /\ below # {}
    BY <1>2 DEF NoOwner
  <2> HIDE DEF below
  <2> QED
    BY <2>1, Least
<1>4. PICK k \in owners : d = Len(visits) - k
  BY <1>3
<1>5. ASSUME NEW m \in DOMAIN visits, m > k PROVE visits[m].kind \notin Owning
  <2>1. ASSUME m \in owners PROVE FALSE
    <3>1. Len(visits) - m \in below
      BY <2>1
    <3>2. Len(visits) - k <= Len(visits) - m
      BY <1>3, <1>4, <3>1
    <3>3. PICK l : l = Len(visits)
      OBVIOUS
    <3>4. l \in Nat /\ m \in Nat /\ k \in Nat /\ l - k <= l - m
      BY <1>1, <1>2, <2>1, <3>2, <3>3
    <3> QED
      BY <1>5, <3>4
  <2> QED
    BY <2>1
<1> QED
  BY <1>4, <1>5 DEF LastOwner

-----------------------------------------------------------------------------
(* What the text has had so far.                                           *)
Throws == \E j \in Positions : program[j] = "assert other"
Astray == \E j \in Positions : program[j] = "return" /\ ~ OwnedBy(j, "func")
Early == \E j \in Positions :
           /\ program[j] \in {"let string", "let call", "print", "assert"} /\ Owner(j) = 0
           /\ \A i \in 1..(j - 1) : program[i] # "func"
Loose == \E j \in Positions : EmitsCode(j) /\ Owner(j) = 0
Returned(q) == \E i \in Positions : program[i] = "return" /\ Owner(i) = q
Late == \E j \in Positions : EmitsCode(j) /\
          \E i \in Positions : i < j /\ program[i] = "return" /\ Owner(i) = Owner(j)
Started == \E i \in Positions : program[i] \in Owning

(* Where the next statement is.                                            *)
Here == Owner(Len(program) + 1)
HereIn(kind) == OwnedBy(Len(program) + 1, kind)
CodeOf(s) ==
  \/ s \in {"let call", "print", "assert", "return"}
  \/ s \in {"let", "let string", "let large"} /\ HereIn("func")

LEMMA TextRead ==
  ASSUME NEW s, Reads(s), NEW n, n = Len(program)
  PROVE  /\ n \in Nat /\ Positions = 1..n /\ Positions' = 1..(n + 1) /\ Len(program') = n + 1
         /\ program'[n + 1] = s /\ \A k \in 1..n : program'[k] = program[k]
         /\ \A j \in 1..(n + 1) : Owner(j)' = Owner(j) /\ (Owner(j) = 0 \/ Owner(j) \in 1..n)
         /\ \A j \in 1..(n + 1) : \A kind : OwnedBy(j, kind)' <=> OwnedBy(j, kind)
         /\ \A j \in 1..n : EmitsCode(j)' <=> EmitsCode(j)
         /\ EmitsCode(n + 1)' <=> CodeOf(s)
<1>1. /\ n \in Nat /\ Positions = 1..n /\ Positions' = 1..(n + 1) /\ Len(program') = n + 1
      /\ program'[n + 1] = s /\ \A k \in 1..n : program'[k] = program[k]
  BY DEF Reads, Positions
<1>2. ASSUME NEW j \in 1..(n + 1) PROVE Owner(j)' = Owner(j) /\ (Owner(j) = 0 \/ Owner(j) \in 1..n)
  <2>1. Owner(j)' = Owner(j)
    BY <1>2, OwnersKept
  <2>2. CASE OwnersOf(j) = {}
    BY <2>1, <2>2 DEF Owner, OwnersOf
  <2>3. CASE OwnersOf(j) # {}
    <3>1. PICK i : i \in OwnersOf(j)
      BY <2>3
    <3>2. Owner(j) \in OwnersOf(j)
      BY <1>1, <3>1, OwnerOf
    <3> QED
      BY <1>1, <2>1, <3>2 DEF OwnersOf
  <2> QED
    BY <2>2, <2>3
<1>3. ASSUME NEW j \in 1..(n + 1), NEW kind PROVE OwnedBy(j, kind)' <=> OwnedBy(j, kind)
  <2>1. PICK o : o = Owner(j)
    OBVIOUS
  <2>2. Owner(j)' = o /\ (o = 0 \/ program'[o] = program[o])
    BY <1>1, <1>2, <1>3, <2>1
  <2> QED
    BY <2>1, <2>2 DEF OwnedBy
<1>4. ASSUME NEW j \in 1..n PROVE EmitsCode(j)' <=> EmitsCode(j)
  <2>1. program'[j] = program[j] /\ (OwnedBy(j, "func")' <=> OwnedBy(j, "func"))
    BY <1>1, <1>3, <1>4
  <2> QED
    BY <2>1 DEF EmitsCode
<1>5. EmitsCode(n + 1)' <=> CodeOf(s)
  <2>1. n + 1 \in 1..(n + 1)
    BY <1>1
  <2>2. OwnedBy(n + 1, "func")' <=> OwnedBy(n + 1, "func")
    BY <1>3, <2>1
  <2> QED
    BY <1>1, <2>2 DEF EmitsCode, CodeOf, HereIn
<1> QED
  BY <1>1, <1>2, <1>3, <1>4, <1>5

LEMMA TextGrows ==
  ASSUME NEW s, Reads(s)
  PROVE  /\ \A kind : NestedIn(kind)' <=> (NestedIn(kind) \/ (s = "func" /\ HereIn(kind)))
         /\ Throws' <=> (Throws \/ s = "assert other")
         /\ Astray' <=> (Astray \/ (s = "return" /\ ~ HereIn("func")))
         /\ Early' <=> (Early \/ (/\ s \in {"let string", "let call", "print", "assert"} /\ Here = 0
                                  /\ \A i \in Positions : program[i] # "func"))
         /\ Loose' <=> (Loose \/ (CodeOf(s) /\ Here = 0))
         /\ Late' <=> (Late \/ (CodeOf(s) /\ Returned(Here)))
         /\ \A q : Returned(q)' <=> (Returned(q) \/ (s = "return" /\ q = Here))
         /\ Started' <=> (Started \/ s \in Owning)
<1>1. PICK n : n = Len(program)
  OBVIOUS
<1>2. /\ n \in Nat /\ Positions = 1..n /\ Positions' = 1..(n + 1)
      /\ program'[n + 1] = s /\ \A k \in 1..n : program'[k] = program[k]
  BY <1>1, TextRead
<1>3. \A j \in 1..(n + 1) : j \in 1..n \/ j = n + 1
  BY <1>2
<1>4. n + 1 \in 1..(n + 1) /\ n + 1 \notin 1..n /\ \A j \in 1..n : j \in 1..(n + 1)
  BY <1>2
<1>5. \A j \in 1..n : program'[j] = program[j] /\ Owner(j)' = Owner(j)
  BY <1>1, <1>2, <1>4, TextRead
<1>6. \A j \in 1..n : \A kind : OwnedBy(j, kind)' <=> OwnedBy(j, kind)
  BY <1>1, <1>4, TextRead
<1>7. \A j \in 1..n : EmitsCode(j)' <=> EmitsCode(j)
  BY <1>1, TextRead
<1>8. Owner(n + 1)' = Here /\ (EmitsCode(n + 1)' <=> CodeOf(s))
  <2>1. Owner(n + 1)' = Owner(n + 1) /\ (EmitsCode(n + 1)' <=> CodeOf(s))
    BY <1>1, <1>4, TextRead
  <2> QED
    BY <1>1, <2>1 DEF Here
<1>9. \A kind : OwnedBy(n + 1, kind)' <=> HereIn(kind)
  <2>1. ASSUME NEW kind PROVE OwnedBy(n + 1, kind)' <=> HereIn(kind)
    <3>1. OwnedBy(n + 1, kind)' <=> OwnedBy(n + 1, kind)
      BY <1>1, <1>4, TextRead
    <3> QED
      BY <1>1, <3>1 DEF HereIn
  <2> QED
    BY <2>1
<1>10. ASSUME NEW kind PROVE NestedIn(kind)' <=> (NestedIn(kind) \/ (s = "func" /\ HereIn(kind)))
  <2>1. NestedIn(kind)' <=> \E j \in 1..(n + 1) : program'[j] = "func" /\ OwnedBy(j, kind)'
    BY <1>2 DEF NestedIn
  <2>2. NestedIn(kind) <=> \E j \in 1..n : program[j] = "func" /\ OwnedBy(j, kind)
    BY <1>2 DEF NestedIn
  <2> QED
    BY <1>2, <1>3, <1>4, <1>5, <1>6, <1>9, <2>1, <2>2
<1>11. Throws' <=> (Throws \/ s = "assert other")
  BY <1>2, <1>3, <1>4, <1>5 DEF Throws
<1>12. Started' <=> (Started \/ s \in Owning)
  BY <1>2, <1>3, <1>4, <1>5 DEF Started
<1>13. Astray' <=> (Astray \/ (s = "return" /\ ~ HereIn("func")))
  <2>1. Astray' <=> \E j \in 1..(n + 1) : program'[j] = "return" /\ ~ OwnedBy(j, "func")'
    BY <1>2 DEF Astray
  <2>2. Astray <=> \E j \in 1..n : program[j] = "return" /\ ~ OwnedBy(j, "func")
    BY <1>2 DEF Astray
  <2> QED
    BY <1>2, <1>3, <1>4, <1>5, <1>6, <1>9, <2>1, <2>2
<1>14. Early' <=> (Early \/ (/\ s \in {"let string", "let call", "print", "assert"} /\ Here = 0
                             /\ \A i \in Positions : program[i] # "func"))
  <2>1. \A j \in 1..n : (\A i \in 1..(j - 1) : program'[i] # "func")
                          <=> (\A i \in 1..(j - 1) : program[i] # "func")
    <3>1. \A j \in 1..n : \A i \in 1..(j - 1) : i \in 1..n
      BY <1>2
    <3> QED
      BY <1>5, <3>1
  <2>2. (n + 1) - 1 = n
    BY <1>2
  <2>3. Early' <=> \E j \in 1..(n + 1) :
           /\ program'[j] \in {"let string", "let call", "print", "assert"} /\ Owner(j)' = 0
           /\ \A i \in 1..(j - 1) : program'[i] # "func"
    BY <1>2 DEF Early
  <2>4. Early <=> \E j \in 1..n :
           /\ program[j] \in {"let string", "let call", "print", "assert"} /\ Owner(j) = 0
           /\ \A i \in 1..(j - 1) : program[i] # "func"
    BY <1>2 DEF Early
  <2>5. (\A i \in 1..((n + 1) - 1) : program'[i] # "func") <=> (\A i \in Positions : program[i] # "func")
    BY <1>2, <1>5, <2>2
  <2> QED
    BY <1>2, <1>3, <1>4, <1>5, <1>8, <2>1, <2>3, <2>4, <2>5
<1>15. Loose' <=> (Loose \/ (CodeOf(s) /\ Here = 0))
  <2>1. Loose' <=> \E j \in 1..(n + 1) : EmitsCode(j)' /\ Owner(j)' = 0
    BY <1>2 DEF Loose
  <2>2. Loose <=> \E j \in 1..n : EmitsCode(j) /\ Owner(j) = 0
    BY <1>2 DEF Loose
  <2> QED
    BY <1>3, <1>4, <1>5, <1>7, <1>8, <2>1, <2>2
<1>16. ASSUME NEW q PROVE Returned(q)' <=> (Returned(q) \/ (s = "return" /\ q = Here))
  <2>1. Returned(q)' <=> \E j \in 1..(n + 1) : program'[j] = "return" /\ Owner(j)' = q
    BY <1>2 DEF Returned
  <2>2. Returned(q) <=> \E j \in 1..n : program[j] = "return" /\ Owner(j) = q
    BY <1>2 DEF Returned
  <2> QED
    BY <1>2, <1>3, <1>4, <1>5, <1>8, <2>1, <2>2
<1>17. Late' <=> (Late \/ (CodeOf(s) /\ Returned(Here)))
  <2>1. Late' <=> \E j \in 1..(n + 1) : EmitsCode(j)' /\
          \E i \in 1..(n + 1) : i < j /\ program'[i] = "return" /\ Owner(i)' = Owner(j)'
    BY <1>2 DEF Late
  <2>2. Late <=> \E j \in 1..n : EmitsCode(j) /\
          \E i \in 1..n : i < j /\ program[i] = "return" /\ Owner(i) = Owner(j)
    BY <1>2 DEF Late
  <2>3. ASSUME NEW j \in 1..n
        PROVE  (\E i \in 1..(n + 1) : i < j /\ program'[i] = "return" /\ Owner(i)' = Owner(j)')
                 <=> \E i \in 1..n : i < j /\ program[i] = "return" /\ Owner(i) = Owner(j)
    <3>1. ~ (n + 1 < j)
      BY <1>2, <2>3
    <3> QED
      BY <1>3, <1>4, <1>5, <2>3, <3>1
  <2>4. (\E i \in 1..(n + 1) : i < n + 1 /\ program'[i] = "return" /\ Owner(i)' = Owner(n + 1)')
          <=> Returned(Here)
    <3>1. Returned(Here) <=> \E i \in 1..n : program[i] = "return" /\ Owner(i) = Here
      BY <1>2 DEF Returned
    <3>2. \A i \in 1..(n + 1) : i < n + 1 <=> i \in 1..n
      BY <1>2
    <3> QED
      BY <1>4, <1>5, <1>8, <3>1, <3>2
  <2> QED
    BY <1>3, <1>4, <1>7, <1>8, <2>1, <2>2, <2>3, <2>4
<1> QED
  BY <1>10, <1>11, <1>12, <1>13, <1>14, <1>15, <1>16, <1>17

(***************************************************************************)
(* The statements of the frames, after a statement.                        *)
(***************************************************************************)
LEMMA MatchedStays ==
  ASSUME Typed, NEW s, Reads(s), s \notin Bodies, s # "close", visits' = visits,
         NEW at, Matched(at)
  PROVE  Matched(at)'
<1>1. PICK n : n = Len(program)
  OBVIOUS
<1>2. /\ n \in Nat /\ Positions = 1..n /\ Positions' = 1..(n + 1) /\ Len(program') = n + 1
      /\ program'[n + 1] = s
  BY <1>1, TextRead
<1>3. Len(visits) \in Nat /\ DOMAIN visits = 1..Len(visits)
  BY Elements DEF Typed
<1>4. ASSUME NEW k \in DOMAIN visits' PROVE at[k] \in Positions' /\ VisitedBy(k, at[k])'
  <2>1. PICK i : i = at[k]
    OBVIOUS
  <2>2. i \in Positions /\ VisitedBy(k, i)
    BY <1>4, <2>1 DEF Matched
  <2>3. i \in Positions' /\ VisitedBy(k, i)'
    BY <1>3, <1>4, <2>2, VisitKept
  <2> QED
    BY <2>1, <2>3 DEF VisitedBy, Inside, Opened, Closed
<1>5. ASSUME NEW i \in Positions', Inside(i, Len(program) + 1)'
      PROVE  \E k \in DOMAIN visits' : at[k] = i
  <2>1. Inside(i, n + 2)'
    <3>1. Len(program') + 1 = n + 2
      BY <1>2
    <3> QED
      BY <1>5, <3>1 DEF Inside
  <2>2. i \in 1..n
    <3>1. CASE i = n + 1
      <4>1. Opened(n + 1, n + 1)' = Opened(n + 1, n) + 0 /\ Closed(n + 1, n + 1)' = Closed(n + 1, n) + 0
        <5>1. n + 1 \in 1..(n + 1)
          BY <1>2
        <5> QED
          BY <1>1, <5>1, ReadsCounts
      <4>2. Opened(n + 1, n) = 0 /\ Closed(n + 1, n) = 0
        <5>1. n + 1 \in Nat /\ OpensAt(n + 1, n) = {} /\ ClosesAt(n + 1, n) = {}
          BY <1>2 DEF OpensAt, ClosesAt
        <5>2. /\ Opened(n + 1, n) = Cardinality(OpensAt(n + 1, n))
              /\ Closed(n + 1, n) = Cardinality(ClosesAt(n + 1, n))
          BY <1>2, <5>1, TextCounts
        <5> QED
          BY <5>1, <5>2, FS_EmptySet
      <4>3. ~ (Opened(n + 1, n + 1)' > Closed(n + 1, n + 1)')
        BY <4>1, <4>2
      <4>4. n + 1 \in (n + 1)..((n + 2) - 1)
        BY <1>2
      <4> QED
        BY <2>1, <3>1, <4>3, <4>4 DEF Inside
    <3> QED
      BY <1>2, <1>5, <3>1
  <2>3. Inside(i, n + 1)
    BY <1>1, <2>1, <2>2, ReadsInside
  <2>4. i \in Positions /\ Inside(i, Len(program) + 1)
    BY <1>1, <1>2, <2>2, <2>3
  <2> QED
    BY <2>4 DEF Matched
<1>6. \A k, m \in DOMAIN visits' : k < m => at[k] < at[m]
  BY DEF Matched
<1>7. DOMAIN at = DOMAIN visits'
  BY DEF Matched
<1> QED
  BY <1>4, <1>5, <1>6, <1>7 DEF Matched

LEMMA MatchedOpens ==
  ASSUME NEW s \in Bodies, Reads(s), Pushed(s), NEW at, Matched(at)
  PROVE  \E more : Matched(more)'
<1>1. PICK n, l : n = Len(program) /\ l = Len(visits)
  OBVIOUS
<1>2. /\ n \in Nat /\ Positions = 1..n /\ Positions' = 1..(n + 1) /\ Len(program') = n + 1
      /\ program'[n + 1] = s
  BY <1>1, TextRead
<1>3. /\ l \in Nat /\ DOMAIN visits = 1..l /\ DOMAIN visits' = 1..(l + 1)
      /\ Len(visits') = l + 1 /\ visits'[l + 1].kind = s
      /\ \A k \in DOMAIN visits : visits'[k] = visits[k]
  BY <1>1 DEF Pushed
<1>4. PICK more : more = [k \in 1..(l + 1) |-> IF k = l + 1 THEN n + 1 ELSE at[k]]
  OBVIOUS
<1>5. /\ DOMAIN more = DOMAIN visits' /\ more[l + 1] = n + 1
      /\ \A k \in DOMAIN visits : more[k] = at[k] /\ k \in 1..(l + 1) /\ k \in Nat /\ k < l + 1
      /\ \A k \in DOMAIN visits' : k \in DOMAIN visits \/ k = l + 1
      /\ l + 1 \in DOMAIN visits'
  <2>1. l + 1 \in 1..(l + 1)
    BY <1>3
  <2>2. \A k \in 1..l : k \in 1..(l + 1) /\ k # l + 1 /\ k < l + 1
    BY <1>3
  <2>3. \A k \in 1..(l + 1) : k \in 1..l \/ k = l + 1
    BY <1>3
  <2> QED
    BY <1>3, <1>4, <2>1, <2>2, <2>3
<1>6. ASSUME NEW k \in DOMAIN visits PROVE more[k] \in Positions' /\ VisitedBy(k, more[k])'
  <2>1. PICK i : i = at[k]
    OBVIOUS
  <2>2. i \in Positions /\ VisitedBy(k, i)
    BY <1>6, <2>1 DEF Matched
  <2>3. k \in 1..Len(visits) /\ k \in 1..Len(visits') /\ visits'[k] = visits[k] /\ Len(visits') \in Nat
        /\ Len(visits) \in Nat /\ Len(visits') = Len(visits) + 1
    BY <1>1, <1>3, <1>5, <1>6
  <2>4. i \in Positions' /\ VisitedBy(k, i)'
    BY <2>2, <2>3, VisitKept
  <2>5. more[k] = i
    BY <1>5, <1>6, <2>1
  <2> QED
    BY <2>4, <2>5 DEF VisitedBy, Inside, Opened, Closed
<1>7. n + 1 \in Positions' /\ VisitedBy(l + 1, n + 1)'
  <2>1. Inside(n + 1, n + 2)'
    BY <1>1, ReadsInside
  <2>2. Opened(n + 1, n + 1)' = 1 /\ Closed(n + 1, n + 1)' = 0
    <3>1. n + 1 \in Nat /\ n + 1 \in 1..(n + 1) /\ s # "close"
      BY <1>2 DEF Bodies
    <3>2. OpensAt(n + 1, n) = {} /\ ClosesAt(n + 1, n) = {}
      BY <1>2 DEF OpensAt, ClosesAt
    <3>3. /\ Opened(n + 1, n) = Cardinality(OpensAt(n + 1, n))
          /\ Closed(n + 1, n) = Cardinality(ClosesAt(n + 1, n))
      BY <1>2, <3>1, TextCounts
    <3>4. Opened(n + 1, n) = 0 /\ Closed(n + 1, n) = 0
      BY <3>2, <3>3, FS_EmptySet
    <3> QED
      BY <1>1, <3>1, <3>4, ReadsCounts
  <2>3. /\ Opened(n + 1, Len(program))' = 1
        /\ Closed(n + 1, Len(program))' = 0
    BY <1>2, <2>2 DEF Opened, Closed
  <2>4. Len(visits') + 1 - (l + 1) = 1
    BY <1>3
  <2>5. Inside(n + 1, Len(program) + 1)'
    <3>1. Len(program') + 1 = n + 2
      BY <1>2
    <3> QED
      BY <2>1, <3>1 DEF Inside
  <2>6. n + 1 \in Positions' /\ program'[n + 1] = visits'[l + 1].kind
    BY <1>2, <1>3
  <2> QED
    BY <2>3, <2>4, <2>5, <2>6 DEF VisitedBy
<1>8. \A k \in DOMAIN visits' : more[k] \in Positions' /\ VisitedBy(k, more[k])'
  <2>1. ASSUME NEW k, k = l + 1 PROVE more[k] \in Positions' /\ VisitedBy(k, more[k])'
    BY <1>5, <1>7, <2>1 DEF VisitedBy, Inside, Opened, Closed
  <2> QED
    BY <1>5, <1>6, <2>1
<1>9. ASSUME NEW k \in DOMAIN visits', NEW m \in DOMAIN visits', k < m PROVE more[k] < more[m]
  <2>1. k \in DOMAIN visits
    <3>1. k # l + 1
      <4>1. m = l + 1 \/ m < l + 1
        BY <1>5
      <4> QED
        BY <1>3, <1>9, <4>1
    <3> QED
      BY <1>5, <3>1
  <2>2. at[k] \in 1..n
    BY <1>2, <2>1 DEF Matched
  <2>3. CASE m = l + 1
    BY <1>2, <1>5, <2>1, <2>2, <2>3
  <2>4. CASE m \in DOMAIN visits
    BY <1>5, <1>9, <2>1, <2>4 DEF Matched
  <2> QED
    BY <1>5, <2>3, <2>4
<1>10. ASSUME NEW i \in Positions', Inside(i, Len(program) + 1)'
       PROVE  \E k \in DOMAIN visits' : more[k] = i
  <2>1. CASE i = n + 1
    BY <1>5, <2>1
  <2>2. CASE i \in 1..n
    <3>1. Inside(i, n + 2)'
      <4>1. Len(program') + 1 = n + 2
        BY <1>2
      <4> QED
        BY <1>10, <4>1 DEF Inside
    <3>2. Inside(i, n + 1)
      BY <1>1, <2>2, <3>1, ReadsInside
    <3>3. PICK k \in DOMAIN visits : at[k] = i
      BY <1>1, <1>2, <2>2, <3>2 DEF Matched
    <3> QED
      BY <1>3, <1>5, <3>3
  <2> QED
    BY <1>2, <2>1, <2>2
<1> QED
  BY <1>5, <1>8, <1>9, <1>10 DEF Matched

(* The body that closes is no longer open, the others are.                 *)
LEMMA StillOpen ==
  ASSUME Reads("close"), NEW kind, Popped(kind), NEW at, Matched(at), NEW k \in DOMAIN visits,
         NEW n, n = Len(program)
  PROVE  Inside(at[k], n + 2)' <=> k < Len(visits)
<1>1. PICK i, l : i = at[k] /\ l = Len(visits)
  OBVIOUS
<1>2. /\ n \in Nat /\ i \in 1..n /\ Inside(i, n + 1) /\ l \in Nat /\ k \in 1..l
      /\ Opened(i, n) = Closed(i, n) + (l + 1 - k)
  BY <1>1, TextRead DEF Matched, VisitedBy, Popped
<1>3. i \in Nat /\ i \in 1..(n + 1) /\ "close" \notin Bodies
  BY <1>2 DEF Bodies
<1>4. /\ Opened(i, n + 1)' = Opened(i, n) + 0
      /\ Closed(i, n + 1)' = Closed(i, n) + 1
  BY <1>3, ReadsCounts
<1>5. Opened(i, n) \in Nat /\ Closed(i, n) \in Nat
  BY <1>2, <1>3, TextCounts
<1>6. Inside(i, n + 2)' <=> Opened(i, n + 1)' > Closed(i, n + 1)'
  BY <1>2, ReadsInside
<1>7. PICK a, b, c, d : /\ a = Opened(i, n) /\ b = Closed(i, n)
                        /\ c = Opened(i, n + 1)' /\ d = Closed(i, n + 1)'
  OBVIOUS
<1>8. c > d <=> k < l
  <2>1. c = a + 0 /\ d = b + 1 /\ a = b + (l + 1 - k) /\ a \in Nat /\ b \in Nat /\ l \in Nat /\ k \in 1..l
    BY <1>2, <1>4, <1>5, <1>7
  <2> QED
    BY <2>1
<1>9. Inside(i, n + 2)' <=> k < l
  BY <1>6, <1>7, <1>8
<1> QED
  BY <1>1, <1>9 DEF Inside, Opened, Closed

LEMMA MatchedCloses ==
  ASSUME Typed, Reads("close"), NEW kind, Popped(kind), NEW at, Matched(at)
  PROVE  \E less : Matched(less)'
<1>1. PICK n, l : n = Len(program) /\ l = Len(visits)
  OBVIOUS
<1>2. /\ n \in Nat /\ Positions = 1..n /\ Positions' = 1..(n + 1) /\ Len(program') = n + 1
      /\ program'[n + 1] = "close"
  BY <1>1, TextRead
<1>3. /\ l \in Nat /\ l \in 1..l /\ DOMAIN visits = 1..l /\ DOMAIN visits' = 1..(l - 1)
      /\ \A k \in DOMAIN visits' : visits'[k] = visits[k]
  BY <1>1 DEF Popped
<1>4. Len(visits') \in Nat /\ l = Len(visits') + 1
  <2>1. Len(visits') \in Nat /\ DOMAIN visits' = 1..Len(visits')
    BY Elements DEF Popped
  <2>2. PICK m : m = Len(visits')
    OBVIOUS
  <2>3. l \in Nat /\ m \in Nat /\ l \in 1..l /\ 1..m = 1..(l - 1)
    BY <1>3, <2>1, <2>2
  <2>4. l = m + 1
    BY <2>3
  <2> QED
    BY <2>1, <2>2, <2>4
<1>5. PICK less : less = [k \in 1..(l - 1) |-> at[k]]
  OBVIOUS
<1>6. \A k \in DOMAIN visits' : k \in DOMAIN visits /\ k < l /\ less[k] = at[k]
  BY <1>3, <1>5
<1>7. ASSUME NEW k \in DOMAIN visits' PROVE less[k] \in Positions' /\ VisitedBy(k, less[k])'
  <2>1. PICK i : i = at[k]
    OBVIOUS
  <2>2. i \in Positions /\ VisitedBy(k, i)
    BY <1>6, <1>7, <2>1 DEF Matched
  <2>3. k \in 1..Len(visits) /\ k \in 1..Len(visits') /\ visits'[k] = visits[k] /\ Len(visits') \in Nat
        /\ Len(visits) \in Nat /\ Len(visits) = Len(visits') + 1
    BY <1>1, <1>3, <1>4, <1>6, <1>7
  <2>4. i \in Positions' /\ VisitedBy(k, i)'
    BY <2>2, <2>3, VisitKept
  <2>5. less[k] = i
    BY <1>6, <1>7, <2>1
  <2> QED
    BY <2>4, <2>5 DEF VisitedBy, Inside, Opened, Closed
<1>8. ASSUME NEW i \in Positions', Inside(i, Len(program) + 1)'
      PROVE  \E k \in DOMAIN visits' : less[k] = i
  <2>1. Inside(i, n + 2)'
    <3>1. Len(program') + 1 = n + 2
      BY <1>2
    <3> QED
      BY <1>8, <3>1 DEF Inside
  <2>2. i \in 1..n
    <3>1. CASE i = n + 1
      <4>1. Opened(n + 1, n + 1)' = Opened(n + 1, n) + 0 /\ Closed(n + 1, n + 1)' = Closed(n + 1, n) + 1
        <5>1. n + 1 \in 1..(n + 1) /\ "close" \notin Bodies
          BY <1>2 DEF Bodies
        <5> QED
          BY <1>1, <5>1, ReadsCounts
      <4>2. Opened(n + 1, n) = 0 /\ Closed(n + 1, n) = 0
        <5>1. n + 1 \in Nat /\ OpensAt(n + 1, n) = {} /\ ClosesAt(n + 1, n) = {}
          BY <1>2 DEF OpensAt, ClosesAt
        <5>2. /\ Opened(n + 1, n) = Cardinality(OpensAt(n + 1, n))
              /\ Closed(n + 1, n) = Cardinality(ClosesAt(n + 1, n))
          BY <1>2, <5>1, TextCounts
        <5> QED
          BY <5>1, <5>2, FS_EmptySet
      <4>3. ~ (Opened(n + 1, n + 1)' > Closed(n + 1, n + 1)')
        BY <4>1, <4>2
      <4>4. n + 1 \in (n + 1)..((n + 2) - 1)
        BY <1>2
      <4> QED
        BY <2>1, <3>1, <4>3, <4>4 DEF Inside
    <3> QED
      BY <1>2, <1>8, <3>1
  <2>3. Inside(i, n + 1)
    BY <1>1, <2>1, <2>2, ReadsInside
  <2>4. PICK k \in DOMAIN visits : at[k] = i
    BY <1>1, <1>2, <2>2, <2>3 DEF Matched
  <2>5. Inside(at[k], n + 2)' <=> k < Len(visits)
    BY <1>1, StillOpen
  <2>6. k < l
    BY <1>1, <2>1, <2>4, <2>5 DEF Inside, Opened, Closed
  <2>7. k \in DOMAIN visits'
    BY <1>3, <2>6
  <2> QED
    BY <1>6, <2>4, <2>7
<1>9. \A k, m \in DOMAIN visits' : k < m => less[k] < less[m]
  BY <1>6 DEF Matched
<1>10. DOMAIN less = DOMAIN visits'
  BY <1>3, <1>5
<1> QED
  BY <1>7, <1>8, <1>9, <1>10 DEF Matched

(***************************************************************************)
(* Whose the next statement is.                                            *)
(***************************************************************************)
LEMMA HereIs ==
  Here = LastOf(OwnersOf(Len(program) + 1))
BY DEF Here, Owner, OwnersOf, LastOf

LEMMA OwnersGrow ==
  ASSUME NEW s, Reads(s), NEW n, n = Len(program)
  PROVE  \A i : i \in OwnersOf(Len(program) + 1)' <=>
           \/ i \in OwnersOf(n + 1) /\ Inside(i, n + 2)'
           \/ i = n + 1 /\ s \in Owning
<1>1. /\ n \in Nat /\ Positions = 1..n /\ Positions' = 1..(n + 1) /\ Len(program') = n + 1
      /\ program'[n + 1] = s /\ \A k \in 1..n : program'[k] = program[k]
  BY TextRead
<1>2. \A i : Inside(i, Len(program) + 1)' <=> Inside(i, n + 2)'
  <2>1. Len(program') + 1 = n + 2
    BY <1>1
  <2> QED
    BY <2>1 DEF Inside
<1>3. ASSUME NEW i \in 1..n
      PROVE  i \in OwnersOf(Len(program) + 1)' <=> (i \in OwnersOf(n + 1) /\ Inside(i, n + 2)')
  <2>1. Inside(i, n + 2)' => Inside(i, n + 1)
    BY <1>3, ReadsInside
  <2>2. program'[i] = program[i] /\ i \in 1..(n + 1)
    BY <1>1, <1>3
  <2>3. i \in OwnersOf(Len(program) + 1)' <=> (program'[i] \in {"func", "test"} /\ Inside(i, n + 2)')
    BY <1>1, <1>2, <2>2 DEF OwnersOf
  <2>4. i \in OwnersOf(n + 1) <=> (program[i] \in {"func", "test"} /\ Inside(i, n + 1))
    BY <1>1, <1>3 DEF OwnersOf
  <2> QED
    BY <2>1, <2>2, <2>3, <2>4
<1>4. n + 1 \in OwnersOf(Len(program) + 1)' <=> s \in Owning
  <2>1. s \in Owning => Inside(n + 1, n + 2)'
    BY ReadsInside DEF Owning, Bodies
  <2>2. n + 1 \in 1..(n + 1)
    BY <1>1
  <2> QED
    BY <1>1, <1>2, <2>1, <2>2 DEF OwnersOf, Owning
<1>5. \A i : i \in OwnersOf(Len(program) + 1)' => i \in 1..n \/ i = n + 1
  BY <1>1 DEF OwnersOf
<1>6. \A i : i \in OwnersOf(n + 1) => i \in 1..n
  BY <1>1 DEF OwnersOf
<1>7. n + 1 \notin 1..n
  BY <1>1
<1> QED
  BY <1>3, <1>4, <1>5, <1>6, <1>7

(* A statement that closes nothing leaves what is open open.               *)
LEMMA StaysInside ==
  ASSUME NEW s, Reads(s), s # "close", NEW n, n = Len(program), NEW i \in 1..n, Inside(i, n + 1)
  PROVE  Inside(i, n + 2)'
<1>1. n \in Nat
  BY TextRead
<1>2. i \in Nat /\ i \in 1..(n + 1) /\ n \in i..((n + 1) - 1)
  BY <1>1
<1>3. Opened(i, n) > Closed(i, n)
  BY <1>2 DEF Inside
<1>4. /\ Opened(i, n + 1)' = Opened(i, n) + (IF s \in Bodies THEN 1 ELSE 0)
      /\ Closed(i, n + 1)' = Closed(i, n) + 0
  BY <1>2, ReadsCounts
<1>5. Opened(i, n) \in Nat /\ Closed(i, n) \in Nat
  BY <1>1, <1>2, TextCounts
<1>6. Opened(i, n + 1)' > Closed(i, n + 1)'
  <2>1. PICK a, b, c, d : /\ a = Opened(i, n) /\ b = Closed(i, n)
                          /\ c = Opened(i, n + 1)' /\ d = Closed(i, n + 1)'
    OBVIOUS
  <2>2. a \in Nat /\ b \in Nat /\ a > b /\ d = b + 0 /\ (c = a + 1 \/ c = a + 0)
    BY <1>3, <1>4, <1>5, <2>1
  <2>3. c > d
    BY <2>2
  <2> QED
    BY <2>1, <2>3
<1> QED
  BY <1>6, ReadsInside

LEMMA HereStays ==
  ASSUME NEW s, Reads(s), s \notin Owning, s # "close"
  PROVE  Here' = Here
<1>1. PICK n : n = Len(program)
  OBVIOUS
<1>2. n \in Nat /\ Positions = 1..n
  BY <1>1, TextRead
<1>3. \A i : i \in OwnersOf(n + 1) => Inside(i, n + 2)'
  <2>1. ASSUME NEW i \in OwnersOf(n + 1) PROVE Inside(i, n + 2)'
    <3>1. i \in 1..n /\ Inside(i, n + 1)
      BY <1>2, <2>1 DEF OwnersOf
    <3> QED
      BY <1>1, <3>1, StaysInside
  <2> QED
    BY <2>1
<1>4. \A i : i \in OwnersOf(Len(program) + 1)' <=> i \in OwnersOf(n + 1)
  BY <1>1, <1>3, OwnersGrow
<1>5. OwnersOf(Len(program) + 1)' = OwnersOf(Len(program) + 1)
  <2>1. OwnersOf(Len(program) + 1) = OwnersOf(n + 1)
    BY <1>1
  <2>2. OwnersOf(Len(program) + 1)' = OwnersOf(n + 1)
    BY <1>4
  <2> QED
    BY <2>1, <2>2
<1>6. Here' = LastOf(OwnersOf(Len(program) + 1)')
  BY DEF Here, Owner, OwnersOf, LastOf
<1> QED
  BY <1>5, <1>6, HereIs

LEMMA HereOpens ==
  ASSUME NEW s \in Owning, Reads(s)
  PROVE  Here' = Len(program) + 1 /\ Here' # 0 /\ Len(program) + 1 \notin Positions
<1>1. PICK n : n = Len(program)
  OBVIOUS
<1>2. n \in Nat /\ Positions = 1..n
  BY <1>1, TextRead
<1>3. PICK S : S = OwnersOf(Len(program) + 1)'
  OBVIOUS
<1>4. n + 1 \in S /\ \A i \in S : i = n + 1 \/ i \in 1..n
  <2>1. \A i : i \in S <=> ((i \in OwnersOf(n + 1) /\ Inside(i, n + 2)') \/ (i = n + 1 /\ s \in Owning))
    BY <1>1, <1>3, OwnersGrow
  <2>2. \A i \in OwnersOf(n + 1) : i \in 1..n
    BY <1>2 DEF OwnersOf
  <2> QED
    BY <2>1, <2>2
<1>5. LastOf(S) = n + 1
  <2>1. S \in SUBSET Nat /\ \A i \in S : i <= n + 1
    BY <1>2, <1>4
  <2> DEFINE c == CHOOSE i \in S : \A k \in S : k <= i
  <2>2. c \in S /\ \A k \in S : k <= c
    BY <1>4, <2>1
  <2>3. LastOf(S) = c
    BY <1>4 DEF LastOf
  <2> HIDE DEF c
  <2>4. c <= n + 1 /\ n + 1 <= c /\ c \in Nat /\ n + 1 \in Nat
    BY <1>2, <1>4, <2>1, <2>2
  <2>5. c = n + 1
    BY <2>4
  <2> QED
    BY <2>3, <2>5
<1>6. Here' = LastOf(S)
  BY <1>3 DEF Here, Owner, OwnersOf, LastOf
<1>7. n + 1 # 0 /\ n + 1 \notin 1..n
  BY <1>2
<1> QED
  BY <1>1, <1>2, <1>5, <1>6, <1>7

LEMMA HereCloses ==
  ASSUME Reads("close"), NEW kind, Popped(kind), NEW at, Matched(at)
  PROVE  /\ kind = "block" => Here' = Here
         /\ (\A k \in DOMAIN visits : k # Len(visits) => visits[k].kind \notin Owning) => Here' = 0
<1>1. PICK n, l : n = Len(program) /\ l = Len(visits)
  OBVIOUS
<1>2. n \in Nat /\ Positions = 1..n
  BY <1>1, TextRead
<1>3. /\ l \in Nat /\ DOMAIN visits = 1..l /\ l \in DOMAIN visits /\ visits[l].kind = kind
  BY <1>1 DEF Popped, Node
<1>4. \A i : i \in OwnersOf(Len(program) + 1)' <=> (i \in OwnersOf(n + 1) /\ Inside(i, n + 2)')
  <2>1. "close" \notin Owning
    BY DEF Owning
  <2> QED
    BY <1>1, <2>1, OwnersGrow
<1>5. ASSUME NEW i \in OwnersOf(n + 1)
      PROVE  \E k \in DOMAIN visits : /\ at[k] = i /\ visits[k].kind \in Owning
                                      /\ Inside(i, n + 2)' <=> k < l
  <2>1. i \in Positions /\ program[i] \in Owning /\ Inside(i, n + 1)
    BY <1>5 DEF OwnersOf, Owning
  <2>2. PICK k \in DOMAIN visits : at[k] = i
    BY <1>1, <2>1 DEF Matched
  <2>3. program[i] = visits[k].kind
    BY <2>2 DEF Matched, VisitedBy
  <2>4. Inside(at[k], n + 2)' <=> k < l
    BY <1>1, StillOpen
  <2>5. Inside(i, n + 2)' <=> k < l
    BY <2>2, <2>4 DEF Inside, Opened, Closed
  <2> QED
    BY <2>1, <2>2, <2>3, <2>5
<1>6. Here' = LastOf(OwnersOf(Len(program) + 1)')
  BY DEF Here, Owner, OwnersOf, LastOf
<1>7. ASSUME kind = "block" PROVE Here' = Here
  <2>1. ASSUME NEW i \in OwnersOf(n + 1) PROVE Inside(i, n + 2)'
    <3>1. PICK k \in DOMAIN visits : visits[k].kind \in Owning /\ (Inside(i, n + 2)' <=> k < l)
      BY <1>5, <2>1
    <3>2. k # l
      BY <1>3, <1>7, <3>1 DEF Owning
    <3>3. k < l
      BY <1>3, <3>2
    <3> QED
      BY <3>1, <3>3
  <2>2. OwnersOf(Len(program) + 1)' = OwnersOf(n + 1)
    BY <1>4, <2>1
  <2> QED
    BY <1>1, <1>6, <2>2, HereIs
<1>8. ASSUME \A k \in DOMAIN visits : k # Len(visits) => visits[k].kind \notin Owning
      PROVE  Here' = 0
  <2>1. ASSUME NEW i \in OwnersOf(n + 1) PROVE ~ Inside(i, n + 2)'
    <3>1. PICK k \in DOMAIN visits : visits[k].kind \in Owning /\ (Inside(i, n + 2)' <=> k < l)
      BY <1>5, <2>1
    <3>2. k = l
      BY <1>1, <1>8, <3>1
    <3>3. ~ (k < l)
      BY <1>3, <3>2
    <3> QED
      BY <3>1, <3>3
  <2>2. OwnersOf(Len(program) + 1)' = {}
    BY <1>4, <2>1
  <2> QED
    BY <1>6, <2>2 DEF LastOf
<1> QED
  BY <1>7, <1>8

(***************************************************************************)
(* What the frames are, and what has been read.                            *)
(***************************************************************************)
Live == phase \in {"program", "tests"}
Framed == Live => \E at : Matched(at)

TestsFirst ==
  /\ phase = "tests" /\ visits # <<>> => visits[1].kind = "test"
  /\ \A k \in DOMAIN visits : visits[k].kind = "test" => k = 1 /\ phase = "tests"
  /\ phase = "program" => \A i \in Positions : program[i] # "test"
OneFunction ==
  ~ NestedIn("func") =>
    \A k \in DOMAIN visits : visits[k].kind = "func" =>
      exit # 0 /\ \A m \in DOMAIN visits : visits[m].kind = "func" => m = k
(* A function declared in a function stays: the outer one cannot close.    *)
NestedOpen ==
  NestedIn("func") =>
    \E k \in DOMAIN visits :
      visits[k].kind = "func" /\
        (exit = 0 \/ \E m \in DOMAIN visits : m > k /\ visits[m].kind = "func")
Arranged ==
  Live => TestsFirst /\ OneFunction /\ NestedOpen /\ (insert # 0 <=> Started)

Accepted == Live \/ phase = "entry" => ~ Throws /\ ~ Astray /\ ~ Early

LEMMA TextSame ==
  ASSUME program' = program
  PROVE  /\ \A kind : NestedIn(kind)' <=> NestedIn(kind)
         /\ Throws' <=> Throws
         /\ Astray' <=> Astray
         /\ Early' <=> Early
         /\ Loose' <=> Loose
         /\ Late' <=> Late
         /\ Started' <=> Started
         /\ \A q : Returned(q)' <=> Returned(q)
         /\ Here' = Here /\ Positions' = Positions
<1>1. Positions' = Positions
  BY DEF Positions
<1>2. \A i, j : (Opened(i, j)' = Opened(i, j)) /\ (Closed(i, j)' = Closed(i, j))
  BY DEF Opened, Closed
<1>3. \A i, j : Inside(i, j)' <=> Inside(i, j)
  BY <1>2 DEF Inside
<1>4. ASSUME NEW j PROVE Owner(j)' = Owner(j)
  <2>1. \A i : i \in OwnersOf(j)' <=> i \in OwnersOf(j)
    BY <1>3 DEF OwnersOf, Positions
  <2>2. OwnersOf(j)' = OwnersOf(j)
    BY <2>1
  <2>3. Owner(j) = LastOf(OwnersOf(j))
    BY DEF Owner, OwnersOf, LastOf
  <2>4. Owner(j)' = LastOf(OwnersOf(j)')
    BY DEF Owner, OwnersOf, LastOf
  <2> QED
    BY <2>2, <2>3, <2>4
<1>5. \A j : \A kind : OwnedBy(j, kind)' <=> OwnedBy(j, kind)
  <2>1. ASSUME NEW j, NEW kind PROVE OwnedBy(j, kind)' <=> OwnedBy(j, kind)
    BY <1>4 DEF OwnedBy
  <2> QED
    BY <2>1
<1>6. \A j : EmitsCode(j)' <=> EmitsCode(j)
  <2>1. ASSUME NEW j PROVE EmitsCode(j)' <=> EmitsCode(j)
    BY <1>5 DEF EmitsCode
  <2> QED
    BY <2>1
<1>7. \A kind : NestedIn(kind)' <=> NestedIn(kind)
  <2>1. ASSUME NEW kind PROVE NestedIn(kind)' <=> NestedIn(kind)
    BY <1>1, <1>5 DEF NestedIn
  <2> QED
    BY <2>1
<1>8. Throws' <=> Throws
  BY <1>1 DEF Throws
<1>9. Astray' <=> Astray
  BY <1>1, <1>5 DEF Astray
<1>10. Early' <=> Early
  BY <1>1, <1>4 DEF Early
<1>11. Loose' <=> Loose
  BY <1>1, <1>4, <1>6 DEF Loose
<1>12. Late' <=> Late
  BY <1>1, <1>4, <1>6 DEF Late
<1>13. Started' <=> Started
  BY <1>1 DEF Started
<1>14. \A q : Returned(q)' <=> Returned(q)
  <2>1. ASSUME NEW q PROVE Returned(q)' <=> Returned(q)
    BY <1>1, <1>4 DEF Returned
  <2> QED
    BY <2>1
<1>15. Here' = Here
  BY <1>4 DEF Here
<1> QED
  BY <1>1, <1>7, <1>8, <1>9, <1>10, <1>11, <1>12, <1>13, <1>14, <1>15

(* The function being generated is the one the next statement is in.       *)
LEMMA Modes ==
  ASSUME Inv, Live, Arranged, NEW at, Matched(at)
  PROVE  /\ exit # 0 => HereIn("func")
         /\ HereIn("func") /\ ~ NestedIn("func") => exit # 0
         /\ Here = 0 <=> NoOwner
         /\ Here # 0 => HereIn("func") \/ HereIn("test")
         /\ \A kind : HereIn(kind) => Here # 0 /\ \E k \in DOMAIN visits : visits[k].kind = kind
<1>1. Typed /\ Enclosed
  BY DEF Inv, Scoped
<1>2. CASE NoOwner
  <2>1. Here = 0
    BY <1>2, CurrentNone DEF Here
  <2>2. exit = 0
    BY <1>1, <1>2 DEF Enclosed, Opener, NoOwner, Owning
  <2>3. \A kind : ~ HereIn(kind)
    BY <2>1 DEF HereIn, OwnedBy, Here
  <2> QED
    BY <1>2, <2>1, <2>2, <2>3
<1>3. CASE ~ NoOwner
  <2>1. PICK k : LastOwner(k)
    BY <1>1, <1>3, SomeOwner
  <2>2. /\ Here = at[k] /\ at[k] # 0 /\ program[at[k]] = visits[k].kind
        /\ k \in DOMAIN visits /\ visits[k].kind \in Owning
    BY <1>1, <2>1, CurrentLast DEF Here, LastOwner
  <2>3. \A kind : HereIn(kind) <=> visits[k].kind = kind
    BY <2>2 DEF HereIn, OwnedBy, Here
  <2>4. ASSUME exit # 0 PROVE HereIn("func")
    <3>1. PICK m \in DOMAIN visits : Opener(m)
      BY <1>1, <2>4 DEF Enclosed
    <3>2. LastOwner(m)
      BY <3>1 DEF Opener, LastOwner, Owning
    <3>3. Here = at[m] /\ at[m] # 0 /\ program[at[m]] = visits[m].kind
      BY <1>1, <3>2, CurrentLast DEF Here
    <3> QED
      BY <3>1, <3>3 DEF HereIn, OwnedBy, Here, Opener
  <2>5. HereIn("func") /\ ~ NestedIn("func") => exit # 0
    BY <2>2, <2>3 DEF Arranged, OneFunction
  <2>6. HereIn("func") \/ HereIn("test")
    BY <2>2, <2>3 DEF Owning
  <2>7. \A kind : HereIn(kind) => \E m \in DOMAIN visits : visits[m].kind = kind
    BY <2>2, <2>3
  <2> QED
    BY <1>3, <2>2, <2>4, <2>5, <2>6, <2>7
<1> QED
  BY <1>2, <1>3

(***************************************************************************)
(* The steps that read.                                                    *)
(***************************************************************************)
Leafs(s) ==
  /\ Visit(s) /\ s \in Leaves /\ s # "assert other"
  /\ visits' = visits /\ phase' = phase /\ exit' = exit
  /\ insert' # 0 <=> insert # 0
  /\ s \in {"let string", "let call", "print", "assert"} => insert # 0
  /\ s = "return" => exit # 0
LeafStep == Let \/ LetString \/ LetCall \/ LetLarge \/ PrintValues \/ AssertEqual \/ If \/ Return

LEMMA LeafSteps ==
  ASSUME Typed, LeafStep
  PROVE  \E s : Leafs(s)
<1>1. Len(blocks) + 2 # 0
  BY CodeNumbers
<1>2. \A is : Emit(is) => insert' = insert
  BY DEF Emit
<1>3. UNCHANGED code => insert' = insert
  BY DEF code
<1>4. CASE Let
  <2>1. Leafs("let")
    BY <1>2, <1>3, <1>4 DEF Let, Leafs, Leaves, context
  <2> QED
    BY <2>1
<1>11. CASE LetString
  <2>1. Leafs("let string")
    BY <1>2, <1>3, <1>11 DEF LetString, Leafs, Leaves, context
  <2> QED
    BY <2>1
<1>5. CASE LetCall
  <2>1. Leafs("let call")
    BY <1>2, <1>5 DEF LetCall, Leafs, Leaves, context
  <2> QED
    BY <2>1
<1>6. CASE LetLarge
  <2>1. insert' = insert
    <3>1. UNCHANGED <<code, tables>> \/ \E is : Emit(is)
      BY <1>6 DEF LetLarge
    <3> QED
      BY <1>2, <1>3, <3>1
  <2>2. Leafs("let large")
    BY <1>6, <2>1 DEF LetLarge, Leafs, Leaves, context
  <2> QED
    BY <2>2
<1>7. CASE PrintValues
  <2>1. Leafs("print")
    BY <1>2, <1>7 DEF PrintValues, Leafs, Leaves, context
  <2> QED
    BY <2>1
<1>8. CASE AssertEqual
  <2>1. insert' = Len(blocks) + 2 /\ insert # 0
    BY <1>8 DEF AssertEqual
  <2>2. Leafs("assert")
    BY <1>1, <1>8, <2>1 DEF AssertEqual, Leafs, Leaves, context
  <2> QED
    BY <2>2
<1>9. CASE If
  <2>1. Leafs("if")
    BY <1>3, <1>9 DEF If, Leafs, Leaves, context
  <2> QED
    BY <2>1
<1>10. CASE Return
  <2>1. insert' = insert
    BY <1>2, <1>10 DEF Return
  <2>2. Leafs("return")
    BY <1>10, <2>1 DEF Return, Leafs, Leaves, context
  <2> QED
    BY <2>2
<1> QED
  BY <1>4, <1>5, <1>6, <1>7, <1>8, <1>9, <1>10, <1>11 DEF LeafStep

LEMMA LeafReads ==
  ASSUME Typed, NEW s, Leafs(s)
  PROVE  Reads(s) /\ s \notin Bodies /\ s # "close" /\ s \notin Owning /\ Live /\ s # "func"
<1>1. s \in Kinds /\ program' = Append(program, s) /\ Live
  BY DEF Leafs, Visit, Kinds, Live
<1>2. s \notin Bodies /\ s # "close" /\ s \notin Owning /\ s # "func"
  BY DEF Leafs, Leaves, Bodies, Owning
<1>3. Reads(s)
  BY <1>1, ReadsOne
<1> QED
  BY <1>1, <1>2, <1>3

LEMMA BodyReads ==
  ASSUME Typed, NEW s \in Bodies, Visit(s), Open(s)
  PROVE  Reads(s) /\ Pushed(s) /\ Live /\ s # "close" /\ s # "return"
<1>1. s \in Kinds /\ program' = Append(program, s) /\ Live
  BY DEF Visit, Kinds, Live
<1>2. Reads(s)
  BY <1>1, ReadsOne
<1> QED
  BY <1>1, <1>2, OpenPushes DEF Bodies

LEMMA EndReads ==
  ASSUME Typed, NEW kind, Close(kind)
  PROVE  Reads("close") /\ Popped(kind) /\ Live
<1>1. "close" \in Kinds /\ program' = Append(program, "close") /\ Live
  BY DEF Close, Kinds, Live
<1>2. Reads("close")
  BY <1>1, ReadsOne
<1> QED
  BY <1>1, <1>2, ClosePops

(* The frames after a body opens or closes.                                *)
LEMMA FramesOpen ==
  ASSUME NEW s, Pushed(s)
  PROVE  /\ Len(visits) \in Nat /\ DOMAIN visits = 1..Len(visits)
         /\ Len(visits) + 1 \in DOMAIN visits' /\ visits'[Len(visits) + 1].kind = s
         /\ visits'[Len(visits) + 1].oldInsert = insert
         /\ \A k \in DOMAIN visits : k \in DOMAIN visits' /\ visits'[k] = visits[k] /\ k < Len(visits) + 1
         /\ \A k \in DOMAIN visits' : k \in DOMAIN visits \/ k = Len(visits) + 1
<1>1. PICK l : l = Len(visits)
  OBVIOUS
<1>2. /\ l \in Nat /\ DOMAIN visits = 1..l /\ DOMAIN visits' = 1..(l + 1)
      /\ visits'[l + 1].kind = s /\ visits'[l + 1].oldInsert = insert
      /\ \A k \in DOMAIN visits : visits'[k] = visits[k]
  BY <1>1 DEF Pushed
<1>3. /\ l + 1 \in 1..(l + 1) /\ \A k \in 1..l : k \in 1..(l + 1) /\ k < l + 1
      /\ \A k \in 1..(l + 1) : k \in 1..l \/ k = l + 1
  BY <1>2
<1> QED
  BY <1>1, <1>2, <1>3

LEMMA FramesClose ==
  ASSUME NEW kind, Popped(kind)
  PROVE  /\ Len(visits) \in DOMAIN visits /\ visits[Len(visits)].kind = kind
         /\ DOMAIN visits = 1..Len(visits) /\ Len(visits) \in Nat /\ visits # <<>>
         /\ \A k \in DOMAIN visits' : k \in DOMAIN visits /\ visits'[k] = visits[k] /\ k # Len(visits)
         /\ \A k \in DOMAIN visits : k \in DOMAIN visits' \/ k = Len(visits)
         /\ visits' # <<>> => 1 \in DOMAIN visits'
<1>1. PICK l : l = Len(visits)
  OBVIOUS
<1>2. /\ l \in Nat /\ l \in 1..l /\ DOMAIN visits = 1..l /\ DOMAIN visits' = 1..(l - 1)
      /\ visits[l].kind = kind /\ \A k \in DOMAIN visits' : visits'[k] = visits[k]
  BY <1>1 DEF Popped, Node
<1>3. /\ \A k \in 1..(l - 1) : k \in 1..l /\ k # l
      /\ \A k \in 1..l : k \in 1..(l - 1) \/ k = l
  BY <1>2
<1>4. visits # <<>>
  <2>1. l \in DOMAIN visits
    BY <1>2
  <2> QED
    BY <2>1
<1>5. visits' # <<>> => 1 \in DOMAIN visits'
  <2>1. DOMAIN visits' = 1..Len(visits') /\ Len(visits') \in Nat /\ (visits' = <<>> <=> Len(visits') = 0)
    BY Elements DEF Popped
  <2> QED
    BY <2>1
<1> QED
  BY <1>1, <1>2, <1>3, <1>4, <1>5

(* Steps after which no statement can be read.                             *)
EndStep == \/ AssertOther \/ Undefined \/ FinishProgram \/ FinishTests \/ VerifyTests
           \/ Execute \/ Step
LEMMA EndSteps ==
  ASSUME EndStep
  PROVE  ~ Live'
BY DEF EndStep, Live, AssertOther, Undefined, FinishProgram, FinishTests, VerifyTests, verifyModule,
       Execute, Step

LEMMA StepIs ==
  ASSUME [Next]_vars
  PROVE  \/ LeafStep \/ EndStep \/ BeginBlock \/ EndBlock \/ BeginFunction \/ EndFunction
         \/ BeginTest \/ EndTest \/ StartTests \/ UNCHANGED vars
BY DEF Next, LeafStep, EndStep

LEMMA FramedNext ==
  ASSUME Inv, Framed, [Next]_vars
  PROVE  Framed'
<1>1. Typed
  BY DEF Inv
<1>2. CASE LeafStep
  <2>1. PICK s : Leafs(s)
    BY <1>1, <1>2, LeafSteps
  <2>2. Reads(s) /\ s \notin Bodies /\ s # "close" /\ Live /\ visits' = visits
    BY <1>1, <2>1, LeafReads DEF Leafs
  <2>3. PICK at : Matched(at)
    BY <2>2 DEF Framed
  <2>4. Matched(at)'
    BY <1>1, <2>2, <2>3, MatchedStays
  <2> QED
    BY <2>4 DEF Framed
<1>3. CASE BeginBlock \/ BeginFunction \/ BeginTest
  <2>1. PICK s \in Bodies : Visit(s) /\ Open(s)
    BY <1>3 DEF BeginBlock, BeginFunction, BeginTest, Bodies
  <2>2. Reads(s) /\ Pushed(s) /\ Live
    BY <1>1, <2>1, BodyReads
  <2>3. PICK at : Matched(at)
    BY <2>2 DEF Framed
  <2>4. \E more : Matched(more)'
    BY <2>2, <2>3, MatchedOpens
  <2> QED
    BY <2>4 DEF Framed
<1>4. CASE EndBlock \/ EndFunction \/ EndTest
  <2>1. PICK kind : Close(kind)
    BY <1>4 DEF EndBlock, EndFunction, EndTest
  <2>2. Reads("close") /\ Popped(kind) /\ Live
    BY <1>1, <2>1, EndReads
  <2>3. PICK at : Matched(at)
    BY <2>2 DEF Framed
  <2>4. \E less : Matched(less)'
    BY <1>1, <2>2, <2>3, MatchedCloses
  <2> QED
    BY <2>4 DEF Framed
<1>5. CASE StartTests \/ UNCHANGED vars
  <2>1. program' = program /\ visits' = visits /\ (Live' => Live)
    BY <1>5 DEF StartTests, vars, tree, Live
  <2>2. \A i, j : (Opened(i, j)' = Opened(i, j)) /\ (Closed(i, j)' = Closed(i, j))
    BY <2>1 DEF Opened, Closed
  <2>3. \A i, j : Inside(i, j)' <=> Inside(i, j)
    BY <2>2 DEF Inside
  <2>4. \A k, i : VisitedBy(k, i) => VisitedBy(k, i)'
    BY <2>1, <2>2, <2>3 DEF VisitedBy
  <2>5. ASSUME NEW at, Matched(at) PROVE Matched(at)'
    BY <2>1, <2>3, <2>4, <2>5 DEF Matched, Positions
  <2> QED
    BY <2>1, <2>5 DEF Framed
<1>6. CASE EndStep
  BY <1>6, EndSteps DEF Framed
<1> QED
  BY <1>2, <1>3, <1>4, <1>5, <1>6, StepIs

(***************************************************************************)
(* How the frames are arranged, kept by every step.                        *)
(***************************************************************************)
NoneOfTests == phase = "program" => \A i \in Positions : program[i] # "test"

LEMMA NoneReads ==
  ASSUME NEW s, Reads(s), phase' = phase, NoneOfTests, phase = "program" => s # "test"
  PROVE  NoneOfTests'
<1>1. PICK n : n = Len(program)
  OBVIOUS
<1>2. /\ n \in Nat /\ Positions = 1..n /\ Positions' = 1..(n + 1)
      /\ program'[n + 1] = s /\ \A k \in 1..n : program'[k] = program[k]
  BY <1>1, TextRead
<1>3. \A j \in 1..(n + 1) : j \in 1..n \/ j = n + 1
  BY <1>2
<1> QED
  BY <1>2, <1>3 DEF NoneOfTests

LEMMA ArrangedLeaf ==
  ASSUME Typed, NEW s, Leafs(s), Arranged
  PROVE  Arranged'
<1>1. Reads(s) /\ s \notin Owning /\ s # "func" /\ Live
  BY LeafReads
<1>2. s # "test" /\ visits' = visits /\ phase' = phase /\ exit' = exit /\ (insert' # 0 <=> insert # 0)
  BY <1>1 DEF Leafs, Owning
<1>3. NestedIn("func")' <=> NestedIn("func")
  BY <1>1, TextGrows
<1>4. Started' <=> Started
  BY <1>1, TextGrows
<1>5. NoneOfTests'
  BY <1>1, <1>2, NoneReads DEF Arranged, TestsFirst, NoneOfTests
<1>6. TestsFirst'
  BY <1>1, <1>2, <1>5 DEF Arranged, TestsFirst, NoneOfTests
<1>7. OneFunction'
  BY <1>1, <1>2, <1>3 DEF Arranged, OneFunction
<1>8. NestedOpen'
  BY <1>1, <1>2, <1>3 DEF Arranged, NestedOpen
<1> QED
  BY <1>1, <1>2, <1>4, <1>6, <1>7, <1>8 DEF Arranged

LEMMA ArrangedOpens ==
  ASSUME Inv, NEW s \in Bodies, Visit(s), Open(s), phase' = phase, Arranged, NEW at, Matched(at),
         s = "block" => exit' = exit /\ insert' = insert,
         s = "test" => exit' = exit /\ insert' # 0,
         s = "func" => exit' # 0 /\ insert' # 0
  PROVE  Arranged'
<1>1. Typed
  BY DEF Inv
<1>2. Reads(s) /\ Pushed(s) /\ Live
  BY <1>1, BodyReads
<1>3. PICK l : l = Len(visits)
  OBVIOUS
<1>4. /\ l \in Nat /\ DOMAIN visits = 1..l /\ l + 1 \in DOMAIN visits' /\ visits'[l + 1].kind = s
      /\ \A k \in DOMAIN visits : k \in DOMAIN visits' /\ visits'[k] = visits[k] /\ k < l + 1
      /\ \A k \in DOMAIN visits' : k \in DOMAIN visits \/ k = l + 1
  BY <1>2, <1>3, FramesOpen
<1>5. visits = <<>> => l = 0
  BY <1>3
<1>6. visits # <<>> => 1 \in DOMAIN visits
  <2>1. visits = <<>> <=> Len(visits) = 0
    BY <1>1, Elements DEF Typed
  <2> QED
    BY <1>3, <1>4, <2>1
<1>7. /\ s = "test" => phase = "tests" /\ visits = <<>>
      /\ phase = "tests" /\ visits = <<>> => s = "test"
      /\ phase = "program" => s # "test"
  BY DEF Visit
<1>8. NoneOfTests'
  BY <1>2, <1>7, NoneReads DEF Arranged, TestsFirst, NoneOfTests
<1>9. TestsFirst'
  <2>1. ASSUME phase' = "tests" PROVE visits'[1].kind = "test"
    <3>1. CASE visits = <<>>
      <4>1. l + 1 = 1 /\ s = "test"
        BY <1>5, <1>7, <2>1, <3>1
      <4> QED
        BY <1>4, <4>1
    <3>2. CASE visits # <<>>
      BY <1>2, <1>4, <1>6, <2>1, <3>2 DEF Arranged, TestsFirst
    <3> QED
      BY <3>1, <3>2
  <2>2. ASSUME NEW k \in DOMAIN visits', visits'[k].kind = "test" PROVE k = 1 /\ phase' = "tests"
    <3>1. CASE k \in DOMAIN visits
      BY <1>2, <1>4, <2>2, <3>1 DEF Arranged, TestsFirst
    <3>2. CASE k = l + 1
      <4>1. s = "test"
        BY <1>4, <2>2, <3>2
      <4> QED
        BY <1>5, <1>7, <3>2, <4>1
    <3> QED
      BY <1>4, <2>2, <3>1, <3>2
  <2> QED
    BY <1>8, <2>1, <2>2 DEF TestsFirst, NoneOfTests
<1>10. NestedIn("func")' <=> (NestedIn("func") \/ (s = "func" /\ HereIn("func")))
  BY <1>2, TextGrows
<1>11. OneFunction'
  <2>1. SUFFICES ASSUME ~ NestedIn("func")', NEW k \in DOMAIN visits', visits'[k].kind = "func"
                 PROVE  exit' # 0 /\ \A m \in DOMAIN visits' : visits'[m].kind = "func" => m = k
    BY DEF OneFunction
  <2>2. ~ NestedIn("func")
    BY <1>10, <2>1
  <2>3. CASE s = "func"
    <3>1. ~ HereIn("func")
      BY <1>10, <2>1, <2>3
    <3>2. ASSUME NEW m \in DOMAIN visits', visits'[m].kind = "func" PROVE m = l + 1
      <4>1. ASSUME m \in DOMAIN visits PROVE FALSE
        <5>1. exit # 0
          BY <1>2, <1>4, <2>2, <3>2, <4>1 DEF Arranged, OneFunction
        <5>2. exit # 0 => HereIn("func")
          BY <1>2, Modes
        <5> QED
          BY <3>1, <5>1, <5>2
      <4> QED
        BY <1>4, <3>2, <4>1
    <3>3. k = l + 1
      BY <2>1, <3>2
    <3> QED
      BY <2>3, <3>2, <3>3
  <2>4. CASE s # "func"
    <3>1. exit' = exit
      BY <2>4 DEF Bodies
    <3>2. \A m \in DOMAIN visits' : visits'[m].kind = "func" => m \in DOMAIN visits /\ visits[m].kind = "func"
      BY <1>4, <2>4
    <3>3. k \in DOMAIN visits /\ visits[k].kind = "func"
      BY <2>1, <3>2
    <3> QED
      BY <1>2, <2>2, <3>1, <3>2, <3>3 DEF Arranged, OneFunction
  <2> QED
    BY <2>3, <2>4
<1>12. NestedOpen'
  <2>1. SUFFICES ASSUME NestedIn("func")'
                 PROVE  \E k \in DOMAIN visits' :
                          visits'[k].kind = "func" /\
                            (exit' = 0 \/ \E m \in DOMAIN visits' : m > k /\ visits'[m].kind = "func")
    BY DEF NestedOpen
  <2>2. CASE s = "func"
    <3>1. PICK k \in DOMAIN visits : visits[k].kind = "func"
      <4>1. HereIn("func") => \E k \in DOMAIN visits : visits[k].kind = "func"
        BY <1>2, Modes
      <4>2. NestedIn("func") => \E k \in DOMAIN visits : visits[k].kind = "func"
        BY <1>2 DEF Arranged, NestedOpen
      <4> QED
        BY <1>10, <2>1, <4>1, <4>2
    <3>2. k \in DOMAIN visits' /\ visits'[k].kind = "func" /\ l + 1 > k
      BY <1>4, <3>1
    <3>3. l + 1 \in DOMAIN visits' /\ visits'[l + 1].kind = "func"
      BY <1>4, <2>2
    <3> QED
      BY <3>2, <3>3
  <2>3. CASE s # "func"
    <3>1. exit' = exit /\ NestedIn("func")
      BY <1>10, <2>1, <2>3 DEF Bodies
    <3>2. PICK k \in DOMAIN visits :
            visits[k].kind = "func" /\
              (exit = 0 \/ \E m \in DOMAIN visits : m > k /\ visits[m].kind = "func")
      BY <1>2, <3>1 DEF Arranged, NestedOpen
    <3>3. \A m \in DOMAIN visits : m \in DOMAIN visits' /\ visits'[m] = visits[m]
      BY <1>4
    <3> QED
      BY <3>1, <3>2, <3>3
  <2> QED
    BY <2>2, <2>3
<1>13. insert' # 0 <=> Started'
  <2>1. Started' <=> (Started \/ s \in Owning)
    BY <1>2, TextGrows
  <2>2. s = "block" => s \notin Owning
    BY DEF Owning
  <2>3. s # "block" => s \in Owning
    BY DEF Bodies, Owning
  <2>4. insert # 0 <=> Started
    BY <1>2 DEF Arranged
  <2> QED
    BY <2>1, <2>2, <2>3, <2>4 DEF Bodies
<1> QED
  BY <1>9, <1>11, <1>12, <1>13 DEF Arranged

LEMMA ArrangedCloses ==
  ASSUME Inv, NEW kind \in Bodies, Close(kind), phase' = phase, Arranged, NEW at, Matched(at),
         kind = "func" => exit # 0 /\ exit' = 0 /\ insert' # 0,
         kind # "func" => exit' = exit,
         kind # "func" => (insert # 0 => insert' # 0) /\ (insert' # 0 => insert # 0)
  PROVE  Arranged'
<1>1. Typed /\ Generating
  BY DEF Inv, Coded
<1>2. Reads("close") /\ Popped(kind) /\ Live
  BY <1>1, EndReads
<1>3. PICK l : l = Len(visits)
  OBVIOUS
<1>4. /\ l \in DOMAIN visits /\ visits[l].kind = kind /\ DOMAIN visits = 1..l /\ l \in Nat
      /\ visits # <<>>
      /\ \A k \in DOMAIN visits' : k \in DOMAIN visits /\ visits'[k] = visits[k] /\ k # l
      /\ \A k \in DOMAIN visits : k \in DOMAIN visits' \/ k = l
      /\ visits' # <<>> => 1 \in DOMAIN visits'
  BY <1>2, <1>3, FramesClose
<1>5. NoneOfTests'
  BY <1>2, NoneReads DEF Arranged, TestsFirst, NoneOfTests
<1>6. TestsFirst'
  BY <1>2, <1>4, <1>5 DEF Arranged, TestsFirst, NoneOfTests
<1>7. NestedIn("func")' <=> NestedIn("func")
  <2>1. \A k : NestedIn(k)' <=> (NestedIn(k) \/ ("close" = "func" /\ HereIn(k)))
    BY <1>2, TextGrows
  <2> QED
    BY <2>1
<1>8. OneFunction'
  <2>1. SUFFICES ASSUME ~ NestedIn("func")', NEW k \in DOMAIN visits', visits'[k].kind = "func"
                 PROVE  exit' # 0 /\ \A m \in DOMAIN visits' : visits'[m].kind = "func" => m = k
    BY DEF OneFunction
  <2>2. /\ k \in DOMAIN visits /\ visits[k].kind = "func" /\ exit # 0
        /\ \A m \in DOMAIN visits : visits[m].kind = "func" => m = k
    BY <1>2, <1>4, <1>7, <2>1 DEF Arranged, OneFunction
  <2>3. kind # "func"
    BY <1>4, <2>1, <2>2
  <2> QED
    BY <1>4, <2>2, <2>3
<1>9. NestedOpen'
  <2>1. SUFFICES ASSUME NestedIn("func")'
                 PROVE  \E k \in DOMAIN visits' :
                          visits'[k].kind = "func" /\
                            (exit' = 0 \/ \E m \in DOMAIN visits' : m > k /\ visits'[m].kind = "func")
    BY DEF NestedOpen
  <2>2. PICK k \in DOMAIN visits :
          visits[k].kind = "func" /\
            (exit = 0 \/ \E m \in DOMAIN visits : m > k /\ visits[m].kind = "func")
    BY <1>2, <1>7, <2>1 DEF Arranged, NestedOpen
  <2>3. CASE kind = "func"
    <3>1. PICK m \in DOMAIN visits : m > k
      BY <2>2, <2>3
    <3>2. k # l
      <4>1. m \in 1..l /\ k \in 1..l /\ m > k
        BY <1>4, <3>1
      <4> QED
        BY <1>4, <4>1
    <3>3. k \in DOMAIN visits' /\ visits'[k] = visits[k]
      BY <1>4, <3>2
    <3> QED
      BY <2>2, <2>3, <3>3
  <2>4. CASE kind # "func"
    <3>1. \A m \in DOMAIN visits : visits[m].kind = "func" => m \in DOMAIN visits' /\ visits'[m] = visits[m]
      BY <1>4, <2>4
    <3> QED
      BY <2>2, <2>4, <3>1
  <2> QED
    BY <2>3, <2>4
<1>10. insert' # 0 <=> Started'
  <2>1. Started' <=> Started
    <3>1. "close" \notin Owning
      BY DEF Owning
    <3> QED
      BY <1>2, <3>1, TextGrows
  <2>2. insert # 0 <=> Started
    BY <1>2 DEF Arranged
  <2>3. kind = "func" => insert # 0
    BY <1>1 DEF Generating
  <2> QED
    BY <2>1, <2>2, <2>3
<1> QED
  BY <1>6, <1>8, <1>9, <1>10 DEF Arranged

LEMMA ArrangedNext ==
  ASSUME Inv, Framed, Arranged, [Next]_vars
  PROVE  Arranged'
<1>1. Typed /\ Placed /\ Generating
  BY DEF Inv, Coded
<1>2. CASE LeafStep
  <2>1. PICK s : Leafs(s)
    BY <1>1, <1>2, LeafSteps
  <2> QED
    BY <1>1, <2>1, ArrangedLeaf
<1>3. /\ Len(blocks) \in Nat /\ Len(blocks) + 1 # 0 /\ Len(blocks) + 1 + 1 # 0
  BY <1>1, CodeNumbers
<1>4. CASE BeginBlock
  <2>1. /\ "block" \in Bodies /\ Visit("block") /\ Open("block") /\ phase' = phase
        /\ exit' = exit /\ insert' = insert
    BY <1>4 DEF BeginBlock, Bodies, context, code
  <2>2. PICK at : Matched(at)
    BY <1>1, <2>1, BodyReads DEF Framed
  <2> QED
    BY <2>1, <2>2, ArrangedOpens
<1>5. CASE BeginFunction
  <2>1. /\ "func" \in Bodies /\ Visit("func") /\ Open("func") /\ phase' = phase
        /\ exit' # 0 /\ insert' # 0
    BY <1>3, <1>5 DEF BeginFunction, Bodies
  <2>2. PICK at : Matched(at)
    BY <1>1, <2>1, BodyReads DEF Framed
  <2> QED
    BY <2>1, <2>2, ArrangedOpens
<1>6. CASE BeginTest
  <2>1. /\ "test" \in Bodies /\ Visit("test") /\ Open("test") /\ phase' = phase
        /\ exit' = exit /\ insert' # 0
    BY <1>3, <1>6 DEF BeginTest, Bodies, context
  <2>2. PICK at : Matched(at)
    BY <1>1, <2>1, BodyReads DEF Framed
  <2> QED
    BY <2>1, <2>2, ArrangedOpens
<1>7. CASE EndBlock
  <2>1. /\ "block" \in Bodies /\ Close("block") /\ phase' = phase
        /\ exit' = exit /\ insert' = insert
    BY <1>7 DEF EndBlock, Bodies, context, code
  <2>2. PICK at : Matched(at)
    BY <1>1, <2>1, EndReads DEF Framed
  <2> QED
    BY <2>1, <2>2, ArrangedCloses
<1>8. CASE EndFunction
  <2>1. /\ "func" \in Bodies /\ Close("func") /\ phase' = phase
        /\ exit # 0 /\ exit' = 0 /\ insert' = exit
    BY <1>8 DEF EndFunction, Bodies
  <2>2. PICK at : Matched(at)
    BY <1>1, <2>1, EndReads DEF Framed
  <2> QED
    BY <2>1, <2>2, ArrangedCloses
<1>9. CASE EndTest
  <2>1. /\ "test" \in Bodies /\ Close("test") /\ phase' = phase /\ exit' = exit
        /\ insert' = IF Node.oldInsert # 0 THEN Node.oldInsert ELSE insert
    BY <1>9 DEF EndTest, Bodies, context
  <2>2. PICK at : Matched(at)
    BY <1>1, <2>1, EndReads DEF Framed
  <2>3. Live /\ Popped("test")
    BY <1>1, <2>1, EndReads
  <2>4. insert # 0
    <3>1. Len(visits) \in DOMAIN visits /\ visits[Len(visits)].kind = "test"
      BY <2>3, FramesClose
    <3>2. at[Len(visits)] \in Positions /\ program[at[Len(visits)]] = "test"
      BY <2>2, <3>1 DEF Matched, VisitedBy
    <3>3. Started
      BY <3>2 DEF Started, Owning
    <3> QED
      BY <2>3, <3>3 DEF Arranged
  <2>5. insert' # 0
    BY <2>1, <2>4
  <2> QED
    BY <2>1, <2>2, <2>4, <2>5, ArrangedCloses
<1>10. CASE StartTests \/ UNCHANGED vars
  <2>1. /\ program' = program /\ visits' = visits /\ exit' = exit /\ insert' = insert
        /\ phase' = phase \/ (phase' = "tests" /\ visits = <<>> /\ phase = "program")
    BY <1>10 DEF StartTests, vars, tree, code, context
  <2>2. Live' => Live
    BY <2>1 DEF Live
  <2>3. /\ NestedIn("func")' <=> NestedIn("func")
        /\ Started' <=> Started
    BY <2>1, TextSame
  <2>4. Positions' = Positions
    BY <2>1, TextSame
  <2>5. SUFFICES ASSUME Live' PROVE TestsFirst' /\ OneFunction' /\ NestedOpen' /\ (insert' # 0 <=> Started')
    BY DEF Arranged
  <2>6. TestsFirst /\ OneFunction /\ NestedOpen /\ (insert # 0 <=> Started)
    BY <2>2, <2>5 DEF Arranged
  <2>7. TestsFirst'
    BY <2>1, <2>4, <2>6 DEF TestsFirst
  <2>8. OneFunction' /\ NestedOpen'
    BY <2>1, <2>3, <2>6 DEF OneFunction, NestedOpen
  <2> QED
    BY <2>1, <2>3, <2>6, <2>7, <2>8
<1>11. CASE EndStep
  BY <1>11, EndSteps DEF Arranged
<1> QED
  BY <1>2, <1>4, <1>5, <1>6, <1>7, <1>8, <1>9, <1>10, <1>11, StepIs

LEMMA AcceptedLeaf ==
  ASSUME Inv, NEW s, Leafs(s), Arranged, Accepted, NEW at, Matched(at)
  PROVE  ~ Throws' /\ ~ Astray' /\ ~ Early'
<1>1. Typed
  BY DEF Inv
<1>2. Reads(s) /\ Live /\ ~ Throws /\ ~ Astray /\ ~ Early
  BY <1>1, LeafReads DEF Accepted
<1>3. ~ Throws'
  <2>1. s # "assert other"
    BY DEF Leafs
  <2> QED
    BY <1>2, <2>1, TextGrows
<1>4. ~ Astray'
  <2>1. exit # 0 => HereIn("func")
    BY <1>2, Modes
  <2>2. s = "return" => exit # 0
    BY DEF Leafs
  <2>3. Astray' <=> (Astray \/ (s = "return" /\ ~ HereIn("func")))
    BY <1>2, TextGrows
  <2> QED
    BY <1>2, <2>1, <2>2, <2>3
<1>5. ~ Early'
  <2>1. SUFFICES ASSUME s \in {"let string", "let call", "print", "assert"}, Here = 0,
                        \A i \in Positions : program[i] # "func"
                 PROVE  FALSE
    <3>1. Early' <=> (Early \/ (/\ s \in {"let string", "let call", "print", "assert"} /\ Here = 0
                                /\ \A i \in Positions : program[i] # "func"))
      BY <1>2, TextGrows
    <3> QED
      BY <1>2, <3>1
  <2>2. insert # 0
    BY <2>1 DEF Leafs
  <2>3. PICK i \in Positions : program[i] \in Owning
    BY <1>2, <2>2 DEF Arranged, Started
  <2>4. program[i] = "test"
    BY <2>1, <2>3 DEF Owning
  <2>5. phase = "tests"
    BY <1>2, <2>4 DEF Arranged, TestsFirst, Live
  <2>6. visits # <<>>
    BY <2>1, <2>5 DEF Leafs, Visit
  <2>7. visits[1].kind = "test"
    BY <1>2, <2>5, <2>6 DEF Arranged, TestsFirst
  <2>8. 1 \in DOMAIN visits
    <3>1. visits = <<>> <=> Len(visits) = 0
      BY <1>1, Elements DEF Typed
    <3>2. Len(visits) \in Nat /\ DOMAIN visits = 1..Len(visits)
      BY <1>1, Elements DEF Typed
    <3> QED
      BY <2>6, <3>1, <3>2
  <2>9. ~ NoOwner
    BY <2>7, <2>8 DEF NoOwner, Owning
  <2>10. Here = 0 <=> NoOwner
    BY <1>2, Modes
  <2> QED
    BY <2>1, <2>9, <2>10
<1> QED
  BY <1>3, <1>4, <1>5

LEMMA AcceptedNext ==
  ASSUME Inv, Framed, Arranged, Accepted, [Next]_vars
  PROVE  Accepted'
<1>1. Typed
  BY DEF Inv
<1>2. CASE LeafStep
  <2>1. PICK s : Leafs(s)
    BY <1>1, <1>2, LeafSteps
  <2>2. Live
    BY <1>1, <2>1, LeafReads
  <2>3. PICK at : Matched(at)
    BY <2>2 DEF Framed
  <2>4. ~ Throws' /\ ~ Astray' /\ ~ Early'
    BY <2>1, <2>3, AcceptedLeaf
  <2> QED
    BY <2>4 DEF Accepted
<1>3. ASSUME NEW s, Reads(s), s \in Bodies \cup {"close"}, Live PROVE Accepted'
  <2>1. s \notin {"assert other", "return", "let string", "let call", "print", "assert"}
    BY <1>3 DEF Bodies
  <2>2. Throws' <=> Throws
    BY <1>3, <2>1, TextGrows
  <2>3. Astray' <=> (Astray \/ (s = "return" /\ ~ HereIn("func")))
    BY <1>3, TextGrows
  <2>4. Early' <=> (Early \/ (/\ s \in {"let string", "let call", "print", "assert"} /\ Here = 0
                              /\ \A i \in Positions : program[i] # "func"))
    BY <1>3, TextGrows
  <2> QED
    BY <1>3, <2>1, <2>2, <2>3, <2>4 DEF Accepted
<1>4. CASE BeginBlock \/ BeginFunction \/ BeginTest
  <2>1. PICK s \in Bodies : Visit(s) /\ Open(s)
    BY <1>4 DEF BeginBlock, BeginFunction, BeginTest, Bodies
  <2>2. Reads(s) /\ Live
    BY <1>1, <2>1, BodyReads
  <2> QED
    BY <1>3, <2>1, <2>2
<1>5. CASE EndBlock \/ EndFunction \/ EndTest
  <2>1. PICK kind : Close(kind)
    BY <1>5 DEF EndBlock, EndFunction, EndTest
  <2>2. Reads("close") /\ Live
    BY <1>1, <2>1, EndReads
  <2> QED
    BY <1>3, <2>2
<1>6. CASE StartTests \/ FinishTests \/ UNCHANGED vars
  <2>1. program' = program /\ (Live' \/ phase' = "entry" => Live \/ phase = "entry")
    BY <1>6 DEF StartTests, FinishTests, vars, tree, Live
  <2>2. /\ Throws' <=> Throws
        /\ Astray' <=> Astray
        /\ Early' <=> Early
    BY <2>1, TextSame
  <2> QED
    BY <2>1, <2>2 DEF Accepted
<1>7. CASE EndStep /\ ~ FinishTests
  <2>1. phase' \notin {"program", "tests", "entry"}
    BY <1>7 DEF EndStep, AssertOther, Undefined, FinishProgram, VerifyTests, verifyModule, Execute, Step
  <2> QED
    BY <2>1 DEF Accepted, Live
<1> QED
  BY <1>2, <1>4, <1>5, <1>6, <1>7, StepIs

(***************************************************************************)
(* The code.  A block that is left without a terminator stays so, unless   *)
(* the builder can come back to it.                                        *)
(***************************************************************************)
Stuck ==
  \E b \in DOMAIN blocks :
    /\ ~ HasTerminator(b) /\ b \notin {insert, exit}
    /\ \A k \in DOMAIN visits : visits[k].kind = "test" => visits[k].oldInsert # b
Bad == Broken \/ Stuck
Clean ==
  /\ ~ Broken
  /\ \A b \in DOMAIN blocks : b \notin {insert, exit} => HasTerminator(b)
  /\ Here # 0 => insert # 0
  /\ insert # 0 => (HasTerminator(insert) <=> (Here = 0 \/ Returned(Here)))
  /\ \A k \in DOMAIN visits :
       visits[k].kind = "test" /\ visits[k].oldInsert # 0 => HasTerminator(visits[k].oldInsert)
Refusable == NestedIn("test") \/ Loose \/ Late
Verdict == Live /\ ~ NestedIn("func") => IF Refusable THEN Bad ELSE Clean

LEMMA Tidy ==
  ASSUME NEW s \in Seq(Instructions), NEW is \in Seq(Instructions), is # <<>>,
         ~ Ends(s), ~ Overrun(s), ~ Overrun(is)
  PROVE  /\ ~ Overrun(s \o is)
         /\ Ends(s \o is) <=> Ends(is)
<1>1. PICK n, m : n = Len(s) /\ m = Len(is)
  OBVIOUS
<1>2. /\ n \in Nat /\ m \in Nat /\ m # 0 /\ DOMAIN s = 1..n /\ DOMAIN is = 1..m
  BY <1>1, Elements
<1>3. /\ s \o is \in Seq(Instructions)
      /\ Len(s \o is) = n + m /\ DOMAIN (s \o is) = 1..(n + m)
      /\ \A k \in 1..n : (s \o is)[k] = s[k]
      /\ \A k \in 1..m : (s \o is)[n + k] = is[k]
  BY <1>1, Joined
<1>4. PICK t : t = s \o is
  OBVIOUS
<1>5. \A k \in 1..n : s[k].op \notin Terminators
  BY <1>2, Longer
<1>6. m \in 1..m /\ n + m # 0
  BY <1>2
<1>7. t[Len(t)] = is[m] /\ t # <<>>
  <2>1. t[n + m] = is[m]
    BY <1>3, <1>4, <1>6
  <2>2. t = <<>> <=> Len(t) = 0
    BY <1>3, <1>4, Elements
  <2> QED
    BY <1>3, <1>4, <1>6, <2>1, <2>2
<1>8. Ends(t) <=> Ends(is)
  BY <1>1, <1>7 DEF Ends, Last
<1>9. ASSUME NEW k \in DOMAIN t, k # Len(t), t[k].op \in Terminators PROVE FALSE
  <2>1. k \in 1..(n + m) /\ k # n + m
    BY <1>3, <1>4, <1>9
  <2>2. CASE k \in 1..n
    BY <1>3, <1>4, <1>5, <1>9, <2>2
  <2>3. CASE k \notin 1..n
    <3>1. PICK j : j = k - n
      OBVIOUS
    <3>2. j \in 1..m /\ j # m /\ k = n + j
      BY <1>2, <2>1, <2>3, <3>1
    <3>3. t[k] = is[j]
      BY <1>3, <1>4, <3>2
    <3> QED
      BY <1>1, <1>2, <1>9, <3>2, <3>3 DEF Overrun
  <2> QED
    BY <2>2, <2>3
<1>10. ~ Overrun(t)
  BY <1>9 DEF Overrun
<1> QED
  BY <1>4, <1>8, <1>10

(* What every step does to the code: it adds to the block of the builder,  *)
(* and to the exit block; the builder moves to new blocks, to the exit     *)
(* block, or back to where a test began.                                   *)
TestFrame(k) == k \in DOMAIN visits /\ visits[k].kind = "test"
Working ==
  /\ Grown
  /\ \A b \in DOMAIN blocks : b \notin {insert, exit} => blocks'[b].code = blocks[b].code
  /\ exit' = exit \/ exit' \notin DOMAIN blocks
  /\ \/ insert' \in {insert, exit} \/ insert' \notin DOMAIN blocks
     \/ \E k : TestFrame(k) /\ insert' = visits[k].oldInsert
  /\ \A k \in DOMAIN visits' : visits'[k].kind = "test" =>
       visits'[k].oldInsert = insert \/ (TestFrame(k) /\ visits'[k].oldInsert = visits[k].oldInsert)

LEMMA StaysBad ==
  ASSUME Typed, Placed, Working, Bad
  PROVE  Bad'
<1>2. CASE Broken
  BY <1>2, GrownKeeps DEF Working, Bad
<1>3. CASE Stuck
  <2>1. PICK b \in DOMAIN blocks :
          /\ ~ HasTerminator(b) /\ b \notin {insert, exit}
          /\ \A k \in DOMAIN visits : visits[k].kind = "test" => visits[k].oldInsert # b
    BY <1>3 DEF Stuck
  <2>2. b \in DOMAIN blocks'
    BY <2>1, GrownNumbers DEF Working
  <2>3. blocks'[b].code = blocks[b].code
    BY <2>1 DEF Working
  <2>4. ~ (blocks'[b].code # <<>> /\ Last(blocks'[b].code).op \in Terminators)
    BY <2>1, <2>3 DEF HasTerminator
  <2>5. b \notin {insert', exit'}
    BY <2>1 DEF Working, TestFrame
  <2>6. \A k \in DOMAIN visits' : visits'[k].kind = "test" => visits'[k].oldInsert # b
    BY <2>1 DEF Working, TestFrame
  <2>7. Stuck'
    BY <2>2, <2>4, <2>5, <2>6 DEF Stuck, HasTerminator
  <2> QED
    BY <2>7 DEF Bad
<1> QED
  BY <1>2, <1>3 DEF Bad

(* The text, where the code is refused.                                    *)
LEMMA RefusableGrows ==
  ASSUME NEW s, Reads(s)
  PROVE  /\ Refusable' <=> \/ Refusable \/ (s = "func" /\ HereIn("test"))
                           \/ (CodeOf(s) /\ (Here = 0 \/ Returned(Here)))
         /\ NestedIn("func")' <=> (NestedIn("func") \/ (s = "func" /\ HereIn("func")))
         /\ \A q : Returned(q)' <=> (Returned(q) \/ (s = "return" /\ q = Here))
<1>1. \A kind : NestedIn(kind)' <=> (NestedIn(kind) \/ (s = "func" /\ HereIn(kind)))
  BY TextGrows
<1>2. /\ Loose' <=> (Loose \/ (CodeOf(s) /\ Here = 0))
      /\ Late' <=> (Late \/ (CodeOf(s) /\ Returned(Here)))
      /\ \A q : Returned(q)' <=> (Returned(q) \/ (s = "return" /\ q = Here))
  BY TextGrows
<1>3. NestedIn("test")' <=> (NestedIn("test") \/ (s = "func" /\ HereIn("test")))
  BY <1>1
<1>4. Refusable' <=> (NestedIn("test")' \/ Loose' \/ Late')
  BY DEF Refusable
<1> QED
  BY <1>1, <1>2, <1>3, <1>4 DEF Refusable

(***************************************************************************)
(* A statement that has code.                                              *)
(***************************************************************************)
AddsTo(s) ==
  /\ insert \in DOMAIN blocks /\ insert' # 0
  /\ Ends(blocks[insert].code) => Overrun(blocks'[insert].code)
  /\ ~ Ends(blocks[insert].code) /\ ~ Overrun(blocks[insert].code) =>
       /\ ~ Overrun(blocks'[insert].code)
       /\ Ends(blocks'[insert'].code) <=> s = "return"
       /\ insert' # insert => Ends(blocks'[insert].code)
Adds(s) ==
  /\ Grown /\ exit' = exit /\ visits' = visits
  /\ \A b \in DOMAIN blocks : b # insert => blocks'[b].code = blocks[b].code
  /\ \A b \in DOMAIN blocks' : b \notin DOMAIN blocks =>
       ~ Overrun(blocks'[b].code) /\ (b = insert' \/ Ends(blocks'[b].code))
  /\ insert' = insert \/ insert' \notin DOMAIN blocks
  /\ insert # 0 /\ AddsTo(s)

LEMMA AddsEmit ==
  ASSUME Inv, NEW s, NEW is \in Seq(Instructions), is # <<>>, ~ Overrun(is), Ends(is) <=> s = "return",
         insert # 0, Emit(is), exit' = exit, visits' = visits
  PROVE  Adds(s)
<1>1. Typed /\ Coded
  BY DEF Inv
<1>2. blocks' = Inserted(blocks, insert, is) /\ functions' = functions /\ insert' = insert
  BY DEF Emit
<1>3. PICK ext : /\ Writes(ext) /\ DOMAIN blocks' = DOMAIN blocks /\ Len(blocks') = Len(blocks)
                 /\ \A b \in DOMAIN blocks : ext[b] = IF b = insert THEN is ELSE <<>>
  BY <1>1, <1>2, Emission
<1>4. Grown /\ \A b \in DOMAIN blocks : ext[b] = <<>> => blocks'[b].code = blocks[b].code
  BY <1>1, <1>3, WritesGrow
<1>5. \A b \in DOMAIN blocks : b # insert => blocks'[b].code = blocks[b].code
  BY <1>3, <1>4
<1>7. AddsTo(s)
  <2>1. insert \in DOMAIN blocks
    <3>1. DOMAIN blocks = 1..Len(blocks) /\ insert \in 0..Len(blocks) /\ Len(blocks) \in Nat
      BY <1>1, CodeNumbers DEF Coded, Placed
    <3> QED
      BY <3>1
  <2>2. PICK c : c = blocks[insert].code
    OBVIOUS
  <2>3. c \in Seq(Instructions) /\ blocks'[insert].code = c \o is
    <3>1. blocks[insert].code \in Seq(Instructions)
      BY <1>1, <2>1, CodeNumbers
    <3>2. ext[insert] = is
      BY <1>3, <2>1
    <3> QED
      BY <1>3, <2>1, <2>2, <3>1, <3>2 DEF Writes
  <2>4. Ends(c) => Overrun(c \o is)
    BY <2>3, Longer
  <2>5. ~ Ends(c) /\ ~ Overrun(c) => ~ Overrun(c \o is) /\ (Ends(c \o is) <=> s = "return")
    BY <2>3, Tidy
  <2> QED
    BY <1>2, <2>1, <2>2, <2>3, <2>4, <2>5 DEF AddsTo
<1> QED
  BY <1>2, <1>3, <1>4, <1>5, <1>7 DEF Adds

LEMMA AddsAssert ==
  ASSUME Inv, AssertEqual
  PROVE  Adds("assert")
<1>1. Typed /\ Coded
  BY DEF Inv
<1>2. PICK fail, cont, f :
        fail = Len(blocks) + 1 /\ cont = Len(blocks) + 2 /\ f = blocks[insert].function
  OBVIOUS
<1>3. AssertBranches(fail, cont, f) /\ insert' = cont /\ functions' = functions /\ insert # 0
  BY <1>2 DEF AssertEqual, Failing, AssertBranches
<1>4. exit' = exit /\ visits' = visits
  BY DEF AssertEqual, context
<1>5. PICK ext : Asserts(fail, cont, ext)
  BY <1>1, <1>2, <1>3, AssertWrites
<1>6. /\ Writes(ext) /\ insert \in DOMAIN blocks /\ cont \notin DOMAIN blocks /\ cont # 0
      /\ DOMAIN blocks' = DOMAIN blocks \cup {fail, cont}
      /\ \A b \in DOMAIN blocks : b # insert => ext[b] = <<>>
      /\ ext[insert] # <<>> /\ ~ Overrun(ext[insert]) /\ Ends(ext[insert])
      /\ Ends(blocks'[fail].code) /\ ~ Overrun(blocks'[fail].code)
      /\ blocks'[cont].code = <<>> /\ Ends(blocks'[insert].code)
  <2>1. /\ Writes(ext) /\ insert \in DOMAIN blocks
        /\ DOMAIN blocks' = DOMAIN blocks \cup {fail, cont}
        /\ \A b \in DOMAIN blocks : b # insert => ext[b] = <<>>
        /\ ext[insert] # <<>> /\ ~ Overrun(ext[insert]) /\ Ends(ext[insert])
        /\ Ends(blocks'[fail].code) /\ ~ Overrun(blocks'[fail].code)
        /\ blocks'[cont].code = <<>> /\ Ends(blocks'[insert].code)
    BY <1>5 DEF Asserts
  <2>2. DOMAIN blocks = 1..Len(blocks) /\ Len(blocks) \in Nat
    BY <1>1, CodeNumbers
  <2>3. cont \notin DOMAIN blocks /\ cont # 0
    BY <1>2, <2>2
  <2> QED
    BY <2>1, <2>3
<1>7. Grown /\ \A b \in DOMAIN blocks : ext[b] = <<>> => blocks'[b].code = blocks[b].code
  BY <1>1, <1>6, WritesGrow
<1>8. \A b \in DOMAIN blocks : b # insert => blocks'[b].code = blocks[b].code
  BY <1>6, <1>7
<1>9. ~ Ends(<<>>) /\ ~ Overrun(<<>>)
  BY DEF Ends, Overrun
<1>10. ASSUME NEW b \in DOMAIN blocks', b \notin DOMAIN blocks
       PROVE  ~ Overrun(blocks'[b].code) /\ (b = insert' \/ Ends(blocks'[b].code))
  <2>1. CASE b = fail
    BY <1>6, <2>1
  <2>2. CASE b = cont
    BY <1>3, <1>6, <1>9, <2>2
  <2> QED
    BY <1>6, <1>10, <2>1, <2>2
<1>11. AddsTo("assert")
  <2>1. PICK c : c = blocks[insert].code
    OBVIOUS
  <2>2. /\ c \in Seq(Instructions) /\ ext[insert] \in Seq(Instructions)
        /\ blocks'[insert].code = c \o ext[insert]
    BY <1>1, <1>6, <2>1, CodeNumbers DEF Writes
  <2>3. Ends(c) => Overrun(c \o ext[insert])
    BY <1>6, <2>2, Longer
  <2>4. ~ Ends(c) /\ ~ Overrun(c) => ~ Overrun(c \o ext[insert])
    BY <1>6, <2>2, Tidy
  <2>5. ~ Ends(blocks'[insert'].code)
    BY <1>3, <1>6, <1>9
  <2> QED
    BY <1>3, <1>4, <1>6, <2>1, <2>2, <2>3, <2>4, <2>5 DEF AddsTo
<1> QED
  BY <1>3, <1>4, <1>6, <1>7, <1>8, <1>10, <1>11 DEF Adds

Emitting(s) ==
  \/ s \in {"let call", "print", "assert", "return"}
  \/ s \in {"let", "let string", "let large"} /\ exit # 0

LEMMA SingleInstruction ==
  ASSUME NEW i \in Instructions
  PROVE  /\ <<i>> \in Seq(Instructions) /\ <<i>> # <<>> /\ ~ Overrun(<<i>>)
         /\ Ends(<<i>>) <=> i.op \in Terminators
<1>1. <<i>> \in Seq(Instructions) /\ <<i>> # <<>> /\ DOMAIN <<i>> = {1} /\ <<i>>[1] = i /\ Len(<<i>>) = 1
  OBVIOUS
<1> QED
  BY <1>1 DEF Overrun, Ends, Last

LEMMA LeafWrites ==
  ASSUME Inv, LeafStep
  PROVE  \E s : Leafs(s) /\ IF Emitting(s) THEN Adds(s) ELSE UNCHANGED code
<1>1. Typed /\ InsideFunction = (exit # 0) /\ (exit # 0 => insert # 0)
  BY DEF Inv, Coded, Placed, Generating
<1>2. PICK s : Leafs(s)
  BY <1>1, LeafSteps
<1>3. \A t : Leafs(t) => exit' = exit /\ visits' = visits
  BY DEF Leafs
<1>4. Other \in Instructions /\ Other.op \notin Terminators
  BY DEF Other, Instruction, Instructions, Operations, Terminators
<1>5. /\ <<Other>> \in Seq(Instructions) /\ <<Other>> # <<>> /\ ~ Overrun(<<Other>>)
      /\ ~ Ends(<<Other>>)
  BY <1>4, SingleInstruction
<1>6. \A t : insert # 0 /\ Emit(<<Other>>) /\ exit' = exit /\ visits' = visits /\ t # "return" => Adds(t)
  BY <1>5, AddsEmit
<1>7. /\ exit' = exit /\ visits' = visits
  BY <1>2, <1>3
<1>8. CASE Let
  <2>1. Leafs("let")
    BY <1>2, <1>7, <1>8 DEF Let, Leafs, Leaves, Emit, code
  <2>2. IF Emitting("let") THEN Adds("let") ELSE UNCHANGED code
    BY <1>1, <1>6, <1>7, <1>8 DEF Let, Emitting
  <2> QED
    BY <2>1, <2>2
<1>15. CASE LetString
  <2>1. Leafs("let string")
    BY <1>2, <1>7, <1>15 DEF LetString, Leafs, Leaves, Emit, code
  <2>2. IF Emitting("let string") THEN Adds("let string") ELSE UNCHANGED code
    BY <1>1, <1>6, <1>7, <1>15 DEF LetString, Emitting
  <2> QED
    BY <2>1, <2>2
<1>9. CASE LetCall
  <2>1. Leafs("let call")
    BY <1>7, <1>9 DEF LetCall, Leafs, Leaves, Emit
  <2>2. Emitting("let call") /\ Adds("let call")
    BY <1>6, <1>7, <1>9 DEF LetCall, Emitting
  <2> QED
    BY <2>1, <2>2
<1>10. CASE LetLarge
  <2>1. PICK v : v = Len(program) + 1
    OBVIOUS
  <2>2. PICK i : i = Instruction("malloc", {v})
    OBVIOUS
  <2>3. IF InsideFunction THEN Emit(<<i>>) ELSE UNCHANGED code
    BY <1>10, <2>1, <2>2 DEF LetLarge
  <2>4. Leafs("let large")
    <3>1. insert' = insert
      BY <2>3 DEF Emit, code
    <3> QED
      BY <1>7, <1>10, <3>1 DEF LetLarge, Leafs, Leaves
  <2>5. v \in Nat
    <3>1. Len(program) \in Nat
      BY <1>1, Elements DEF Typed
    <3> QED
      BY <2>1, <3>1
  <2>6. i \in Instructions /\ i.op \notin Terminators
    BY <2>2, <2>5 DEF Instruction, Instructions, Operations, Terminators
  <2>7. <<i>> \in Seq(Instructions) /\ <<i>> # <<>> /\ ~ Overrun(<<i>>) /\ ~ Ends(<<i>>)
    BY <2>6, SingleInstruction
  <2>8. insert # 0 /\ Emit(<<i>>) => Adds("let large")
    BY <1>7, <2>7, AddsEmit
  <2>9. IF Emitting("let large") THEN Adds("let large") ELSE UNCHANGED code
    BY <1>1, <2>3, <2>8 DEF Emitting
  <2> QED
    BY <2>4, <2>9
<1>11. CASE PrintValues
  <2>1. Leafs("print")
    BY <1>7, <1>11 DEF PrintValues, Leafs, Leaves, Emit
  <2>2. Emitting("print") /\ Adds("print")
    BY <1>6, <1>7, <1>11 DEF PrintValues, Emitting
  <2> QED
    BY <2>1, <2>2
<1>12. CASE AssertEqual
  <2>1. insert' = Len(blocks) + 2 /\ insert # 0 /\ Len(blocks) + 2 # 0
    BY <1>1, <1>12, CodeNumbers DEF AssertEqual
  <2>2. Leafs("assert")
    BY <1>7, <1>12, <2>1 DEF AssertEqual, Leafs, Leaves
  <2>3. Emitting("assert") /\ Adds("assert")
    BY <1>12, AddsAssert DEF Emitting
  <2> QED
    BY <2>2, <2>3
<1>13. CASE If
  <2>1. Leafs("if")
    BY <1>7, <1>13 DEF If, Leafs, Leaves, code
  <2>2. ~ Emitting("if") /\ UNCHANGED code
    BY <1>13 DEF If, Emitting
  <2> QED
    BY <2>1, <2>2
<1>14. CASE Return
  <2>1. PICK value \in Values : Emit(<<Instruction("store", value), Br(exit)>>)
    BY <1>14 DEF Return
  <2>2. Leafs("return")
    BY <1>7, <1>14, <2>1 DEF Return, Leafs, Leaves, Emit
  <2>3. value \in SUBSET Nat
    BY ValuesAreSets
  <2>4. PICK x, y : x = Instruction("store", value) /\ y = Br(exit)
    OBVIOUS
  <2>5. x \in Instructions /\ y \in Instructions /\ x.op \notin Terminators /\ y.op \in Terminators
    BY <1>1, <2>3, <2>4 DEF Instruction, Instructions, Operations, Terminators, Br, Typed
  <2>6. /\ <<x, y>> \in Seq(Instructions) /\ <<x, y>> # <<>> /\ DOMAIN <<x, y>> = {1, 2}
        /\ <<x, y>>[1] = x /\ <<x, y>>[2] = y /\ Len(<<x, y>>) = 2
    BY <2>5
  <2>10. insert # 0
    BY <1>1, <1>14 DEF Return
  <2>7. ~ Overrun(<<x, y>>) /\ Ends(<<x, y>>)
    BY <2>5, <2>6 DEF Overrun, Ends, Last
  <2>8. Adds("return")
    BY <1>1, <1>7, <2>10, <2>1, <2>4, <2>6, <2>7, AddsEmit
  <2>9. Emitting("return")
    BY DEF Emitting
  <2> QED
    BY <2>2, <2>8, <2>9
<1> QED
  BY <1>8, <1>9, <1>10, <1>11, <1>12, <1>13, <1>14, <1>15 DEF LeafStep

(***************************************************************************)
(* The verdict, kept by every step.                                        *)
(***************************************************************************)
LEMMA VerdictSame ==
  ASSUME Verdict, Live' => Live, NestedIn("func") => NestedIn("func")',
         Refusable' <=> Refusable, Here' = Here, Returned(Here)' <=> Returned(Here),
         UNCHANGED <<code, exit>>,
         \A k \in DOMAIN visits' : visits'[k].kind = "test" =>
           TestFrame(k) /\ visits'[k].oldInsert = visits[k].oldInsert,
         \A k \in DOMAIN visits : visits[k].kind = "test" =>
           k \in DOMAIN visits' /\ visits'[k].kind = "test"
  PROVE  Verdict'
<1>1. blocks' = blocks /\ insert' = insert /\ exit' = exit
  BY DEF code
<1>2. \A b : HasTerminator(b)' <=> (blocks[b].code # <<>> /\ Last(blocks[b].code).op \in Terminators)
  BY <1>1 DEF HasTerminator
<1>3. \A b : HasTerminator(b) <=> (blocks[b].code # <<>> /\ Last(blocks[b].code).op \in Terminators)
  BY DEF HasTerminator
<1>4. \A b : HasTerminator(b)' <=> HasTerminator(b)
  BY <1>2, <1>3
<1>5. HasTerminator(insert)' <=> HasTerminator(insert)
  BY <1>1 DEF HasTerminator
<1>6. Broken' <=> Broken
  BY <1>1 DEF Broken, Overrun
<1>7. ASSUME Bad PROVE Bad'
  <2>1. ASSUME Stuck PROVE Stuck'
    <3>1. PICK b \in DOMAIN blocks :
            /\ ~ HasTerminator(b) /\ b \notin {insert, exit}
            /\ \A k \in DOMAIN visits : visits[k].kind = "test" => visits[k].oldInsert # b
      BY <2>1 DEF Stuck
    <3>2. ~ (blocks'[b].code # <<>> /\ Last(blocks'[b].code).op \in Terminators)
      BY <1>1, <3>1 DEF HasTerminator
    <3>3. \A k \in DOMAIN visits' : visits'[k].kind = "test" => visits'[k].oldInsert # b
      BY <3>1 DEF TestFrame
    <3> QED
      BY <1>1, <3>1, <3>2, <3>3 DEF Stuck, HasTerminator
  <2> QED
    BY <1>1, <1>6, <1>7, <2>1 DEF Bad
<1>8. ASSUME Clean PROVE Clean'
  <2>1. ~ Broken'
    BY <1>1, <1>6, <1>8 DEF Clean
  <2>2. \A b \in DOMAIN blocks' : b \notin {insert', exit'} => HasTerminator(b)'
    BY <1>1, <1>4, <1>8 DEF Clean
  <2>3. Here' # 0 => insert' # 0
    BY <1>1, <1>8 DEF Clean
  <2>4. insert' # 0 => (HasTerminator(insert)' <=> (Here' = 0 \/ Returned(Here)'))
    BY <1>1, <1>5, <1>8 DEF Clean
  <2>5. ASSUME NEW k \in DOMAIN visits', visits'[k].kind = "test", visits'[k].oldInsert # 0
        PROVE  HasTerminator(visits[k].oldInsert)'
    <3>1. k \in DOMAIN visits /\ visits[k].kind = "test" /\ visits'[k].oldInsert = visits[k].oldInsert
      BY <2>5 DEF TestFrame
    <3>2. HasTerminator(visits[k].oldInsert)
      BY <1>8, <2>5, <3>1 DEF Clean
    <3> QED
      BY <1>1, <3>1, <3>2 DEF HasTerminator
  <2> QED
    BY <2>1, <2>2, <2>3, <2>4, <2>5 DEF Clean
<1> QED
  BY <1>7, <1>8 DEF Verdict

LEMMA AddsWorking ==
  ASSUME NEW s, Adds(s), Typed
  PROVE  Working
<1>1. /\ Grown /\ exit' = exit /\ visits' = visits
      /\ \A b \in DOMAIN blocks : b # insert => blocks'[b].code = blocks[b].code
      /\ insert' = insert \/ insert' \notin DOMAIN blocks
  BY DEF Adds
<1> QED
  BY <1>1 DEF Working, TestFrame

(* Code where it is refused.                                               *)
LEMMA AddsBad ==
  ASSUME NEW s, Adds(s), Clean, Here = 0 \/ Returned(Here)
  PROVE  Bad'
<1>1. insert # 0
  BY DEF Adds
<1>2. Ends(blocks[insert].code)
  BY <1>1 DEF Clean, HasTerminator, Ends
<1>3. insert \in DOMAIN blocks /\ Overrun(blocks'[insert].code)
  BY <1>2 DEF Adds, AddsTo
<1>4. insert \in DOMAIN blocks'
  BY <1>3 DEF Adds, Grown
<1>5. Broken'
  BY <1>3, <1>4 DEF Broken
<1> QED
  BY <1>5 DEF Bad

LEMMA OldBlocks ==
  ASSUME Inv, NEW k \in DOMAIN visits, visits[k].oldInsert # 0
  PROVE  visits[k].oldInsert \in DOMAIN blocks
<1>1. visits[k].oldInsert \in 0..Len(blocks)
  BY DEF Inv, Scoped, Frames
<1>2. DOMAIN blocks = 1..Len(blocks) /\ Len(blocks) \in Nat
  BY CodeNumbers DEF Inv
<1> QED
  BY <1>1, <1>2

(* Code where it belongs.                                                  *)
LEMMA AddsClean ==
  ASSUME Inv, NEW s, Adds(s), Clean, Here # 0, ~ Returned(Here), Here' = Here,
         Returned(Here)' <=> s = "return"
  PROVE  Clean'
<1>1. /\ insert # 0 /\ ~ HasTerminator(insert) /\ ~ Broken
      /\ \A b \in DOMAIN blocks : b \notin {insert, exit} => HasTerminator(b)
  BY DEF Clean
<1>2. /\ Grown /\ exit' = exit /\ visits' = visits /\ AddsTo(s)
      /\ \A b \in DOMAIN blocks : b # insert => blocks'[b].code = blocks[b].code
      /\ \A b \in DOMAIN blocks' : b \notin DOMAIN blocks =>
           ~ Overrun(blocks'[b].code) /\ (b = insert' \/ Ends(blocks'[b].code))
  BY <1>1 DEF Adds
<1>3. ~ Ends(blocks[insert].code)
  BY <1>1 DEF HasTerminator, Ends
<1>4. ~ Overrun(blocks[insert].code) /\ insert \in DOMAIN blocks
  BY <1>1, <1>2 DEF Broken, AddsTo
<1>5. /\ insert' # 0
      /\ ~ Overrun(blocks'[insert].code)
      /\ Ends(blocks'[insert'].code) <=> s = "return"
      /\ insert' # insert => Ends(blocks'[insert].code)
  BY <1>2, <1>3, <1>4 DEF AddsTo
<1>6. ~ Broken'
  <2>1. ASSUME NEW b \in DOMAIN blocks', Overrun(blocks'[b].code) PROVE FALSE
    <3>1. b \in DOMAIN blocks
      BY <1>2, <2>1
    <3>2. b # insert
      BY <1>5, <2>1
    <3>3. blocks'[b].code = blocks[b].code
      BY <1>2, <3>1, <3>2
    <3>4. Overrun(blocks[b].code)
      BY <2>1, <3>3
    <3> QED
      BY <1>1, <3>1, <3>4 DEF Broken
  <2> QED
    BY <2>1 DEF Broken
<1>7. ASSUME NEW b \in DOMAIN blocks', b \notin {insert', exit'} PROVE Ends(blocks'[b].code)
  <2>1. CASE b \notin DOMAIN blocks
    BY <1>2, <1>7, <2>1
  <2>2. CASE b = insert
    BY <1>5, <1>7, <2>2
  <2>3. CASE b \in DOMAIN blocks /\ b # insert
    <3>1. HasTerminator(b)
      BY <1>1, <1>2, <1>7, <2>3
    <3>2. blocks'[b].code = blocks[b].code
      BY <1>2, <2>3
    <3> QED
      BY <3>1, <3>2 DEF HasTerminator, Ends
  <2> QED
    BY <2>1, <2>2, <2>3
<1>8. ASSUME NEW k \in DOMAIN visits', visits'[k].kind = "test", visits'[k].oldInsert # 0
      PROVE  Ends(blocks'[visits'[k].oldInsert].code)
  <2>1. PICK o : o = visits[k].oldInsert
    OBVIOUS
  <2>2. k \in DOMAIN visits /\ visits'[k].oldInsert = o /\ HasTerminator(o)
    BY <1>2, <1>8, <2>1 DEF Clean
  <2>3. o # insert
    BY <1>1, <2>2
  <2>4. CASE o \in DOMAIN blocks
    <3>1. blocks'[o].code = blocks[o].code
      BY <1>2, <2>3, <2>4
    <3> QED
      BY <2>2, <3>1 DEF HasTerminator, Ends
  <2>5. o \in DOMAIN blocks
    BY <1>8, <2>1, <2>2, OldBlocks
  <2> QED
    BY <2>4, <2>5
<1>9. HasTerminator(insert)' <=> Ends(blocks'[insert'].code)
  BY DEF HasTerminator, Ends
<1>10. Here' # 0 => insert' # 0
  BY <1>5
<1>11. insert' # 0 => (HasTerminator(insert)' <=> (Here' = 0 \/ Returned(Here)'))
  BY <1>5, <1>9
<1>12. \A b \in DOMAIN blocks' : b \notin {insert', exit'} => HasTerminator(b)'
  BY <1>7 DEF HasTerminator, Ends
<1>13. \A k \in DOMAIN visits' : visits'[k].kind = "test" /\ visits'[k].oldInsert # 0
         => HasTerminator(visits[k].oldInsert)'
  BY <1>8 DEF HasTerminator, Ends
<1> QED
  BY <1>1, <1>5, <1>6, <1>10, <1>11, <1>12, <1>13 DEF Clean

LEMMA VerdictLeaf ==
  ASSUME Inv, Arranged, Verdict, LeafStep, NEW at, Matched(at)
  PROVE  Verdict'
<1>1. Typed /\ Placed
  BY DEF Inv, Coded
<1>2. PICK s : Leafs(s) /\ IF Emitting(s) THEN Adds(s) ELSE UNCHANGED code
  BY LeafWrites
<1>3. /\ Reads(s) /\ s # "close" /\ s \notin Owning /\ Live /\ s # "func"
      /\ visits' = visits /\ exit' = exit /\ phase' = phase
  BY <1>1, <1>2, LeafReads DEF Leafs
<1>4. Here' = Here
  BY <1>3, HereStays
<1>5. /\ Refusable' <=> (Refusable \/ (CodeOf(s) /\ (Here = 0 \/ Returned(Here))))
      /\ NestedIn("func")' <=> NestedIn("func")
      /\ \A q : Returned(q)' <=> (Returned(q) \/ (s = "return" /\ q = Here))
  BY <1>3, RefusableGrows
<1>6. Returned(Here)' <=> (Returned(Here) \/ s = "return")
  <2>1. PICK h : h = Here
    OBVIOUS
  <2>2. Returned(h)' <=> (Returned(h) \/ (s = "return" /\ h = Here))
    BY <1>5
  <2>3. Here' = h
    BY <1>4, <2>1
  <2>4. Returned(Here)' <=> Returned(h)'
    BY <2>3 DEF Returned
  <2> QED
    BY <2>1, <2>2, <2>4
<1>7. SUFFICES ASSUME ~ NestedIn("func")' PROVE Verdict'
  BY DEF Verdict
<1>8. ~ NestedIn("func")
  BY <1>5, <1>7
<1>9. CodeOf(s) <=> Emitting(s)
  <2>1. exit # 0 <=> HereIn("func")
    BY <1>3, <1>8, Modes
  <2> QED
    BY <2>1 DEF CodeOf, Emitting
<1>10. CASE ~ CodeOf(s)
  <2>1. UNCHANGED code /\ s # "return"
    BY <1>2, <1>9, <1>10 DEF CodeOf
  <2>2. Refusable' <=> Refusable
    BY <1>5, <1>10
  <2>3. Returned(Here)' <=> Returned(Here)
    BY <1>6, <2>1
  <2>4. UNCHANGED <<code, exit>>
    BY <1>3, <2>1
  <2>5. /\ \A k \in DOMAIN visits' : visits'[k].kind = "test" =>
             TestFrame(k) /\ visits'[k].oldInsert = visits[k].oldInsert
        /\ \A k \in DOMAIN visits : visits[k].kind = "test" =>
             k \in DOMAIN visits' /\ visits'[k].kind = "test"
    BY <1>3 DEF TestFrame
  <2> QED
    BY <1>3, <1>4, <1>5, <2>2, <2>3, <2>4, <2>5, VerdictSame
<1>11. CASE CodeOf(s)
  <2>1. Adds(s)
    BY <1>2, <1>9, <1>11
  <2>2. CASE Refusable
    <3>1. Bad
      BY <1>3, <1>8, <2>2 DEF Verdict
    <3>2. Bad'
      BY <1>1, <2>1, <3>1, AddsWorking, StaysBad
    <3>3. Refusable'
      BY <1>5, <2>2
    <3> QED
      BY <3>2, <3>3 DEF Verdict
  <2>3. CASE ~ Refusable
    <3>1. Clean
      BY <1>3, <1>8, <2>3 DEF Verdict
    <3>2. CASE Here = 0 \/ Returned(Here)
      <4>1. Bad'
        BY <2>1, <3>1, <3>2, AddsBad
      <4>2. Refusable'
        BY <1>5, <1>11, <3>2
      <4> QED
        BY <4>1, <4>2 DEF Verdict
    <3>3. CASE Here # 0 /\ ~ Returned(Here)
      <4>1. Returned(Here)' <=> s = "return"
        BY <1>6, <3>3
      <4>2. Clean'
        BY <1>4, <2>1, <3>1, <3>3, <4>1, AddsClean
      <4>3. ~ Refusable'
        BY <1>5, <2>3, <3>3
      <4> QED
        BY <4>2, <4>3 DEF Verdict
    <3> QED
      BY <3>2, <3>3
  <2> QED
    BY <2>2, <2>3
<1> QED
  BY <1>10, <1>11

LEMMA VerdictBlock ==
  ASSUME Inv, Verdict, BeginBlock \/ EndBlock, NEW at, Matched(at)
  PROVE  Verdict'
<1>1. Typed
  BY DEF Inv
<1>2. UNCHANGED <<code, exit>> /\ phase' = phase
  BY DEF BeginBlock, EndBlock, context
<1>3. \E s : /\ Reads(s) /\ s \notin {"func", "return"} /\ ~ CodeOf(s) /\ Here' = Here /\ Live
             /\ \A k \in DOMAIN visits' : visits'[k].kind = "test" =>
                  TestFrame(k) /\ visits'[k].oldInsert = visits[k].oldInsert
             /\ \A k \in DOMAIN visits : visits[k].kind = "test" =>
                  k \in DOMAIN visits' /\ visits'[k].kind = "test"
  <2>1. CASE BeginBlock
    <3>1. "block" \in Bodies /\ Visit("block") /\ Open("block")
      BY <2>1 DEF BeginBlock, Bodies
    <3>2. Reads("block") /\ Pushed("block") /\ Live
      BY <1>1, <3>1, BodyReads
    <3>3. Here' = Here
      BY <3>2, HereStays DEF Owning
    <3>4. /\ \A k \in DOMAIN visits' : visits'[k].kind = "test" =>
               TestFrame(k) /\ visits'[k].oldInsert = visits[k].oldInsert
          /\ \A k \in DOMAIN visits : visits[k].kind = "test" =>
               k \in DOMAIN visits' /\ visits'[k].kind = "test"
      BY <3>2, FramesOpen DEF TestFrame
    <3>5. ~ CodeOf("block")
      BY DEF CodeOf
    <3> QED
      BY <3>2, <3>3, <3>4, <3>5
  <2>2. CASE EndBlock
    <3>1. Close("block")
      BY <2>2 DEF EndBlock
    <3>2. Reads("close") /\ Popped("block") /\ Live
      BY <1>1, <3>1, EndReads
    <3>3. Here' = Here
      BY <3>2, HereCloses
    <3>4. /\ \A k \in DOMAIN visits' : visits'[k].kind = "test" =>
               TestFrame(k) /\ visits'[k].oldInsert = visits[k].oldInsert
          /\ \A k \in DOMAIN visits : visits[k].kind = "test" =>
               k \in DOMAIN visits' /\ visits'[k].kind = "test"
      BY <3>2, FramesClose DEF TestFrame
    <3>5. ~ CodeOf("close")
      BY DEF CodeOf
    <3> QED
      BY <3>2, <3>3, <3>4, <3>5
  <2> QED
    BY <2>1, <2>2
<1>4. PICK s : /\ Reads(s) /\ s \notin {"func", "return"} /\ ~ CodeOf(s) /\ Here' = Here /\ Live
               /\ \A k \in DOMAIN visits' : visits'[k].kind = "test" =>
                    TestFrame(k) /\ visits'[k].oldInsert = visits[k].oldInsert
               /\ \A k \in DOMAIN visits : visits[k].kind = "test" =>
                    k \in DOMAIN visits' /\ visits'[k].kind = "test"
  BY <1>3
<1>5. /\ Refusable' <=> Refusable
      /\ NestedIn("func")' <=> NestedIn("func")
      /\ \A q : Returned(q)' <=> Returned(q)
  BY <1>4, RefusableGrows
<1>6. Returned(Here)' <=> Returned(Here)
  <2>1. PICK h : h = Here
    OBVIOUS
  <2>2. Returned(h)' <=> Returned(h)
    BY <1>5
  <2>3. Returned(Here)' <=> Returned(h)'
    BY <1>4, <2>1 DEF Returned
  <2> QED
    BY <2>1, <2>2, <2>3
<1> QED
  BY <1>2, <1>4, <1>5, <1>6, VerdictSame

LEMMA VerdictIdle ==
  ASSUME Verdict, StartTests \/ UNCHANGED vars
  PROVE  Verdict'
<1>1. /\ program' = program /\ visits' = visits /\ UNCHANGED <<code, exit>>
      /\ Live' => Live
  BY DEF StartTests, vars, tree, context, Live
<1>2. /\ Refusable' <=> Refusable
      /\ NestedIn("func")' <=> NestedIn("func")
      /\ \A q : Returned(q)' <=> Returned(q)
      /\ Here' = Here
  <2>1. /\ \A kind : NestedIn(kind)' <=> NestedIn(kind)
        /\ Loose' <=> Loose
        /\ Late' <=> Late
        /\ \A q : Returned(q)' <=> Returned(q)
        /\ Here' = Here
    BY <1>1, TextSame
  <2>2. NestedIn("test")' <=> NestedIn("test")
    BY <2>1
  <2>3. Refusable' <=> Refusable
    BY <2>1, <2>2 DEF Refusable
  <2> QED
    BY <2>1, <2>3
<1>3. Returned(Here)' <=> Returned(Here)
  <2>1. PICK h : h = Here
    OBVIOUS
  <2>2. Returned(h)' <=> Returned(h)
    BY <1>2
  <2>3. Returned(Here)' <=> Returned(h)'
    BY <1>2, <2>1 DEF Returned
  <2> QED
    BY <2>1, <2>2, <2>3
<1>4. /\ \A k \in DOMAIN visits' : visits'[k].kind = "test" =>
           TestFrame(k) /\ visits'[k].oldInsert = visits[k].oldInsert
      /\ \A k \in DOMAIN visits : visits[k].kind = "test" =>
           k \in DOMAIN visits' /\ visits'[k].kind = "test"
  BY <1>1 DEF TestFrame
<1> QED
  BY <1>1, <1>2, <1>3, <1>4, VerdictSame

(***************************************************************************)
(* A function or a test begins.                                            *)
(***************************************************************************)
Begins ==
  /\ Grown
  /\ \A b \in DOMAIN blocks : blocks'[b].code = blocks[b].code
  /\ insert' # 0 /\ insert' \in DOMAIN blocks' /\ insert' \notin DOMAIN blocks
  /\ exit' = exit \/ exit' \notin DOMAIN blocks
  /\ \A b \in DOMAIN blocks' : b \notin DOMAIN blocks =>
       blocks'[b].code = <<>> /\ b \in {insert', exit'}

LEMMA FunctionBegins ==
  ASSUME Inv, BeginFunction
  PROVE  Begins
<1>1. PICK f, entry : f = Len(functions) + 1 /\ entry = Len(blocks) + 1
  OBVIOUS
<1>2. PICK name \in FunctionNames : Create(name, entry)
  BY <1>1 DEF BeginFunction
<1>3. /\ blocks' = blocks \o <<NewBlock(f), NewBlock(f)>> /\ insert' = entry /\ exit' = entry + 1
      /\ InsideFunction' = TRUE
  BY <1>1 DEF BeginFunction
<1>4. /\ blocks \in Seq(BlockSet) /\ Len(blocks) \in Nat /\ DOMAIN blocks = 1..Len(blocks)
      /\ Len(functions) \in Nat /\ Typed /\ Coded
  BY CodeNumbers DEF Inv, Typed
<1>5. Grown
  BY <1>1, <1>2, <1>3, <1>4, FunctionCoded DEF Quiet
<1>6. PICK y : y = NewBlock(f)
  OBVIOUS
<1>7. y \in BlockSet /\ y.code = <<>>
  BY <1>1, <1>4, <1>6, AssertBlocks
<1>8. blocks' = blocks \o <<y, y>>
  BY <1>3, <1>6
<1>9. /\ DOMAIN blocks' = DOMAIN blocks \cup {Len(blocks) + 1, Len(blocks) + 2}
      /\ \A k \in DOMAIN blocks : blocks'[k] = blocks[k]
      /\ blocks'[Len(blocks) + 1] = y /\ blocks'[Len(blocks) + 2] = y
  BY <1>4, <1>7, <1>8, JoinedTwo
<1>10. PICK n : n = Len(blocks)
  OBVIOUS
<1>11. n \in Nat /\ entry = n + 1 /\ entry + 1 = n + 2
  BY <1>1, <1>4, <1>10
<1>12. entry # 0 /\ entry \notin 1..n /\ entry + 1 \notin 1..n
  BY <1>11
<1>13. \A b \in DOMAIN blocks' : b \notin DOMAIN blocks => b \in {entry, entry + 1} /\ blocks'[b].code = <<>>
  BY <1>7, <1>9, <1>10, <1>11
<1> QED
  BY <1>3, <1>4, <1>5, <1>9, <1>10, <1>11, <1>12, <1>13 DEF Begins

LEMMA TestBegins ==
  ASSUME Inv, BeginTest, exit = 0
  PROVE  Begins
<1>1. PICK f, entry : f = Len(functions) + 1 /\ entry = Len(blocks) + 1
  OBVIOUS
<1>2. PICK name \in TestNames : Create(name, entry)
  BY <1>1 DEF BeginTest
<1>3. /\ blocks' = Append(blocks, NewBlock(f)) /\ insert' = entry /\ exit' = exit
      /\ InsideFunction' = InsideFunction
  BY <1>1 DEF BeginTest, context
<1>4. /\ blocks \in Seq(BlockSet) /\ Len(blocks) \in Nat /\ DOMAIN blocks = 1..Len(blocks)
      /\ Len(functions) \in Nat /\ Typed /\ Coded
  BY CodeNumbers DEF Inv, Typed
<1>5. Grown
  BY <1>1, <1>2, <1>3, <1>4, TestCoded DEF Quiet
<1>6. PICK y : y = NewBlock(f)
  OBVIOUS
<1>7. y \in BlockSet /\ y.code = <<>>
  BY <1>1, <1>4, <1>6, AssertBlocks
<1>8. blocks' = Append(blocks, y)
  BY <1>3, <1>6
<1>9. /\ DOMAIN blocks' = 1..(Len(blocks) + 1)
      /\ \A k \in 1..Len(blocks) : blocks'[k] = blocks[k]
      /\ blocks'[Len(blocks) + 1] = y
  BY <1>4, <1>7, <1>8, Added
<1>10. PICK n : n = Len(blocks)
  OBVIOUS
<1>11. /\ n \in Nat /\ n + 1 # 0 /\ n + 1 \notin 1..n /\ n + 1 \in 1..(n + 1)
       /\ \A b \in 1..(n + 1) : b \in 1..n \/ b = n + 1
  BY <1>4, <1>10
<1> QED
  BY <1>1, <1>3, <1>4, <1>5, <1>7, <1>9, <1>10, <1>11 DEF Begins

LEMMA BeginsWorking ==
  ASSUME NEW s, Pushed(s), Begins
  PROVE  Working
<1>1. \A k \in DOMAIN visits' : visits'[k].kind = "test" =>
        visits'[k].oldInsert = insert \/ (TestFrame(k) /\ visits'[k].oldInsert = visits[k].oldInsert)
  BY FramesOpen DEF TestFrame
<1> QED
  BY <1>1 DEF Begins, Working

LEMMA BeginsClean ==
  ASSUME Inv, NEW s, Pushed(s), Begins, Clean, Here = 0, exit = 0, Here' # 0, ~ Returned(Here)'
  PROVE  Clean'
<1>1. /\ Grown
      /\ \A b \in DOMAIN blocks : blocks'[b].code = blocks[b].code
      /\ insert' # 0 /\ insert' \in DOMAIN blocks' /\ insert' \notin DOMAIN blocks
      /\ \A b \in DOMAIN blocks' : b \notin DOMAIN blocks =>
           blocks'[b].code = <<>> /\ b \in {insert', exit'}
  BY DEF Begins
<1>2. /\ ~ Broken /\ (insert # 0 => HasTerminator(insert))
      /\ \A b \in DOMAIN blocks : b \notin {insert, 0} => HasTerminator(b)
  BY DEF Clean
<1>3. insert # 0 => insert \in DOMAIN blocks
  <2>1. DOMAIN blocks = 1..Len(blocks) /\ insert \in 0..Len(blocks) /\ Len(blocks) \in Nat
    BY CodeNumbers DEF Inv, Coded, Placed
  <2> QED
    BY <2>1
<1>4. 0 \notin DOMAIN blocks
  <2>1. DOMAIN blocks = 1..Len(blocks) /\ Len(blocks) \in Nat
    BY CodeNumbers DEF Inv
  <2> QED
    BY <2>1
<1>5. \A b \in DOMAIN blocks : Ends(blocks'[b].code)
  <2>1. ASSUME NEW b \in DOMAIN blocks PROVE HasTerminator(b)
    BY <1>2, <1>4, <2>1
  <2> QED
    BY <1>1, <2>1 DEF HasTerminator, Ends
<1>6. ~ Ends(<<>>) /\ ~ Overrun(<<>>)
  BY DEF Ends, Overrun
<1>7. ~ Broken'
  <2>1. ASSUME NEW b \in DOMAIN blocks', Overrun(blocks'[b].code) PROVE FALSE
    <3>1. b \in DOMAIN blocks
      BY <1>1, <1>6, <2>1
    <3>2. Overrun(blocks[b].code)
      <4>1. blocks'[b].code = blocks[b].code
        BY <1>1, <3>1
      <4> QED
        BY <2>1, <4>1
    <3> QED
      BY <1>2, <3>1, <3>2 DEF Broken
  <2> QED
    BY <2>1 DEF Broken
<1>8. \A b \in DOMAIN blocks' : b \notin {insert', exit'} => HasTerminator(b)'
  BY <1>1, <1>5 DEF HasTerminator, Ends
<1>9. ~ HasTerminator(insert)'
  BY <1>1, <1>6 DEF HasTerminator, Ends
<1>10. ASSUME NEW k \in DOMAIN visits', visits'[k].kind = "test", visits'[k].oldInsert # 0
       PROVE  Ends(blocks'[visits'[k].oldInsert].code)
  <2>1. CASE k \in DOMAIN visits
    <3>1. visits'[k] = visits[k]
      BY <2>1, FramesOpen
    <3>2. visits[k].oldInsert \in DOMAIN blocks
      BY <1>10, <2>1, <3>1, OldBlocks
    <3> QED
      BY <1>5, <3>1, <3>2
  <2>2. CASE k \notin DOMAIN visits
    <3>1. visits'[k].oldInsert = insert
      BY <1>10, <2>2, FramesOpen
    <3> QED
      BY <1>3, <1>5, <1>10, <3>1
  <2> QED
    BY <2>1, <2>2
<1>11. \A k \in DOMAIN visits' : visits'[k].kind = "test" /\ visits'[k].oldInsert # 0
         => HasTerminator(visits[k].oldInsert)'
  BY <1>10 DEF HasTerminator, Ends
<1>12. insert' # 0
  BY <1>1, <1>2
<1>13. (Here' # 0 => insert' # 0) /\ (insert' # 0 => (HasTerminator(insert)' <=> (Here' = 0 \/ Returned(Here)')))
  BY <1>9, <1>12
<1> QED
  BY <1>7, <1>8, <1>11, <1>12, <1>13 DEF Clean

(* Nothing is returned from a test, nor from what has just begun.          *)
LEMMA TestsReturnNothing ==
  ASSUME ~ Astray, HereIn("test")
  PROVE  ~ Returned(Here)
<1>1. ASSUME NEW i \in Positions, program[i] = "return", Owner(i) = Here PROVE FALSE
  <2>1. OwnedBy(i, "func")
    BY <1>1 DEF Astray
  <2>2. PICK h : h = Here
    OBVIOUS
  <2>3. program[h] = "func"
    BY <1>1, <2>1, <2>2 DEF OwnedBy
  <2>4. program[h] = "test"
    BY <2>2 DEF HereIn, OwnedBy, Here
  <2> QED
    BY <2>3, <2>4
<1> QED
  BY <1>1 DEF Returned

LEMMA NothingReturned ==
  ASSUME NEW s \in Owning, Reads(s)
  PROVE  Here' # 0 /\ ~ Returned(Here)'
<1>1. PICK n : n = Len(program)
  OBVIOUS
<1>2. Here' = n + 1 /\ Here' # 0 /\ n \in Nat /\ Positions = 1..n
  BY <1>1, HereOpens, TextRead
<1>3. \A j \in 1..n : Owner(j) = 0 \/ Owner(j) \in 1..n
  <2>1. \A j \in 1..(n + 1) : Owner(j) = 0 \/ Owner(j) \in 1..n
    BY <1>1, TextRead
  <2>2. \A j \in 1..n : j \in 1..(n + 1)
    BY <1>2
  <2> QED
    BY <2>1, <2>2
<1>4. ~ Returned(n + 1)
  <2>1. n + 1 # 0 /\ n + 1 \notin 1..n
    BY <1>2
  <2> QED
    BY <1>2, <1>3, <2>1 DEF Returned
<1>5. PICK h : h = n + 1
  OBVIOUS
<1>6. Returned(h)' <=> Returned(h)
  <2>1. \A q : Returned(q)' <=> (Returned(q) \/ (s = "return" /\ q = Here))
    BY TextGrows
  <2> QED
    BY <2>1 DEF Owning
<1>7. Returned(Here)' <=> Returned(h)'
  BY <1>2, <1>5 DEF Returned
<1> QED
  BY <1>2, <1>4, <1>5, <1>6, <1>7

LEMMA VerdictFunction ==
  ASSUME Inv, Arranged, Accepted, Verdict, BeginFunction, NEW at, Matched(at)
  PROVE  Verdict'
<1>1. Typed /\ Placed
  BY DEF Inv, Coded
<1>2. "func" \in Bodies /\ Visit("func") /\ Open("func")
  BY DEF BeginFunction, Bodies
<1>3. Reads("func") /\ Pushed("func") /\ Live
  BY <1>1, <1>2, BodyReads
<1>4. Begins
  BY FunctionBegins
<1>5. Here' # 0 /\ ~ Returned(Here)'
  BY <1>3, NothingReturned DEF Owning
<1>6. ~ CodeOf("func")
  BY DEF CodeOf
<1>7. /\ Refusable' <=> (Refusable \/ HereIn("test"))
      /\ NestedIn("func")' <=> (NestedIn("func") \/ HereIn("func"))
  BY <1>3, <1>6, RefusableGrows
<1>8. SUFFICES ASSUME ~ NestedIn("func")' PROVE IF Refusable' THEN Bad' ELSE Clean'
  BY DEF Verdict
<1>9. ~ NestedIn("func") /\ ~ HereIn("func") /\ exit = 0
  <2>1. exit # 0 => HereIn("func")
    BY <1>3, Modes
  <2> QED
    BY <1>7, <1>8, <2>1
<1>10. CASE Refusable
  <2>1. Bad
    BY <1>3, <1>9, <1>10 DEF Verdict
  <2>2. Bad'
    BY <1>1, <1>3, <1>4, <2>1, BeginsWorking, StaysBad
  <2> QED
    BY <1>7, <1>10, <2>2
<1>11. CASE ~ Refusable /\ HereIn("test")
  <2>1. Clean
    BY <1>3, <1>9, <1>11 DEF Verdict
  <2>2. ~ Returned(Here)
    BY <1>3, <1>11, TestsReturnNothing DEF Accepted
  <2>3. Here # 0
    BY <1>3, <1>11, Modes
  <2>4. insert # 0 /\ ~ HasTerminator(insert)
    BY <2>1, <2>2, <2>3 DEF Clean
  <2>5. insert \in DOMAIN blocks
    <3>1. DOMAIN blocks = 1..Len(blocks) /\ insert \in 0..Len(blocks) /\ Len(blocks) \in Nat
      BY <1>1, CodeNumbers DEF Placed
    <3> QED
      BY <2>4, <3>1
  <2>6. PICK b : b = insert
    OBVIOUS
  <2>7. b \in DOMAIN blocks' /\ blocks'[b].code = blocks[b].code
    BY <1>4, <2>5, <2>6 DEF Begins, Grown
  <2>8. ~ (blocks'[b].code # <<>> /\ Last(blocks'[b].code).op \in Terminators)
    BY <2>4, <2>6, <2>7 DEF HasTerminator
  <2>9. b \notin {insert', exit'}
    BY <1>4, <1>9, <2>4, <2>5, <2>6 DEF Begins
  <2>10. ASSUME NEW k \in DOMAIN visits', visits'[k].kind = "test" PROVE visits'[k].oldInsert # b
    <3>1. k \in DOMAIN visits /\ visits'[k] = visits[k]
      BY <1>3, <2>10, FramesOpen
    <3>2. visits[k].oldInsert # 0 => HasTerminator(visits[k].oldInsert)
      BY <2>1, <2>10, <3>1 DEF Clean
    <3> QED
      BY <2>4, <2>6, <3>1, <3>2
  <2>11. Stuck'
    BY <2>7, <2>8, <2>9, <2>10 DEF Stuck, HasTerminator
  <2> QED
    BY <1>7, <1>11, <2>11 DEF Bad
<1>12. CASE ~ Refusable /\ ~ HereIn("test")
  <2>1. Clean
    BY <1>3, <1>9, <1>12 DEF Verdict
  <2>2. Here = 0
    BY <1>3, <1>9, <1>12, Modes
  <2>3. Clean'
    BY <1>3, <1>4, <1>5, <1>9, <2>1, <2>2, BeginsClean
  <2> QED
    BY <1>7, <1>12, <2>3
<1> QED
  BY <1>10, <1>11, <1>12

LEMMA VerdictTest ==
  ASSUME Inv, Arranged, Verdict, BeginTest, NEW at, Matched(at)
  PROVE  Verdict'
<1>1. Typed /\ Placed
  BY DEF Inv, Coded
<1>2. "test" \in Bodies /\ Visit("test") /\ Open("test")
  BY DEF BeginTest, Bodies
<1>3. Reads("test") /\ Pushed("test") /\ Live /\ visits = <<>>
  BY <1>1, <1>2, BodyReads DEF Visit
<1>4. exit = 0
  BY <1>3, NothingOpen
<1>5. Begins
  BY <1>4, TestBegins
<1>6. Here' # 0 /\ ~ Returned(Here)'
  BY <1>3, NothingReturned DEF Owning
<1>7. ~ CodeOf("test")
  BY DEF CodeOf
<1>8. /\ Refusable' <=> Refusable
      /\ NestedIn("func")' <=> NestedIn("func")
  BY <1>3, <1>7, RefusableGrows
<1>9. Here = 0
  <2>1. NoOwner
    BY <1>3 DEF NoOwner
  <2> QED
    BY <1>3, <2>1, Modes
<1>10. SUFFICES ASSUME ~ NestedIn("func") PROVE IF Refusable' THEN Bad' ELSE Clean'
  BY <1>8 DEF Verdict
<1>11. CASE Refusable
  <2>1. Bad
    BY <1>3, <1>10, <1>11 DEF Verdict
  <2>2. Bad'
    BY <1>1, <1>3, <1>5, <2>1, BeginsWorking, StaysBad
  <2> QED
    BY <1>8, <1>11, <2>2
<1>12. CASE ~ Refusable
  <2>1. Clean
    BY <1>3, <1>10, <1>12 DEF Verdict
  <2>2. Clean'
    BY <1>3, <1>4, <1>5, <1>6, <1>9, <2>1, BeginsClean
  <2> QED
    BY <1>8, <1>12, <2>2
<1> QED
  BY <1>11, <1>12

(***************************************************************************)
(* A function or a test ends.                                              *)
(***************************************************************************)
LEMMA ExitEndsOnce ==
  ASSUME NEW c, FreesOnly(c)
  PROVE  ~ Overrun(Append(c, Ret))
<1>1. c \in Seq(Instructions) /\ \A k \in DOMAIN c : c[k].op = "free"
  BY DEF FreesOnly
<1>2. Len(c) \in Nat /\ DOMAIN c = 1..Len(c) /\ Ret \in Instructions
  BY <1>1, Elements DEF Ret, Instruction, Instructions, Operations
<1>3. PICK n, r : n = Len(c) /\ r = Append(c, Ret)
  OBVIOUS
<1>4. /\ Len(r) = n + 1 /\ DOMAIN r = 1..(n + 1) /\ \A k \in 1..n : r[k] = c[k]
  BY <1>1, <1>2, <1>3, Added
<1>5. \A k \in 1..(n + 1) : k \in 1..n \/ k = n + 1
  BY <1>2, <1>3
<1>6. ~ Overrun(r)
  BY <1>1, <1>2, <1>3, <1>4, <1>5 DEF Overrun, Terminators
<1> QED
  BY <1>3, <1>6

Closes ==
  /\ Grown /\ exit' = 0 /\ DOMAIN blocks' = DOMAIN blocks
  /\ exit = 0 \/ exit \in DOMAIN blocks
  /\ insert \in DOMAIN blocks /\ insert # exit
  /\ \A b \in DOMAIN blocks : b \notin {insert, exit} => blocks'[b].code = blocks[b].code
  /\ exit # 0 => /\ ~ Ends(blocks[exit].code)
                 /\ Ends(blocks'[exit].code) /\ ~ Overrun(blocks'[exit].code)
                 /\ Ends(blocks[insert].code) => blocks'[insert].code = blocks[insert].code
  /\ ~ Ends(blocks[insert].code) /\ ~ Overrun(blocks[insert].code) =>
       Ends(blocks'[insert].code) /\ ~ Overrun(blocks'[insert].code)

LEMMA FunctionShuts ==
  ASSUME Inv, EndFunction
  PROVE  Closes /\ insert' = exit
<1>1. /\ Close("func") /\ exit # 0 /\ functions' = functions
      /\ insert' = exit /\ exit' = 0 /\ InsideFunction' = FALSE
  BY DEF EndFunction
<1>2. Typed /\ Coded /\ Scoped /\ Generating
  BY DEF Inv, Coded
<1>3. Popped("func")
  BY <1>1, <1>2, ClosePops
<1>4. PICK k : k = Len(visits)
  OBVIOUS
<1>5. Opener(k)
  BY <1>1, <1>2, <1>3, <1>4, FunctionCloses DEF Scoped
<1>6. PICK c : c = Cleaning(visits[k].own)
  OBVIOUS
<1>7. FreesOnly(c)
  BY <1>1, <1>2, <1>5, <1>6, CleanupOfFunction DEF Scoped
<1>8. PICK r : r = Append(c, Ret)
  OBVIOUS
<1>9. r \in Seq(Instructions) /\ Ends(r) /\ ~ Overrun(r)
  BY <1>7, <1>8, ExitCode, ExitEndsOnce
<1>10. blocks' = Inserted(FallThrough, exit, r)
  BY <1>4, <1>6, <1>8 DEF EndFunction, Cleaning, JoinAll, Node
<1>11. PICK ext : /\ Writes(ext) /\ DOMAIN blocks' = DOMAIN blocks
                  /\ Len(blocks') = Len(blocks)
                  /\ ext[exit] = r
                  /\ HasTerminator(insert) => ext[insert] = <<>>
                  /\ ~ HasTerminator(insert) => ext[insert] = <<Br(exit)>>
                  /\ \A b \in DOMAIN blocks : b \notin {exit, insert} => ext[b] = <<>>
  BY <1>1, <1>2, <1>9, <1>10, ExitWrites
<1>12. Grown /\ \A b \in DOMAIN blocks : ext[b] = <<>> => blocks'[b].code = blocks[b].code
  BY <1>2, <1>11, WritesGrow
<1>13. /\ exit \in DOMAIN blocks /\ insert \in DOMAIN blocks /\ insert # exit
       /\ blocks[exit].code = <<>>
  BY <1>1, <1>2, ToExit DEF Generating
<1>14. blocks'[exit].code = r /\ ~ Ends(blocks[exit].code)
  <2>1. blocks'[exit].code = blocks[exit].code \o ext[exit]
    BY <1>11, <1>13 DEF Writes
  <2>2. <<>> \o r = r
    BY <1>9, ConcatEmptySeq
  <2> QED
    BY <1>11, <1>13, <2>1, <2>2 DEF Ends
<1>15. HasTerminator(insert) <=> Ends(blocks[insert].code)
  BY DEF HasTerminator, Ends
<1>16. Ends(blocks[insert].code) => blocks'[insert].code = blocks[insert].code
  BY <1>11, <1>12, <1>13, <1>15
<1>17. ASSUME ~ Ends(blocks[insert].code), ~ Overrun(blocks[insert].code)
       PROVE  Ends(blocks'[insert].code) /\ ~ Overrun(blocks'[insert].code)
  <2>1. PICK s, i : s = blocks[insert].code /\ i = Br(exit)
    OBVIOUS
  <2>2. i \in Instructions /\ i.op \in Terminators
    BY <1>2, <2>1 DEF Br, Instruction, Instructions, Operations, Terminators, Typed
  <2>3. <<i>> \in Seq(Instructions) /\ <<i>> # <<>> /\ ~ Overrun(<<i>>) /\ Ends(<<i>>)
    BY <2>2, SingleInstruction
  <2>4. s \in Seq(Instructions) /\ blocks'[insert].code = s \o <<i>>
    BY <1>2, <1>11, <1>13, <1>15, <1>17, <2>1, CodeNumbers DEF Writes
  <2>5. Ends(s \o <<i>>) /\ ~ Overrun(s \o <<i>>)
    BY <1>17, <2>1, <2>3, <2>4, Tidy
  <2> QED
    BY <2>4, <2>5
<1> QED
  BY <1>1, <1>9, <1>11, <1>12, <1>13, <1>14, <1>16, <1>17 DEF Closes

LEMMA TestShuts ==
  ASSUME Inv, EndTest, exit = 0, insert # 0
  PROVE  Closes
<1>1. /\ functions' = functions /\ exit' = 0
      /\ blocks' = Inserted(blocks, insert, <<Ret>>)
  BY DEF EndTest, context
<1>2. Typed /\ Coded
  BY DEF Inv
<1>3. PICK i : i = Ret
  OBVIOUS
<1>4. i \in Instructions /\ i.op \in Terminators
  BY <1>3 DEF Ret, Instruction, Instructions, Operations, Terminators
<1>5. <<i>> \in Seq(Instructions) /\ <<i>> # <<>> /\ ~ Overrun(<<i>>) /\ Ends(<<i>>)
  BY <1>4, SingleInstruction
<1>6. PICK ext : /\ Writes(ext) /\ DOMAIN blocks' = DOMAIN blocks
                 /\ \A b \in DOMAIN blocks : ext[b] = IF b = insert THEN <<i>> ELSE <<>>
  BY <1>1, <1>2, <1>3, <1>5, Emission
<1>7. Grown /\ \A b \in DOMAIN blocks : ext[b] = <<>> => blocks'[b].code = blocks[b].code
  BY <1>2, <1>6, WritesGrow
<1>8. insert \in DOMAIN blocks
  <2>1. DOMAIN blocks = 1..Len(blocks) /\ insert \in 0..Len(blocks) /\ Len(blocks) \in Nat
    BY <1>2, CodeNumbers DEF Coded, Placed
  <2> QED
    BY <2>1
<1>9. ASSUME ~ Ends(blocks[insert].code), ~ Overrun(blocks[insert].code)
      PROVE  Ends(blocks'[insert].code) /\ ~ Overrun(blocks'[insert].code)
  <2>1. PICK s : s = blocks[insert].code
    OBVIOUS
  <2>2. s \in Seq(Instructions) /\ blocks'[insert].code = s \o <<i>>
    <3>1. ext[insert] = <<i>>
      BY <1>6, <1>8
    <3> QED
      BY <1>2, <1>6, <1>8, <2>1, <3>1, CodeNumbers DEF Writes
  <2>3. Ends(s \o <<i>>) /\ ~ Overrun(s \o <<i>>)
    BY <1>5, <1>9, <2>1, <2>2, Tidy
  <2> QED
    BY <2>2, <2>3
<1> QED
  BY <1>1, <1>6, <1>7, <1>8, <1>9 DEF Closes

LEMMA ZeroIsNoBlock ==
  ASSUME Typed
  PROVE  0 \notin DOMAIN blocks
<1>1. DOMAIN blocks = 1..Len(blocks) /\ Len(blocks) \in Nat
  BY CodeNumbers
<1> QED
  BY <1>1

LEMMA ClosesWorking ==
  ASSUME Typed, NEW kind, Popped(kind), Closes,
         insert' \in {insert, exit} \/ \E k : TestFrame(k) /\ insert' = visits[k].oldInsert
  PROVE  Working
<1>1. 0 \notin DOMAIN blocks
  BY ZeroIsNoBlock
<1>2. \A k \in DOMAIN visits' : visits'[k].kind = "test" =>
        visits'[k].oldInsert = insert \/ (TestFrame(k) /\ visits'[k].oldInsert = visits[k].oldInsert)
  BY FramesClose DEF TestFrame
<1> QED
  BY <1>1, <1>2 DEF Closes, Working

(* Only what the builder leaves has changed, and it ends.                  *)
LEMMA ClosesEnd ==
  ASSUME Typed, Closes, ~ Broken, exit # 0 \/ ~ HasTerminator(insert),
         \A b \in DOMAIN blocks : b \notin {insert, exit} => HasTerminator(b)
  PROVE  ~ Broken' /\ \A b \in DOMAIN blocks' : Ends(blocks'[b].code)
<1>1. /\ DOMAIN blocks' = DOMAIN blocks /\ insert \in DOMAIN blocks
      /\ \A b \in DOMAIN blocks : b \notin {insert, exit} => blocks'[b].code = blocks[b].code
      /\ exit # 0 => /\ Ends(blocks'[exit].code) /\ ~ Overrun(blocks'[exit].code)
                     /\ Ends(blocks[insert].code) => blocks'[insert].code = blocks[insert].code
      /\ ~ Ends(blocks[insert].code) /\ ~ Overrun(blocks[insert].code) =>
           Ends(blocks'[insert].code) /\ ~ Overrun(blocks'[insert].code)
      /\ exit = 0 \/ exit \in DOMAIN blocks
  BY DEF Closes
<1>2. \A b \in DOMAIN blocks : ~ Overrun(blocks[b].code)
  BY DEF Broken
<1>3. HasTerminator(insert) <=> Ends(blocks[insert].code)
  BY DEF HasTerminator, Ends
<1>4. ASSUME NEW b \in DOMAIN blocks PROVE Ends(blocks'[b].code) /\ ~ Overrun(blocks'[b].code)
  <2>1. CASE b \notin {insert, exit}
    <3>1. blocks'[b].code = blocks[b].code /\ HasTerminator(b)
      BY <1>1, <1>4, <2>1
    <3>2. Ends(blocks[b].code) /\ ~ Overrun(blocks[b].code)
      BY <1>2, <1>4, <3>1 DEF HasTerminator, Ends
    <3> QED
      BY <3>1, <3>2
  <2>2. CASE b = exit /\ exit # 0
    BY <1>1, <2>2
  <2>3. CASE b = insert
    <3>1. CASE Ends(blocks[insert].code)
      <4>1. blocks'[insert].code = blocks[insert].code
        BY <1>1, <1>3, <3>1
      <4> QED
        BY <1>1, <1>2, <2>3, <3>1, <4>1
    <3>2. CASE ~ Ends(blocks[insert].code)
      BY <1>1, <1>2, <2>3, <3>2
    <3> QED
      BY <3>1, <3>2
  <2>4. CASE b = exit /\ exit = 0
    BY <1>4, <2>4, ZeroIsNoBlock
  <2> QED
    BY <2>1, <2>2, <2>3, <2>4
<1>5. ~ Broken'
  BY <1>1, <1>4 DEF Broken
<1> QED
  BY <1>1, <1>4, <1>5

LEMMA VerdictEndFunction ==
  ASSUME Inv, Texted, Arranged, Verdict, EndFunction, NEW at, Matched(at)
  PROVE  Verdict'
<1>1. Typed /\ Placed
  BY DEF Inv, Coded
<1>2. Close("func") /\ exit # 0
  BY DEF EndFunction
<1>3. Reads("close") /\ Popped("func") /\ Live
  BY <1>1, <1>2, EndReads
<1>4. Closes /\ insert' = exit
  BY FunctionShuts
<1>5. ~ CodeOf("close")
  BY DEF CodeOf
<1>6. /\ Refusable' <=> Refusable
      /\ NestedIn("func")' <=> NestedIn("func")
  BY <1>3, <1>5, RefusableGrows
<1>7. SUFFICES ASSUME ~ NestedIn("func") PROVE IF Refusable' THEN Bad' ELSE Clean'
  BY <1>6 DEF Verdict
<1>8. CASE Refusable
  <2>1. Bad
    BY <1>3, <1>7, <1>8 DEF Verdict
  <2>2. insert' \in {insert, exit}
    BY <1>4
  <2>3. Bad'
    BY <1>1, <1>3, <1>4, <2>1, <2>2, ClosesWorking, StaysBad
  <2> QED
    BY <1>6, <1>8, <2>3
<1>9. CASE ~ Refusable
  <2>1. Clean
    BY <1>3, <1>7, <1>9 DEF Verdict
  <2>2. /\ ~ Broken
        /\ \A b \in DOMAIN blocks : b \notin {insert, exit} => HasTerminator(b)
    BY <2>1 DEF Clean
  <2>3. ~ Broken' /\ \A b \in DOMAIN blocks' : Ends(blocks'[b].code)
    BY <1>1, <1>2, <1>4, <2>2, ClosesEnd
  <2>4. Here' = 0
    <3>1. OneOwner
      BY <1>3, <1>7, <1>9 DEF Texted, Nesting, Refusable, Live
    <3>2. PICK l : l = Len(visits)
      OBVIOUS
    <3>3. l \in DOMAIN visits /\ visits[l].kind = "func" /\ DOMAIN visits = 1..l /\ l \in Nat
      BY <1>3, <3>2, FramesClose
    <3>4. ASSUME NEW k \in DOMAIN visits, k # l PROVE visits[k].kind \notin Owning
      <4>1. k < l
        BY <3>3, <3>4
      <4> QED
        BY <3>1, <3>3, <4>1 DEF OneOwner
    <3> QED
      BY <1>3, <3>2, <3>4, HereCloses
  <2>5. exit \in DOMAIN blocks'
    BY <1>2, <1>4 DEF Closes
  <2>6. HasTerminator(insert)'
    BY <1>4, <2>3, <2>5 DEF HasTerminator, Ends
  <2>7. \A b \in DOMAIN blocks' : HasTerminator(b)'
    BY <2>3 DEF HasTerminator, Ends
  <2>8. ASSUME NEW k \in DOMAIN visits', visits'[k].kind = "test", visits'[k].oldInsert # 0
        PROVE  Ends(blocks'[visits'[k].oldInsert].code)
    <3>1. k \in DOMAIN visits /\ visits'[k] = visits[k]
      BY <1>3, <2>8, FramesClose
    <3>2. visits[k].oldInsert \in DOMAIN blocks
      BY <2>8, <3>1, OldBlocks
    <3> QED
      BY <1>4, <2>3, <3>1, <3>2 DEF Closes
  <2>9. \A k \in DOMAIN visits' : visits'[k].kind = "test" /\ visits'[k].oldInsert # 0
          => HasTerminator(visits[k].oldInsert)'
    BY <2>8 DEF HasTerminator, Ends
  <2>10. Clean'
    BY <2>2, <2>3, <2>4, <2>5, <2>6, <2>7, <2>9 DEF Clean
  <2> QED
    BY <1>6, <1>9, <2>10
<1> QED
  BY <1>8, <1>9

LEMMA VerdictEndTest ==
  ASSUME Inv, Arranged, Accepted, Verdict, EndTest, NEW at, Matched(at)
  PROVE  Verdict'
<1>1. Typed /\ Placed
  BY DEF Inv, Coded
<1>2. Close("test") /\ insert' = IF Node.oldInsert # 0 THEN Node.oldInsert ELSE insert
  BY DEF EndTest
<1>3. Reads("close") /\ Popped("test") /\ Live
  BY <1>1, <1>2, EndReads
<1>4. exit = 0
  BY <1>3, FunctionCloses DEF Inv, Scoped
<1>5. PICK l : l = Len(visits)
  OBVIOUS
<1>6. /\ l \in DOMAIN visits /\ visits[l].kind = "test" /\ DOMAIN visits = 1..l /\ l \in Nat
      /\ \A k \in DOMAIN visits' : k \in DOMAIN visits /\ visits'[k] = visits[k] /\ k # l
  BY <1>3, <1>5, FramesClose
<1>7. \A k \in DOMAIN visits : k = l
  <2>1. l = 1
    BY <1>3, <1>6 DEF Arranged, TestsFirst
  <2> QED
    BY <1>6, <2>1
<1>8. HereIn("test") /\ Here # 0 /\ insert # 0
  <2>1. LastOwner(l)
    BY <1>6, <1>7 DEF LastOwner, Owning
  <2>2. Here = at[l] /\ at[l] \in Positions /\ at[l] # 0 /\ program[at[l]] = "test"
    BY <1>1, <1>6, <2>1, CurrentLast DEF Here
  <2>3. Started
    BY <2>2 DEF Started, Owning
  <2> QED
    BY <1>3, <2>2, <2>3 DEF HereIn, OwnedBy, Here, Arranged
<1>9. Closes
  BY <1>4, <1>8, TestShuts
<1>10. ~ CodeOf("close")
  BY DEF CodeOf
<1>11. /\ Refusable' <=> Refusable
       /\ NestedIn("func")' <=> NestedIn("func")
  BY <1>3, <1>10, RefusableGrows
<1>12. insert' = insert \/ (insert' = visits[l].oldInsert /\ visits[l].oldInsert # 0)
  BY <1>2, <1>5 DEF Node
<1>13. SUFFICES ASSUME ~ NestedIn("func") PROVE IF Refusable' THEN Bad' ELSE Clean'
  BY <1>11 DEF Verdict
<1>14. CASE Refusable
  <2>1. Bad
    BY <1>3, <1>13, <1>14 DEF Verdict
  <2>2. insert' \in {insert, exit} \/ \E k : TestFrame(k) /\ insert' = visits[k].oldInsert
    BY <1>6, <1>12 DEF TestFrame
  <2>3. Bad'
    BY <1>1, <1>3, <1>9, <2>1, <2>2, ClosesWorking, StaysBad
  <2> QED
    BY <1>11, <1>14, <2>3
<1>15. CASE ~ Refusable
  <2>1. Clean
    BY <1>3, <1>13, <1>15 DEF Verdict
  <2>2. ~ Returned(Here)
    BY <1>3, <1>8, TestsReturnNothing DEF Accepted
  <2>3. /\ ~ Broken /\ ~ HasTerminator(insert)
        /\ \A b \in DOMAIN blocks : b \notin {insert, exit} => HasTerminator(b)
    BY <1>8, <2>1, <2>2 DEF Clean
  <2>4. ~ Broken' /\ \A b \in DOMAIN blocks' : Ends(blocks'[b].code)
    BY <1>1, <1>9, <2>3, ClosesEnd
  <2>5. Here' = 0
    BY <1>3, <1>5, <1>7, HereCloses
  <2>6. DOMAIN blocks' = DOMAIN blocks /\ insert \in DOMAIN blocks
    BY <1>9 DEF Closes
  <2>7. insert' \in DOMAIN blocks'
    BY <1>6, <1>12, <2>6, OldBlocks
  <2>8. HasTerminator(insert)'
    BY <2>4, <2>7 DEF HasTerminator, Ends
  <2>9. \A b \in DOMAIN blocks' : HasTerminator(b)'
    BY <2>4 DEF HasTerminator, Ends
  <2>10. \A k \in DOMAIN visits' : FALSE
    BY <1>6, <1>7
  <2>11. Clean'
    BY <2>3, <2>4, <2>5, <2>6, <2>8, <2>9, <2>10 DEF Clean
  <2> QED
    BY <1>11, <1>15, <2>11
<1> QED
  BY <1>14, <1>15

LEMMA VerdictNext ==
  ASSUME Inv, Texted, Framed, Arranged, Accepted, Verdict, [Next]_vars
  PROVE  Verdict'
<1>1. CASE EndStep
  BY <1>1, EndSteps DEF Verdict
<1>2. CASE StartTests \/ UNCHANGED vars
  BY <1>2, VerdictIdle
<1>3. ASSUME Live PROVE \E at : Matched(at)
  BY <1>3 DEF Framed
<1>4. CASE LeafStep
  <2>1. PICK s : Leafs(s)
    BY <1>4, LeafSteps DEF Inv
  <2>2. Live
    BY <2>1, LeafReads DEF Inv
  <2>3. PICK at : Matched(at)
    BY <1>3, <2>2
  <2> QED
    BY <1>4, <2>3, VerdictLeaf
<1>5. ASSUME BeginBlock \/ BeginFunction \/ BeginTest \/ EndBlock \/ EndFunction \/ EndTest
      PROVE  Verdict'
  <2>1. Live
    BY <1>5 DEF BeginBlock, BeginFunction, BeginTest, EndBlock, EndFunction, EndTest, Visit, Close, Live
  <2>2. PICK at : Matched(at)
    BY <1>3, <2>1
  <2>3. CASE BeginBlock \/ EndBlock
    BY <2>2, <2>3, VerdictBlock
  <2>4. CASE BeginFunction
    BY <2>2, <2>4, VerdictFunction
  <2>5. CASE BeginTest
    BY <2>2, <2>5, VerdictTest
  <2>6. CASE EndFunction
    BY <2>2, <2>6, VerdictEndFunction
  <2>7. CASE EndTest
    BY <2>2, <2>7, VerdictEndTest
  <2> QED
    BY <1>5, <2>3, <2>4, <2>5, <2>6, <2>7
<1> QED
  BY <1>1, <1>2, <1>4, <1>5, StepIs

(***************************************************************************)
(* The end of the program, and of the tests.                               *)
(***************************************************************************)
Sane == \A b \in DOMAIN blocks : Ends(blocks[b].code) /\ ~ Overrun(blocks[b].code)

LEMMA SaneIs ==
  ASSUME Typed
  PROVE  Sane <=> \A b \in DOMAIN blocks : WellFormed(b)
<1>1. ASSUME NEW b \in DOMAIN blocks
      PROVE  WellFormed(b) <=> (Ends(blocks[b].code) /\ ~ Overrun(blocks[b].code))
  <2>1. PICK n, is : n = Len(blocks[b].code) /\ is = blocks[b].code
    OBVIOUS
  <2>2. n \in Nat /\ DOMAIN is = 1..n /\ n = Len(is)
    BY <1>1, <2>1, CodeNumbers
  <2>3. (\A k \in 1..(n - 1) : is[k].op \notin Terminators) <=> ~ Overrun(is)
    <3>1. \A k : k \in 1..(n - 1) <=> (k \in 1..n /\ k # n)
      BY <2>2
    <3> QED
      BY <2>2, <3>1 DEF Overrun
  <2>4. HasTerminator(b) <=> Ends(is)
    BY <2>1 DEF HasTerminator, Ends
  <2> QED
    BY <2>1, <2>3, <2>4 DEF WellFormed
<1> QED
  BY <1>1 DEF Sane

LEMMA AtEnd ==
  ASSUME Inv, Framed, Arranged, Verdict, Live, visits = <<>>
  PROVE  ~ NestedIn("func") /\ (Refusable <=> ~ Sane)
<1>1. PICK at : Matched(at)
  BY DEF Framed
<1>2. DOMAIN visits = {}
  OBVIOUS
<1>3. ~ NestedIn("func")
  BY <1>2 DEF Arranged, NestedOpen
<1>4. exit = 0
  BY NothingOpen
<1>5. Here = 0
  BY <1>1, <1>2, CurrentNone DEF Here, NoOwner
<1>6. 0 \notin DOMAIN blocks
  BY ZeroIsNoBlock DEF Inv
<1>7. ASSUME Refusable PROVE ~ Sane
  <2>1. Bad
    BY <1>3, <1>7 DEF Verdict
  <2> QED
    BY <2>1 DEF Bad, Broken, Stuck, Sane, HasTerminator, Ends
<1>8. ASSUME ~ Refusable PROVE Sane
  <2>1. Clean
    BY <1>3, <1>8 DEF Verdict
  <2>2. ~ Broken /\ \A b \in DOMAIN blocks : HasTerminator(b)
    BY <1>4, <1>5, <1>6, <2>1 DEF Clean
  <2> QED
    BY <2>2 DEF Broken, Sane, HasTerminator, Ends
<1> QED
  BY <1>3, <1>7, <1>8

(* Between the end of the tests and the verifier.                          *)
Entering == phase = "entry" => ~ NestedIn("func") /\ (Refusable <=> ~ Sane)

LEMMA EntersSane ==
  ASSUME Inv, FinishTests
  PROVE  Sane' <=> Sane
<1>1. PICK n, is : n = Len(blocks) /\ is = Entrypoint(testNames)
  OBVIOUS
<1>2. n \in Nat /\ DOMAIN blocks = 1..n
  BY <1>1, CodeNumbers DEF Inv
<1>3. Ends(is) /\ ~ Overrun(is)
  BY <1>1, EntrypointCode DEF Inv
<1>4. PICK new : new = [NewBlock(Len(functions) + 1) EXCEPT !.code = is]
  OBVIOUS
<1>5. blocks' = Append(blocks, new)
  BY <1>1, <1>4 DEF FinishTests
<1>6. new.code = is
  BY <1>4 DEF NewBlock
<1>7. /\ DOMAIN blocks' = 1..(n + 1) /\ blocks'[n + 1] = new
      /\ \A b \in 1..n : blocks'[b] = blocks[b]
  <2>1. blocks \in Seq(BlockSet)
    BY DEF Inv, Typed
  <2> QED
    BY <1>1, <1>2, <1>5, <2>1
<1>8. \A b : b \in 1..(n + 1) <=> (b \in 1..n \/ b = n + 1)
  BY <1>2
<1> QED
  BY <1>2, <1>3, <1>5, <1>6, <1>7, <1>8 DEF Sane, Overrun, Ends

LEMMA EnteringNext ==
  ASSUME Inv, Framed, Arranged, Verdict, Entering, [Next]_vars
  PROVE  Entering'
<1>1. ASSUME program' = program
      PROVE  (NestedIn("func")' <=> NestedIn("func")) /\ (Refusable' <=> Refusable)
  <2>1. /\ \A kind : NestedIn(kind)' <=> NestedIn(kind)
        /\ Loose' <=> Loose
        /\ Late' <=> Late
    BY <1>1, TextSame
  <2>2. NestedIn("test")' <=> NestedIn("test")
    BY <2>1
  <2> QED
    BY <2>1, <2>2 DEF Refusable
<1>2. CASE FinishTests
  <2>1. Live /\ visits = <<>> /\ program' = program
    BY <1>2 DEF FinishTests, Live, tree
  <2>2. ~ NestedIn("func") /\ (Refusable <=> ~ Sane)
    BY <2>1, AtEnd
  <2>3. Sane' <=> Sane
    BY <1>2, EntersSane
  <2> QED
    BY <1>1, <2>1, <2>2, <2>3 DEF Entering
<1>3. CASE UNCHANGED vars
  <2>1. program' = program /\ phase' = phase /\ blocks' = blocks
    BY <1>3 DEF vars, tree, code
  <2>2. Sane' <=> Sane
    BY <2>1 DEF Sane, Ends, Overrun
  <2> QED
    BY <1>1, <2>1, <2>2 DEF Entering
<1>4. CASE Next /\ ~ FinishTests
  <2>1. phase' # "entry"
    BY <1>4 DEF Next, Let, LetString, LetCall, LetLarge, PrintValues, AssertEqual, If, Return, BeginBlock,
                EndBlock, BeginFunction, EndFunction, BeginTest, EndTest, Visit, Close,
                AssertOther, Undefined, StartTests, FinishProgram, VerifyTests, verifyModule,
                Execute, Step
  <2> QED
    BY <2>1 DEF Entering
<1> QED
  BY <1>2, <1>3, <1>4

(***************************************************************************)
(* What the program comes to.                                              *)
(***************************************************************************)
LEMMA TextIs ==
  /\ TextUndefined <=> (NestedIn("func") \/ Astray \/ Early)
  /\ TextMalformed <=> Refusable
<1>1. TextUndefined <=> (NestedIn("func") \/ Astray \/ Early)
  BY DEF TextUndefined, Astray, Early
<1>2. (\E i, j \in Positions :
         i < j /\ program[i] = "return" /\ Owner(i) = Owner(j) /\ EmitsCode(j)) <=> Late
  BY DEF Late
<1>3. TextMalformed <=> Refusable
  BY <1>2 DEF TextMalformed, Refusable, Loose
<1> QED
  BY <1>1, <1>3

Outcome ==
  IF Throws THEN "threw"
  ELSE IF NestedIn("func") \/ Astray \/ Early THEN "undefined"
  ELSE IF Refusable THEN "malformed" ELSE "verified"
Final == {"verified", "malformed", "undefined", "threw"}

LEMMA OutcomeIs ==
  OutcomeAsWritten <=> (phase \in Final => phase = Outcome)
BY TextIs DEF OutcomeAsWritten, Outcome, Final, Throws

(* The builder has no block to take the module from, or branches to null.  *)
LEMMA UndefinedText ==
  ASSUME Inv, Framed, Arranged, Accepted, Undefined
  PROVE  ~ Throws' /\ (NestedIn("func")' \/ Astray' \/ Early')
<1>1. Typed
  BY DEF Inv
<1>2. Live /\ ~ Throws
  <2>1. Live
    BY DEF Undefined, Visit, Live
  <2> QED
    BY <2>1 DEF Accepted
<1>3. PICK at : Matched(at)
  BY <1>2 DEF Framed
<1>4. /\ exit # 0 => HereIn("func")
      /\ HereIn("func") /\ ~ NestedIn("func") => exit # 0
      /\ Here = 0 <=> NoOwner
  BY <1>2, <1>3, Modes
<1>5. ASSUME NEW s, Reads(s), s # "assert other" PROVE ~ Throws'
  <2>1. Throws' <=> (Throws \/ s = "assert other")
    BY <1>5, TextGrows
  <2> QED
    BY <1>2, <1>5, <2>1
<1>6. ASSUME NEW s \in {"let string", "let call", "print", "assert"}, Visit(s), insert = 0
      PROVE  ~ Throws' /\ Early'
  <2>1. s \in Kinds /\ program' = Append(program, s)
    BY <1>6 DEF Visit, Kinds, Leaves
  <2>2. Reads(s)
    BY <1>1, <2>1, ReadsOne
  <2>3. \A i \in Positions : program[i] \notin Owning
    BY <1>2, <1>6 DEF Arranged, Started
  <2>4. \A i \in Positions : program[i] # "func"
    BY <2>3 DEF Owning
  <2>5. NoOwner
    <3>1. ASSUME NEW k \in DOMAIN visits PROVE visits[k].kind \notin Owning
      <4>1. at[k] \in Positions /\ program[at[k]] = visits[k].kind
        BY <1>3, <3>1 DEF Matched, VisitedBy
      <4> QED
        BY <2>3, <4>1
    <3> QED
      BY <3>1 DEF NoOwner
  <2>6. Early' <=> (Early \/ (/\ s \in {"let string", "let call", "print", "assert"} /\ Here = 0
                              /\ \A i \in Positions : program[i] # "func"))
    BY <2>2, TextGrows
  <2>7. Here = 0
    BY <1>4, <2>5
  <2>8. ~ Throws'
    BY <1>5, <1>6, <2>2
  <2> QED
    BY <1>6, <2>4, <2>6, <2>7, <2>8
<1>7. ASSUME Visit("return"), exit = 0
      PROVE  ~ Throws' /\ (NestedIn("func")' \/ Astray')
  <2>1. "return" \in Kinds /\ program' = Append(program, "return")
    BY <1>7 DEF Visit, Kinds, Leaves
  <2>2. Reads("return")
    BY <1>1, <2>1, ReadsOne
  <2>3. Astray' <=> (Astray \/ ("return" = "return" /\ ~ HereIn("func")))
    BY <2>2, TextGrows
  <2>4. \A kind : NestedIn(kind)' <=> (NestedIn(kind) \/ ("return" = "func" /\ HereIn(kind)))
    BY <2>2, TextGrows
  <2>5. ~ Throws'
    BY <1>5, <2>2
  <2> QED
    BY <1>4, <1>7, <2>3, <2>4, <2>5
<1>8. ASSUME visits # <<>>, Node.kind = "func", exit = 0, program' = Append(program, "close")
      PROVE  ~ Throws' /\ NestedIn("func")'
  <2>1. "close" \in Kinds
    BY DEF Kinds
  <2>2. Reads("close")
    BY <1>1, <1>8, <2>1, ReadsOne
  <2>3. \A kind : NestedIn(kind)' <=> (NestedIn(kind) \/ ("close" = "func" /\ HereIn(kind)))
    BY <2>2, TextGrows
  <2>4. Len(visits) \in DOMAIN visits /\ visits[Len(visits)].kind = "func"
    <3>1. Len(visits) \in Nat /\ DOMAIN visits = 1..Len(visits) /\ (visits = <<>> <=> Len(visits) = 0)
      BY <1>1, Elements DEF Typed
    <3>2. Len(visits) \in 1..Len(visits)
      BY <1>8, <3>1
    <3> QED
      BY <1>8, <3>1, <3>2 DEF Node
  <2>5. NestedIn("func")
    BY <1>2, <1>8, <2>4 DEF Arranged, OneFunction
  <2>6. ~ Throws'
    BY <1>5, <2>2
  <2> QED
    BY <2>3, <2>5, <2>6
<1> QED
  BY <1>6, <1>7, <1>8 DEF Undefined

LEMMA OutcomeNext ==
  ASSUME Inv, Framed, Arranged, Accepted, Verdict, Entering, OutcomeAsWritten, [Next]_vars
  PROVE  OutcomeAsWritten'
<1>1. SUFFICES phase' \in Final => phase' = Outcome'
  <2>1. TextUndefined' <=> (NestedIn("func")' \/ Astray' \/ Early')
    BY DEF TextUndefined, Astray, Early
  <2>2. (\E i, j \in Positions :
           i < j /\ program[i] = "return" /\ Owner(i) = Owner(j) /\ EmitsCode(j))' <=> Late'
    BY DEF Late
  <2>3. TextMalformed' <=> Refusable'
    BY <2>2 DEF TextMalformed, Refusable, Loose
  <2> QED
    BY <2>1, <2>3 DEF OutcomeAsWritten, Outcome, Final, Throws
<1>2. phase \in Final => phase = Outcome
  BY OutcomeIs
<1>3. ASSUME program' = program PROVE Outcome' = Outcome
  <2>1. /\ \A kind : NestedIn(kind)' <=> NestedIn(kind)
        /\ Throws' <=> Throws
        /\ Astray' <=> Astray
        /\ Early' <=> Early
        /\ Loose' <=> Loose
        /\ Late' <=> Late
    BY <1>3, TextSame
  <2>2. /\ NestedIn("test")' <=> NestedIn("test")
        /\ NestedIn("func")' <=> NestedIn("func")
    BY <2>1
  <2>3. Refusable' <=> Refusable
    BY <2>1, <2>2 DEF Refusable
  <2> QED
    BY <2>1, <2>2, <2>3 DEF Outcome
<1>4. CASE AssertOther
  <2>1. phase' = "threw" /\ "assert other" \in Kinds /\ program' = Append(program, "assert other")
    BY <1>4 DEF AssertOther, Visit, Kinds, Leaves
  <2>2. Reads("assert other")
    BY <2>1, ReadsOne DEF Inv
  <2>3. Throws' <=> (Throws \/ "assert other" = "assert other")
    BY <2>2, TextGrows
  <2> QED
    BY <2>1, <2>3 DEF Outcome
<1>5. CASE Undefined
  <2>1. phase' = "undefined"
    BY <1>5 DEF Undefined
  <2>2. ~ Throws' /\ (NestedIn("func")' \/ Astray' \/ Early')
    BY <1>5, UndefinedText
  <2> QED
    BY <2>1, <2>2 DEF Outcome
<1>6. CASE FinishProgram \/ VerifyTests
  <2>1. program' = program /\ verifyModule
    BY <1>6 DEF FinishProgram, VerifyTests, tree
  <2>2. ~ NestedIn("func") /\ (Refusable <=> ~ Sane)
    <3>1. CASE FinishProgram
      <4>1. Live /\ visits = <<>>
        BY <3>1 DEF FinishProgram, Live
      <4> QED
        BY <4>1, AtEnd
    <3>2. CASE VerifyTests
      BY <3>2 DEF VerifyTests, Entering
    <3> QED
      BY <1>6, <3>1, <3>2
  <2>3. ~ Throws /\ ~ Astray /\ ~ Early
    BY <1>6 DEF FinishProgram, VerifyTests, Accepted, Live
  <2>4. phase' = IF Sane THEN "verified" ELSE "malformed"
    BY <2>1, SaneIs DEF verifyModule, Inv
  <2>5. phase' = Outcome
    BY <2>2, <2>3, <2>4 DEF Outcome
  <2> QED
    BY <1>3, <2>1, <2>5
<1>7. CASE UNCHANGED vars
  <2>1. program' = program /\ phase' = phase
    BY <1>7 DEF vars, tree
  <2> QED
    BY <1>2, <1>3, <2>1
<1>8. CASE Next /\ ~ (AssertOther \/ Undefined \/ FinishProgram \/ VerifyTests)
  <2>1. phase' \notin Final
    BY <1>8 DEF Next, Let, LetString, LetCall, LetLarge, PrintValues, AssertEqual, If, Return, BeginBlock,
                EndBlock, BeginFunction, EndFunction, BeginTest, EndTest, Visit, Close,
                StartTests, FinishTests, Execute, Step, Final
  <2> QED
    BY <2>1
<1> QED
  BY <1>4, <1>5, <1>6, <1>7, <1>8

(* Every program comes to what its text says.                              *)
THEOREM ProgramsComeOutAsWritten == Spec => []OutcomeAsWritten
<1> DEFINE Told == /\ Texted /\ Framed /\ Arranged /\ Accepted /\ Verdict /\ Entering
                   /\ OutcomeAsWritten
<1>1. Init => Told
  <2> SUFFICES ASSUME Init PROVE Told
    OBVIOUS
  <2>1. /\ functions = <<>> /\ program = <<>> /\ visits = <<>> /\ phase = "program" /\ blocks = <<>>
        /\ insert = 0 /\ exit = 0
    BY DEF Init
  <2>2. Positions = {} /\ DOMAIN visits = {} /\ DOMAIN blocks = {}
    BY <2>1 DEF Positions
  <2>3. Texted
    BY <2>2 DEF Texted, Followed, OneOwner, InOwn
  <2>4. Matched(visits)
    BY <2>2 DEF Matched
  <2>5. Framed
    BY <2>4 DEF Framed
  <2>6. ~ Throws /\ ~ Astray /\ ~ Early /\ ~ Loose /\ ~ Late /\ ~ Started /\ \A kind : ~ NestedIn(kind)
    BY <2>2 DEF Throws, Astray, Early, Loose, Late, Started, NestedIn
  <2>7. Arranged
    BY <2>1, <2>2, <2>6 DEF Arranged, TestsFirst, OneFunction, NestedOpen
  <2>8. Clean /\ ~ Refusable
    BY <2>1, <2>2, <2>4, <2>6, CurrentNone DEF Clean, Broken, Refusable, NoOwner, Here
  <2>9. Accepted /\ Verdict /\ Entering /\ OutcomeAsWritten
    BY <2>1, <2>6, <2>8 DEF Accepted, Verdict, Entering, OutcomeAsWritten
  <2> QED
    BY <2>3, <2>5, <2>7, <2>9
<1>2. Inv /\ Told /\ [Next]_vars => Told'
  BY TextNext, FramedNext, ArrangedNext, AcceptedNext, VerdictNext, EnteringNext, OutcomeNext
<1>3. Told => OutcomeAsWritten
  OBVIOUS
<1> QED
  BY <1>1, <1>2, <1>3, InvHolds, PTL DEF Spec
=============================================================================
