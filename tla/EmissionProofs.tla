---------------------------- MODULE EmissionProofs ----------------------------
(***************************************************************************)
(* What CodeGenVisitor makes of the bodies of functions and tests, for     *)
(* programs of any size.                                                   *)
(***************************************************************************)
EXTENDS FunctionEmission, FiniteSetTheorems, SequenceTheorems, NaturalsInduction,
        WellFoundedInduction, TLAPS

(***************************************************************************)
(* The variables and their types.                                          *)
(***************************************************************************)
Kinds == Leaves \cup Bodies \cup {"close"}
Phases == {"program", "tests", "entry", "verified", "malformed", "undefined", "threw",
           "running", "returned"}
Operations == {"other", "br", "ret", "malloc", "free", "store", "call"}
Instructions == [op : Operations, arg : SUBSET Nat]
FrameSet == [kind : Bodies, old : Nat, own : Nat, oldInsert : Nat]
TableSet == [children : Seq(Nat), resources : Seq(Nat)]
BlockSet == [function : Nat, code : Seq(Instructions)]
FunctionSet == [name : (FunctionNames \cup TestNames) \X Nat, entry : Nat]

Typed ==
  /\ program \in Seq(Kinds)
  /\ visits \in Seq(FrameSet)
  /\ phase \in Phases
  /\ tables \in Seq(TableSet) /\ currentSymbols \in Nat
  /\ functions \in Seq(FunctionSet)
  /\ blocks \in Seq(BlockSet)
  /\ insert \in Nat /\ exit \in Nat
  /\ InsideFunction \in BOOLEAN
  /\ pc \in [block : Nat, next : Nat]
  /\ heap \in [live : SUBSET Nat, freed : SUBSET Nat]

(***************************************************************************)
(* The tables are a tree: each is the child of one table before it, once.  *)
(***************************************************************************)
Forest ==
  /\ Len(tables) >= 2 /\ currentSymbols \in 1..Len(tables)
  /\ \A p \in DOMAIN tables : \A k \in DOMAIN tables[p].children :
       tables[p].children[k] \in (p + 1)..Len(tables)
  /\ \A p, q \in DOMAIN tables :
       \A k \in DOMAIN tables[p].children : \A m \in DOMAIN tables[q].children :
         tables[p].children[k] = tables[q].children[m] => p = q /\ k = m
  /\ \A t \in 2..Len(tables) : \E p \in DOMAIN tables : t \in ToSet(tables[p].children)
  /\ \A k \in DOMAIN visits :
       /\ visits[k].old \in DOMAIN tables
       /\ visits[k].own \in ToSet(tables[visits[k].old].children)

(***************************************************************************)
(* Blocks and their functions.                                             *)
(***************************************************************************)
IsFunc(f) == functions[f].name[1] \in FunctionNames
IsExit(b) == /\ IsFunc(blocks[b].function)
             /\ b = functions[blocks[b].function].entry + 1

Placed ==
  /\ insert \in 0..Len(blocks) /\ exit \in 0..Len(blocks)
  /\ (exit # 0) = InsideFunction
  /\ \A b \in DOMAIN blocks :
       /\ blocks[b].function \in DOMAIN functions
       /\ functions[blocks[b].function].entry <= b
  /\ \A f \in DOMAIN functions :
       functions[f].entry \in DOMAIN blocks /\ blocks[functions[f].entry].function = f
  /\ \A b \in DOMAIN blocks : \A k \in DOMAIN blocks[b].code :
       blocks[b].code[k].op = "br" =>
         \A c \in blocks[b].code[k].arg :
           c \in DOMAIN blocks /\ blocks[c].function = blocks[b].function

(* The function being generated: code is added to its last block.          *)
Generating ==
  exit # 0 =>
    /\ functions # <<>> /\ IsFunc(Len(functions))
    /\ exit = functions[Len(functions)].entry + 1
    /\ blocks[exit].function = Len(functions) /\ blocks[exit].code = <<>>
    /\ insert # 0 /\ insert # exit /\ blocks[insert].function = Len(functions)
    /\ \A b \in DOMAIN blocks :
         b >= functions[Len(functions)].entry =>
           /\ blocks[b].function = Len(functions)
           /\ b <= insert \/ b = exit
           /\ b \notin {insert, exit} => HasTerminator(b)

(* Its frame is the last one of a function or a test.                      *)
Opener(k) ==
  /\ k \in DOMAIN visits /\ visits[k].kind = "func"
  /\ \A m \in DOMAIN visits : m > k => visits[m].kind = "block"
Enclosed == exit # 0 => \E k \in DOMAIN visits : Opener(k)

(***************************************************************************)
(* Memory.                                                                 *)
(***************************************************************************)
(* An instruction after a terminator: the verifier will refuse the module. *)
Overrun(is) == \E k \in DOMAIN is : k # Len(is) /\ is[k].op \in Terminators
Broken == \E b \in DOMAIN blocks : Overrun(blocks[b].code)

(* What the first n - 1 instructions, or all, do with memory.              *)
Before(is, op, n) == UNION {is[k].arg : k \in {m \in DOMAIN is : m < n /\ is[m].op = op}}
Made(is, op) == UNION {is[k].arg : k \in {m \in DOMAIN is : is[m].op = op}}
Mallocs(b) == Made(blocks[b].code, "malloc")
BlocksOf(f) == {b \in DOMAIN blocks : blocks[b].function = f}
Memory(f) == UNION {Mallocs(b) : b \in BlocksOf(f)}

(* The code a branch leads to has nothing allocated between.               *)
Follows(b, c) ==
  LET f == blocks[b].function IN
  IF IsExit(c) THEN \A d \in BlocksOf(f) : d > b => Mallocs(d) = {}
  ELSE b < c /\ \A d \in BlocksOf(f) : b < d /\ d < c => Mallocs(d) = {}

Allowed(b, i) ==
  /\ i.op = "malloc" => IsFunc(blocks[b].function) /\ ~ IsExit(b)
  /\ i.op = "free" => IsExit(b)
  /\ i.op = "br" => \A c \in i.arg : Follows(b, c) /\ (c = exit => b = insert)
  /\ i.op = "ret" => IsExit(b) \/ Memory(blocks[b].function) = {}
  /\ i.op = "ret" => exit = 0 \/ blocks[b].function # Len(functions)
Allocated ==
  \A b \in DOMAIN blocks : \A k \in DOMAIN blocks[b].code : Allowed(b, blocks[b].code[k])

(* Instructions that free, each something else.                            *)
Freeing(is) ==
  /\ \A k \in DOMAIN is : is[k].op = "free" => \E v \in is[k].arg : is[k].arg = {v}
  /\ \A k, m \in DOMAIN is :
       is[k].op = "free" /\ is[m].op = "free" /\ is[k].arg = is[m].arg => k = m

(* An exit block that has been generated frees what its function allocates. *)
CleansUp(b) ==
  IsExit(b) /\ blocks[b].code # <<>> =>
    /\ \E k \in DOMAIN blocks[b].code : blocks[b].code[k].op = "ret"
    /\ Made(blocks[b].code, "free") = Memory(blocks[b].function)
    /\ Freeing(blocks[b].code)
Cleaned == \A b \in DOMAIN blocks : CleansUp(b)

(* Code that is added outside of functions is refused, or is a test's.     *)
Refused(b) == b # 0 => Broken \/ HasTerminator(b) \/ ~ IsFunc(blocks[b].function)
Rested == exit = 0 => Refused(insert)
Frames ==
  \A k \in DOMAIN visits :
    /\ visits[k].oldInsert \in 0..Len(blocks)
    /\ visits[k].kind = "test" => Refused(visits[k].oldInsert)

(* A variable is registered in one table, once.                            *)
Registered ==
  /\ \A t \in DOMAIN tables : \A k \in DOMAIN tables[t].resources :
       tables[t].resources[k] <= Len(program)
  /\ \A t, u \in DOMAIN tables :
       \A k \in DOMAIN tables[t].resources : \A m \in DOMAIN tables[u].resources :
         tables[t].resources[k] = tables[u].resources[m] => t = u /\ k = m

(* The tables of the function being generated hold what it has allocated.  *)
Resources(t) == ToSet(tables[t].resources)
Owned ==
  exit # 0 => \A k \in DOMAIN visits : Opener(k) =>
    LET own == visits[k].own IN
    /\ currentSymbols > own /\ tables[own].children = <<own + 1>>
    /\ \A m \in DOMAIN visits : m > k => visits[m].old > own
    /\ \A p \in DOMAIN tables : \A m \in DOMAIN tables[p].children :
         tables[p].children[m] > own + 1 => p > own
    /\ UNION {Resources(t) : t \in (own + 1)..Len(tables)} = Memory(Len(functions))

(***************************************************************************)
(* The execution.                                                          *)
(***************************************************************************)
Held(b, n) ==
  IF IsExit(b) THEN Memory(blocks[b].function) \ Before(blocks[b].code, "free", n)
  ELSE (UNION {Mallocs(d) : d \in {c \in BlocksOf(blocks[b].function) : c < b}})
         \cup Before(blocks[b].code, "malloc", n)

Executing ==
  /\ phase \in {"verified", "running", "returned"} =>
       exit = 0 /\ \A b \in DOMAIN blocks : WellFormed(b)
  /\ phase \in {"running", "returned"} => pc.block \in DOMAIN blocks
  /\ phase = "running" =>
       pc.next \in DOMAIN blocks[pc.block].code /\ heap.live = Held(pc.block, pc.next)
  /\ phase # "running" => heap.live = {}

Sound == Broken \/ (Allocated /\ Cleaned)
Coded == Placed /\ Generating /\ Rested /\ Sound
Scoped == Forest /\ Enclosed /\ Frames /\ Registered /\ Owned
Inv == Typed /\ Coded /\ Scoped /\ Executing

-----------------------------------------------------------------------------
(***************************************************************************)
(* Sequences and folds.                                                    *)
(***************************************************************************)
LEMMA Least ==
  ASSUME NEW S \in SUBSET Nat, S # {}
  PROVE  \E m \in S : \A k \in S : m <= k
<1> DEFINE less == {p \in Nat \X Nat : p[1] < p[2]}
<1>1. IsWellFoundedOn(less, Nat)
  BY NatLessThanWellFounded, Zenon DEF OpToRel
<1>2. PICK m \in S : \A k \in S : <<k, m>> \notin less
  <2> HIDE DEF less
  <2> QED
    BY <1>1, WFMin
<1>3. ASSUME NEW k \in S PROVE m <= k
  <2>1. k \in Nat /\ m \in Nat
    OBVIOUS
  <2>2. <<k, m>> \notin less
    BY <1>2
  <2>3. ~ (k < m)
    BY <2>1, <2>2
  <2> QED
    BY <2>1, <2>3
<1> QED
  BY <1>3

LEMMA Elements ==
  ASSUME NEW S, NEW s \in Seq(S)
  PROVE  /\ Len(s) \in Nat /\ DOMAIN s = 1..Len(s)
         /\ \A k \in 1..Len(s) : s[k] \in S
         /\ s = <<>> <=> Len(s) = 0
<1>1. s = <<>> <=> Len(s) = 0
  BY EmptySeq
<1> QED
  BY <1>1, LenProperties, ElementOfSeq

LEMMA Joined ==
  ASSUME NEW S, NEW s \in Seq(S), NEW t \in Seq(S)
  PROVE  /\ s \o t \in Seq(S) /\ Len(s \o t) = Len(s) + Len(t)
         /\ DOMAIN (s \o t) = 1..(Len(s) + Len(t))
         /\ \A k \in 1..Len(s) : (s \o t)[k] = s[k]
         /\ \A k \in 1..Len(t) : (s \o t)[Len(s) + k] = t[k]
<1>1. /\ s \o t \in Seq(S) /\ Len(s \o t) = Len(s) + Len(t)
      /\ \A k \in 1..(Len(s) + Len(t)) :
           (s \o t)[k] = IF k <= Len(s) THEN s[k] ELSE t[k - Len(s)]
  BY ConcatProperties
<1>2. Len(s) \in Nat /\ Len(t) \in Nat /\ DOMAIN (s \o t) = 1..Len(s \o t)
  BY <1>1, Elements
<1>3. ASSUME NEW k \in 1..Len(s) PROVE (s \o t)[k] = s[k]
  BY <1>1, <1>2, <1>3
<1>4. ASSUME NEW k \in 1..Len(t) PROVE (s \o t)[Len(s) + k] = t[k]
  <2>1. /\ Len(s) + k \in 1..(Len(s) + Len(t)) /\ ~ (Len(s) + k <= Len(s))
        /\ (Len(s) + k) - Len(s) = k
    BY <1>2
  <2> QED
    BY <1>1, <2>1
<1> QED
  BY <1>1, <1>2, <1>3, <1>4

LEMMA Added ==
  ASSUME NEW S, NEW s \in Seq(S), NEW e \in S
  PROVE  /\ Append(s, e) \in Seq(S) /\ Len(Append(s, e)) = Len(s) + 1
         /\ DOMAIN Append(s, e) = 1..(Len(s) + 1)
         /\ \A k \in 1..Len(s) : Append(s, e)[k] = s[k]
         /\ Append(s, e)[Len(s) + 1] = e
<1>1. /\ Append(s, e) \in Seq(S) /\ Len(Append(s, e)) = Len(s) + 1
      /\ \A k \in 1..Len(s) : Append(s, e)[k] = s[k]
      /\ Append(s, e)[Len(s) + 1] = e
  BY AppendProperties
<1>2. DOMAIN Append(s, e) = 1..Len(Append(s, e))
  BY <1>1, Elements
<1> QED
  BY <1>1, <1>2

LEMMA Replaced ==
  ASSUME NEW S, NEW s \in Seq(S), NEW i \in DOMAIN s, NEW e \in S
  PROVE  /\ [s EXCEPT ![i] = e] \in Seq(S) /\ Len([s EXCEPT ![i] = e]) = Len(s)
         /\ DOMAIN [s EXCEPT ![i] = e] = DOMAIN s
         /\ \A k \in DOMAIN s : [s EXCEPT ![i] = e][k] = IF k = i THEN e ELSE s[k]
<1>1. DOMAIN s = 1..Len(s)
  BY Elements
<1> QED
  BY <1>1, ExceptSeq

LEMMA MaxOfInterval ==
  ASSUME NEW m \in Nat, NEW S \in SUBSET (1..(m + 1)), m + 1 \in S
  PROVE  Max(S) = m + 1
<1>1. \A y \in S : m + 1 >= y
  OBVIOUS
<1>2. \A x \in S : (\A y \in S : x >= y) => x = m + 1
  OBVIOUS
<1>3. \E x \in S : \A y \in S : x >= y
  BY <1>1
<1>4. Max(S) \in S /\ \A y \in S : Max(S) >= y
  BY <1>3, Zenon DEF Max
<1> QED
  BY <1>2, <1>4

(* The function behind a fold that joins sequences exists.                 *)
Folds(f, g, base, s, m) ==
  f = [S \in SUBSET (1..m) |->
         IF S = {} THEN base ELSE f[S \ {Max(S)}] \o g[s[Max(S)]]]

LEMMA FoldExists ==
  ASSUME NEW g, NEW base, NEW s, NEW n \in Nat
  PROVE  \E f : Folds(f, g, base, s, n)
<1> DEFINE bad == {m \in Nat : ~ \E f : Folds(f, g, base, s, m)}
<1> SUFFICES ASSUME bad # {} PROVE FALSE
  OBVIOUS
<1>1. PICK m \in bad : \A k \in bad : m <= k
  <2>1. bad \in SUBSET Nat
    OBVIOUS
  <2> HIDE DEF bad
  <2> QED
    BY <2>1, Least
<1>2. CASE m = 0
  <2> DEFINE f == [S \in SUBSET (1..0) |-> base]
  <2>1. \A S \in SUBSET (1..0) : S = {}
    OBVIOUS
  <2>2. Folds(f, g, base, s, 0)
    BY <2>1 DEF Folds
  <2> QED
    BY <1>1, <1>2, <2>2
<1>3. CASE m # 0
  <2>1. m \in Nat /\ m - 1 \in Nat /\ (m - 1) + 1 = m /\ ~ (m <= m - 1)
    BY <1>3
  <2>2. PICK f : Folds(f, g, base, s, m - 1)
    BY <1>1, <2>1
  <2> DEFINE h == [S \in SUBSET (1..m) |->
                     IF m \in S THEN f[S \ {m}] \o g[s[m]] ELSE f[S]]
  <2>3. ASSUME NEW S \in SUBSET (1..m)
        PROVE  h[S] = IF S = {} THEN base ELSE h[S \ {Max(S)}] \o g[s[Max(S)]]
    <3>1. CASE m \in S
      <4>1. Max(S) = m
        BY <2>1, <3>1, MaxOfInterval
      <4>2. S \ {m} \in SUBSET (1..m) /\ m \notin S \ {m}
        OBVIOUS
      <4>3. h[S \ {m}] = f[S \ {m}]
        BY <4>2
      <4> QED
        BY <3>1, <4>1, <4>3
    <3>2. CASE m \notin S
      <4>1. S \in SUBSET (1..(m - 1))
        BY <2>1, <3>2
      <4>2. h[S] = f[S]
        BY <3>2
      <4>3. f[S] = IF S = {} THEN base ELSE f[S \ {Max(S)}] \o g[s[Max(S)]]
        BY <2>2, <4>1 DEF Folds
      <4>4. h[S \ {Max(S)}] = f[S \ {Max(S)}]
        <5>1. S \ {Max(S)} \in SUBSET (1..m) /\ m \notin S \ {Max(S)}
          BY <3>2
        <5> QED
          BY <5>1
      <4> QED
        BY <4>2, <4>3, <4>4
    <3> QED
      BY <3>1, <3>2
  <2>4. Folds(h, g, base, s, m)
    <3>1. h = [S \in SUBSET (1..m) |-> h[S]]
      OBVIOUS
    <3> HIDE DEF h
    <3> QED
      BY <2>3, <3>1 DEF Folds
  <2> QED
    BY <1>1, <2>4
<1> QED
  BY <1>2, <1>3

(* A fold that joins sequences, one at a time.                             *)
JoinAll(g, base, s) == FoldLeft(LAMBDA is, child : is \o g[child], base, s)
Joins(acc, g, base, s) ==
  /\ acc[0] = base
  /\ \A k \in 1..Len(s) : acc[k] = acc[k - 1] \o g[s[k]]

LEMMA FoldJoins ==
  ASSUME NEW g, NEW base, NEW S, NEW s \in Seq(S)
  PROVE  \E acc : /\ Joins(acc, g, base, s)
                  /\ JoinAll(g, base, s) = acc[Len(s)]
<1> DEFINE n == Len(s)
           iter == CHOOSE f : Folds(f, g, base, s, n)
           acc == [k \in 0..n |-> iter[1..k]]
<1>1. n \in Nat /\ DOMAIN s = 1..n
  BY Elements
<1>2. JoinAll(g, base, s) = iter[1..n]
  <2>1. JoinAll(g, base, s)
          = (CHOOSE f : f = [T \in SUBSET (DOMAIN s) |->
               IF T = {} THEN base ELSE f[T \ {Max(T)}] \o g[s[Max(T)]]])[DOMAIN s]
    BY DEF JoinAll, FoldLeft, MapThenFoldSet
  <2> QED
    BY <1>1, <2>1 DEF Folds
<1>3. Folds(iter, g, base, s, n)
  BY <1>1, FoldExists
<1> HIDE DEF iter
<1>4. acc[0] = base
  <2>1. 1..0 = {} /\ {} \in SUBSET (1..n) /\ 0 \in 0..n
    BY <1>1
  <2> QED
    BY <1>3, <2>1 DEF Folds
<1>5. ASSUME NEW k \in 1..n PROVE acc[k] = acc[k - 1] \o g[s[k]]
  <2>1. /\ 1..k \in SUBSET (1..n) /\ 1..k # {} /\ (1..k) \ {k} = 1..(k - 1)
        /\ k \in 0..n /\ k - 1 \in 0..n
    <3>1. k \in Nat /\ 1 <= k /\ k <= n /\ n \in Nat
      <4> HIDE DEF n
      <4> QED
        BY <1>1
    <3> HIDE DEF n
    <3>2. 1..k \in SUBSET (1..n) /\ k \in 0..n /\ k - 1 \in 0..n
      BY <3>1
    <3>3. k \in 1..k /\ (1..k) \ {k} = 1..(k - 1)
      BY <3>1
    <3> QED
      BY <3>2, <3>3
  <2>2. Max(1..k) = k
    <3>1. k - 1 \in Nat /\ (k - 1) + 1 = k /\ k \in 1..k
      OBVIOUS
    <3> QED
      BY <3>1, MaxOfInterval
  <2>3. iter[1..k] = iter[(1..k) \ {Max(1..k)}] \o g[s[Max(1..k)]]
    BY <1>3, <2>1 DEF Folds
  <2> QED
    BY <2>1, <2>2, <2>3
<1>6. acc[n] = iter[1..n]
  BY <1>1
<1> HIDE DEF acc, n
<1> QED
  BY <1>2, <1>4, <1>5, <1>6 DEF Joins, n

LEMMA FoldsAgree ==
  ASSUME NEW g, NEW h, NEW base, NEW S, NEW s \in Seq(S),
         \A k \in 1..Len(s) : g[s[k]] = h[s[k]]
  PROVE  JoinAll(g, base, s)
           = JoinAll(h, base, s)
<1>1. PICK a : /\ Joins(a, g, base, s)
               /\ JoinAll(g, base, s) = a[Len(s)]
  BY FoldJoins
<1>2. PICK b : /\ Joins(b, h, base, s)
               /\ JoinAll(h, base, s) = b[Len(s)]
  BY FoldJoins
<1> DEFINE bad == {k \in 0..Len(s) : a[k] # b[k]}
<1>3. bad = {}
  <2> SUFFICES ASSUME bad # {} PROVE FALSE
    OBVIOUS
  <2>1. PICK m \in bad : \A k \in bad : m <= k
    <3>1. bad \in SUBSET Nat
      OBVIOUS
    <3> HIDE DEF bad
    <3> QED
      BY <3>1, Least
  <2>2. m # 0
    BY <1>1, <1>2, <2>1 DEF Joins
  <2>3. Len(s) \in Nat
    BY Elements
  <2>4. m \in 1..Len(s) /\ m - 1 \in 0..Len(s) /\ ~ (m <= m - 1)
    BY <2>1, <2>2, <2>3
  <2>5. a[m - 1] = b[m - 1]
    BY <2>1, <2>4
  <2>6. a[m] = b[m]
    BY <1>1, <1>2, <2>4, <2>5 DEF Joins
  <2> QED
    BY <2>1, <2>6
<1>4. Len(s) \in 0..Len(s)
  <2>1. Len(s) \in Nat
    BY Elements
  <2> QED
    BY <2>1
<1> QED
  BY <1>1, <1>2, <1>3, <1>4

-----------------------------------------------------------------------------
(***************************************************************************)
(* The cleanup of a table and of what is below it.                         *)
(***************************************************************************)
CleanupFrom(c, t) == JoinAll(c, Frees(t), tables[t].children)
CleansFrom(c, m) ==
  /\ c = [t \in DOMAIN tables |-> c[t]]
  /\ \A t \in DOMAIN tables : t >= m => c[t] = CleanupFrom(c, t)

LEMMA CleanupExists ==
  ASSUME Typed, Forest
  PROVE  \E c : CleansFrom(c, 1)
<1>1. /\ Len(tables) \in Nat /\ DOMAIN tables = 1..Len(tables)
      /\ \A t \in 1..Len(tables) : tables[t] \in TableSet
  BY Elements DEF Typed
<1> DEFINE good == {m \in Nat : m >= 1 /\ \E c : CleansFrom(c, m)}
<1>2. Len(tables) + 1 \in good
  <2> DEFINE c == [t \in DOMAIN tables |-> 0]
  <2>1. c = [t \in DOMAIN tables |-> c[t]]
    OBVIOUS
  <2>2. \A t \in DOMAIN tables : ~ (t >= Len(tables) + 1)
    BY <1>1
  <2> HIDE DEF c
  <2>3. CleansFrom(c, Len(tables) + 1)
    BY <2>1, <2>2 DEF CleansFrom
  <2> QED
    BY <1>1, <2>3
<1>3. PICK m \in good : \A k \in good : m <= k
  <2>1. good \in SUBSET Nat /\ good # {}
    BY <1>2
  <2> HIDE DEF good
  <2> QED
    BY <2>1, Least
<1>4. CASE m = 1
  BY <1>3, <1>4
<1>5. CASE m # 1
  <2> DEFINE p == m - 1
  <2>1. p \in Nat /\ p >= 1 /\ ~ (m <= p) /\ m <= Len(tables) + 1
    BY <1>1, <1>2, <1>3, <1>5
  <2>2. p \in DOMAIN tables
    BY <1>1, <2>1
  <2>3. PICK c : CleansFrom(c, m)
    BY <1>3
  <2> DEFINE d == [c EXCEPT ![p] = CleanupFrom(c, p)]
  <2>4. /\ DOMAIN c = DOMAIN tables
        /\ \A t \in DOMAIN tables : d[t] = IF t = p THEN CleanupFrom(c, p) ELSE c[t]
        /\ d = [t \in DOMAIN tables |-> d[t]]
    BY <2>3 DEF CleansFrom
  <2> HIDE DEF d
  <2>5. ASSUME NEW t \in DOMAIN tables, t >= p
        PROVE  CleanupFrom(d, t) = CleanupFrom(c, t)
    <3>1. tables[t].children \in Seq(Nat)
      BY <1>1 DEF TableSet
    <3>2. ASSUME NEW k \in 1..Len(tables[t].children)
          PROVE  d[tables[t].children[k]] = c[tables[t].children[k]]
      <4>1. tables[t].children[k] \in (t + 1)..Len(tables)
        BY <3>1, Elements DEF Forest
      <4>2. t \in Nat
        BY <1>1
      <4>3. tables[t].children[k] \in DOMAIN tables /\ tables[t].children[k] # p
        BY <1>1, <2>1, <2>5, <4>1, <4>2
      <4> QED
        BY <2>4, <4>3
    <3> QED
      BY <3>1, <3>2, FoldsAgree DEF CleanupFrom
  <2>6. ASSUME NEW t \in DOMAIN tables, t >= p
        PROVE  d[t] = CleanupFrom(d, t)
    <3>1. CASE t = p
      BY <2>4, <2>5, <2>6, <3>1
    <3>2. CASE t # p
      <4>1. t >= m
        BY <1>1, <2>1, <2>6, <3>2
      <4> QED
        BY <2>3, <2>4, <2>5, <2>6, <3>2, <4>1 DEF CleansFrom
    <3> QED
      BY <3>1, <3>2
  <2>7. CleansFrom(d, p)
    BY <2>4, <2>6 DEF CleansFrom
  <2>8. p \in good
    BY <2>1, <2>7
  <2> QED
    BY <1>3, <2>1, <2>8
<1> QED
  BY <1>4, <1>5

LEMMA CleanupUnfolds ==
  ASSUME Typed, Forest
  PROVE  \A t \in DOMAIN tables : EmitCleanup[t] = CleanupFrom(EmitCleanup, t)
<1> DEFINE Whole(c) == c = [t \in DOMAIN tables |-> CleanupFrom(c, t)]
<1>1. PICK c : CleansFrom(c, 1)
  BY CleanupExists
<1>2. \A t \in DOMAIN tables : t >= 1
  <2>1. DOMAIN tables = 1..Len(tables) /\ Len(tables) \in Nat
    BY Elements DEF Typed
  <2> QED
    BY <2>1
<1>3. Whole(c)
  BY <1>1, <1>2 DEF CleansFrom
<1>4. EmitCleanup = CHOOSE f : Whole(f)
  BY DEF EmitCleanup, CleanupFrom, JoinAll
<1>5. Whole(EmitCleanup)
  <2> HIDE DEF Whole
  <2> QED
    BY <1>3, <1>4
<1> HIDE DEF EmitCleanup
<1> QED
  BY <1>5

LEMMA MadeJoined ==
  ASSUME NEW s \in Seq(Instructions), NEW t \in Seq(Instructions), NEW op
  PROVE  Made(s \o t, op) = Made(s, op) \cup Made(t, op)
<1>1. /\ DOMAIN s = 1..Len(s) /\ DOMAIN t = 1..Len(t) /\ Len(s) \in Nat /\ Len(t) \in Nat
      /\ DOMAIN (s \o t) = 1..(Len(s) + Len(t))
      /\ \A k \in 1..Len(s) : (s \o t)[k] = s[k]
      /\ \A k \in 1..Len(t) : (s \o t)[Len(s) + k] = t[k]
  BY Joined, Elements
<1>2. ASSUME NEW v \in Made(s \o t, op) PROVE v \in Made(s, op) \cup Made(t, op)
  <2>1. PICK k \in DOMAIN (s \o t) : (s \o t)[k].op = op /\ v \in (s \o t)[k].arg
    BY DEF Made
  <2>2. CASE k <= Len(s)
    <3>1. k \in DOMAIN s /\ (s \o t)[k] = s[k]
      BY <1>1, <2>2
    <3> QED
      BY <2>1, <3>1 DEF Made
  <2>3. CASE ~ (k <= Len(s))
    <3>1. k - Len(s) \in 1..Len(t) /\ Len(s) + (k - Len(s)) = k
      BY <1>1, <2>3
    <3>2. (s \o t)[k] = t[k - Len(s)]
      BY <1>1, <3>1
    <3> QED
      BY <1>1, <2>1, <3>1, <3>2 DEF Made
  <2> QED
    BY <2>2, <2>3
<1>3. ASSUME NEW v \in Made(s, op) PROVE v \in Made(s \o t, op)
  <2>1. PICK k \in DOMAIN s : s[k].op = op /\ v \in s[k].arg
    BY DEF Made
  <2>2. k \in DOMAIN (s \o t) /\ (s \o t)[k] = s[k]
    BY <1>1
  <2> QED
    BY <2>1, <2>2 DEF Made
<1>4. ASSUME NEW v \in Made(t, op) PROVE v \in Made(s \o t, op)
  <2>1. PICK k \in DOMAIN t : t[k].op = op /\ v \in t[k].arg
    BY DEF Made
  <2>2. Len(s) + k \in DOMAIN (s \o t) /\ (s \o t)[Len(s) + k] = t[k]
    BY <1>1
  <2> QED
    BY <2>1, <2>2 DEF Made
<1> QED
  BY <1>2, <1>3, <1>4

(* Nothing but instructions that free, each something else.                *)
FreesOnly(is) ==
  is \in Seq(Instructions) /\ Freeing(is) /\ \A k \in DOMAIN is : is[k].op = "free"

LEMMA FreesJoined ==
  ASSUME NEW s, NEW t, FreesOnly(s), FreesOnly(t),
         Made(s, "free") \cap Made(t, "free") = {}
  PROVE  FreesOnly(s \o t)
<1>1. /\ s \in Seq(Instructions) /\ t \in Seq(Instructions)
      /\ DOMAIN s = 1..Len(s) /\ DOMAIN t = 1..Len(t) /\ Len(s) \in Nat /\ Len(t) \in Nat
      /\ s \o t \in Seq(Instructions)
      /\ DOMAIN (s \o t) = 1..(Len(s) + Len(t))
      /\ \A k \in 1..Len(s) : (s \o t)[k] = s[k]
      /\ \A k \in 1..Len(t) : (s \o t)[Len(s) + k] = t[k]
  BY Joined, Elements DEF FreesOnly
<1>2. /\ \A k \in DOMAIN s : s[k].op = "free" /\ \E v \in s[k].arg : s[k].arg = {v}
      /\ \A k \in DOMAIN t : t[k].op = "free" /\ \E v \in t[k].arg : t[k].arg = {v}
  BY DEF FreesOnly, Freeing
<1>3. ASSUME NEW k \in DOMAIN (s \o t)
      PROVE  \/ k \in DOMAIN s /\ (s \o t)[k] = s[k]
             \/ k - Len(s) \in DOMAIN t /\ (s \o t)[k] = t[k - Len(s)]
  <2>1. CASE k <= Len(s)
    BY <1>1, <2>1
  <2>2. CASE ~ (k <= Len(s))
    <3>1. k - Len(s) \in 1..Len(t) /\ Len(s) + (k - Len(s)) = k
      BY <1>1, <2>2
    <3> QED
      BY <1>1, <3>1
  <2> QED
    BY <2>1, <2>2
<1>4. ASSUME NEW k \in DOMAIN s, NEW m \in DOMAIN t PROVE s[k].arg # t[m].arg
  <2>1. PICK v \in s[k].arg : s[k].arg = {v}
    BY <1>2
  <2>2. v \in Made(s, "free")
    BY <1>2 DEF Made
  <2>3. t[m].arg = s[k].arg => v \in Made(t, "free")
    BY <1>2, <2>1 DEF Made
  <2> QED
    BY <2>2, <2>3
<1>5. ASSUME NEW k \in DOMAIN (s \o t)
      PROVE  (s \o t)[k].op = "free" /\ \E v \in (s \o t)[k].arg : (s \o t)[k].arg = {v}
  BY <1>2, <1>3
<1>6. ASSUME NEW k \in DOMAIN (s \o t), NEW m \in DOMAIN (s \o t),
             (s \o t)[k].arg = (s \o t)[m].arg
      PROVE  k = m
  <2>1. CASE k \in DOMAIN s /\ m \in DOMAIN s /\ (s \o t)[k] = s[k] /\ (s \o t)[m] = s[m]
    BY <1>2, <1>6, <2>1 DEF FreesOnly, Freeing
  <2>2. CASE /\ k - Len(s) \in DOMAIN t /\ m - Len(s) \in DOMAIN t
             /\ (s \o t)[k] = t[k - Len(s)] /\ (s \o t)[m] = t[m - Len(s)]
    <3>1. k - Len(s) = m - Len(s)
      BY <1>2, <1>6, <2>2 DEF FreesOnly, Freeing
    <3>2. k \in Nat /\ m \in Nat
      BY <1>1
    <3> QED
      BY <1>1, <3>1, <3>2
  <2> QED
    BY <1>3, <1>4, <1>6, <2>1, <2>2
<1> QED
  BY <1>1, <1>5, <1>6 DEF FreesOnly, Freeing

(* The tables below a table, itself included.                              *)
ClosedBelow(S) ==
  \A p \in S : p \in DOMAIN tables => ToSet(tables[p].children) \subseteq S
Below(t) ==
  {d \in DOMAIN tables : \A S \in SUBSET DOMAIN tables : t \in S /\ ClosedBelow(S) => d \in S}

LEMMA TableNumbers ==
  ASSUME Typed, Forest
  PROVE  /\ Len(tables) \in Nat /\ DOMAIN tables = 1..Len(tables)
         /\ \A t \in DOMAIN tables :
              /\ tables[t] \in TableSet /\ t \in Nat
              /\ tables[t].children \in Seq(Nat) /\ tables[t].resources \in Seq(Nat)
              /\ DOMAIN tables[t].children = 1..Len(tables[t].children)
              /\ DOMAIN tables[t].resources = 1..Len(tables[t].resources)
              /\ Len(tables[t].children) \in Nat /\ Len(tables[t].resources) \in Nat
              /\ \A c \in ToSet(tables[t].children) : c \in DOMAIN tables /\ t < c
<1>1. /\ Len(tables) \in Nat /\ DOMAIN tables = 1..Len(tables)
      /\ \A t \in DOMAIN tables : tables[t] \in TableSet
  BY Elements DEF Typed
<1>2. ASSUME NEW t \in DOMAIN tables
      PROVE  /\ t \in Nat
             /\ tables[t].children \in Seq(Nat) /\ tables[t].resources \in Seq(Nat)
             /\ \A c \in ToSet(tables[t].children) : c \in DOMAIN tables /\ t < c
  <2>1. t \in Nat /\ t >= 1
    BY <1>1
  <2>2. \A k \in DOMAIN tables[t].children : tables[t].children[k] \in (t + 1)..Len(tables)
    BY DEF Forest
  <2>3. \A k \in DOMAIN tables[t].children :
          tables[t].children[k] \in 1..Len(tables) /\ t < tables[t].children[k]
    BY <1>1, <2>1, <2>2
  <2> QED
    BY <1>1, <2>1, <2>3 DEF ToSet, TableSet
<1> QED
  BY <1>1, <1>2, Elements

LEMMA BelowTables ==
  ASSUME Typed, Forest, NEW t \in DOMAIN tables
  PROVE  /\ Below(t) \in SUBSET DOMAIN tables
         /\ t \in Below(t) /\ ClosedBelow(Below(t))
         /\ \A d \in Below(t) : t <= d
         /\ \A d \in Below(t) : d = t \/ \E p \in Below(t) : d \in ToSet(tables[p].children)
         /\ Below(t) = {t} \cup UNION {Below(c) : c \in ToSet(tables[t].children)}
<1>1. /\ Len(tables) \in Nat /\ DOMAIN tables = 1..Len(tables)
      /\ \A p \in DOMAIN tables : p \in Nat
      /\ \A p \in DOMAIN tables : \A c \in ToSet(tables[p].children) : c \in DOMAIN tables /\ p < c
  BY TableNumbers
<1>2. Below(t) \in SUBSET DOMAIN tables /\ t \in Below(t)
  BY DEF Below
<1>3. ClosedBelow(Below(t))
  BY <1>1 DEF Below, ClosedBelow
<1>4. ASSUME NEW d \in Below(t) PROVE t <= d
  <2> DEFINE S == {c \in DOMAIN tables : t <= c}
  <2>1. t \in S
    BY <1>1
  <2>2. ClosedBelow(S)
    <3>1. ASSUME NEW p \in S, NEW c \in ToSet(tables[p].children) PROVE c \in S
      <4>1. c \in DOMAIN tables /\ p < c /\ p \in Nat /\ c \in Nat /\ t \in Nat /\ t <= p
        BY <1>1
      <4> QED
        BY <4>1
    <3> QED
      BY <3>1 DEF ClosedBelow
  <2>3. S \in SUBSET DOMAIN tables
    OBVIOUS
  <2>4. d \in S
    BY <2>1, <2>2, <2>3 DEF Below
  <2> QED
    BY <2>4
<1>5. ASSUME NEW d \in Below(t), d # t, \A p \in Below(t) : d \notin ToSet(tables[p].children)
      PROVE  FALSE
  <2> DEFINE S == Below(t) \ {d}
  <2>1. t \in S /\ S \in SUBSET DOMAIN tables
    BY <1>2, <1>5
  <2>2. ClosedBelow(S)
    BY <1>3, <1>5 DEF ClosedBelow
  <2>3. d \in S
    BY <2>1, <2>2 DEF Below
  <2> QED
    BY <2>3
<1> DEFINE T == {t} \cup UNION {Below(c) : c \in ToSet(tables[t].children)}
<1>6. Below(t) \subseteq T
  <2>1. t \in T /\ T \in SUBSET DOMAIN tables
    BY DEF Below
  <2>2. ASSUME NEW p \in T, p \in DOMAIN tables, NEW c \in ToSet(tables[p].children)
        PROVE  c \in T
    <3>1. CASE p = t
      <4>1. c \in DOMAIN tables /\ c \in Below(c)
        BY <1>1, <3>1 DEF Below
      <4> QED
        BY <3>1, <4>1
    <3>2. CASE p # t
      <4>1. PICK b \in ToSet(tables[t].children) : p \in Below(b)
        BY <3>2
      <4>2. c \in Below(b)
        BY <1>1, <4>1 DEF Below, ClosedBelow
      <4> QED
        BY <4>2
    <3> QED
      BY <3>1, <3>2
  <2>3. ClosedBelow(T)
    BY <2>2 DEF ClosedBelow
  <2> HIDE DEF T
  <2> QED
    BY <2>1, <2>3 DEF Below
<1>7. T \subseteq Below(t)
  <2>1. ASSUME NEW c \in ToSet(tables[t].children), NEW d \in Below(c) PROVE d \in Below(t)
    <3>1. c \in Below(t)
      BY <1>2, <1>3 DEF ClosedBelow
    <3> QED
      BY <1>2, <1>3, <3>1 DEF Below
  <2> QED
    BY <1>2, <2>1
<1> QED
  BY <1>2, <1>3, <1>4, <1>5, <1>6, <1>7

LEMMA OneParent ==
  ASSUME Forest, NEW p \in DOMAIN tables, NEW q \in DOMAIN tables,
         NEW c \in ToSet(tables[p].children), c \in ToSet(tables[q].children)
  PROVE  p = q
<1>1. PICK k \in DOMAIN tables[p].children : tables[p].children[k] = c
  BY DEF ToSet
<1>2. PICK m \in DOMAIN tables[q].children : tables[q].children[m] = c
  BY DEF ToSet
<1> QED
  BY <1>1, <1>2 DEF Forest

LEMMA ChildrenApart ==
  ASSUME Typed, Forest, NEW t \in DOMAIN tables,
         NEW a \in ToSet(tables[t].children), NEW b \in ToSet(tables[t].children), a # b
  PROVE  Below(a) \cap Below(b) = {}
<1>1. /\ a \in DOMAIN tables /\ b \in DOMAIN tables /\ t < a /\ t < b
      /\ t \in Nat /\ a \in Nat /\ b \in Nat
      /\ \A p \in DOMAIN tables : p \in Nat
      /\ \A p \in DOMAIN tables : \A c \in ToSet(tables[p].children) : p < c
  BY TableNumbers
<1>2. /\ Below(a) \in SUBSET DOMAIN tables /\ \A d \in Below(a) : a <= d
      /\ \A d \in Below(a) : d = a \/ \E p \in Below(a) : d \in ToSet(tables[p].children)
  BY <1>1, BelowTables
<1>3. /\ Below(b) \in SUBSET DOMAIN tables /\ \A d \in Below(b) : b <= d
      /\ \A d \in Below(b) : d = b \/ \E p \in Below(b) : d \in ToSet(tables[p].children)
  BY <1>1, BelowTables
<1>4. a \notin Below(b)
  <2> SUFFICES ASSUME a \in Below(b) PROVE FALSE
    OBVIOUS
  <2>1. PICK p \in Below(b) : a \in ToSet(tables[p].children)
    BY <1>3
  <2>2. p = t
    BY <1>3, <2>1, OneParent
  <2>3. b <= t
    BY <1>3, <2>1, <2>2
  <2> QED
    BY <1>1, <2>3
<1>5. b \notin Below(a)
  <2> SUFFICES ASSUME b \in Below(a) PROVE FALSE
    OBVIOUS
  <2>1. PICK p \in Below(a) : b \in ToSet(tables[p].children)
    BY <1>2
  <2>2. p = t
    BY <1>2, <2>1, OneParent
  <2>3. a <= t
    BY <1>2, <2>1, <2>2
  <2> QED
    BY <1>1, <2>3
<1> DEFINE X == Below(a) \cap Below(b)
<1> SUFFICES ASSUME X # {} PROVE FALSE
  OBVIOUS
<1>6. PICK d \in X : \A e \in X : d <= e
  <2>1. X \in SUBSET Nat
    BY <1>1, <1>2
  <2> HIDE DEF X
  <2> QED
    BY <2>1, Least
<1>7. PICK p \in Below(a) : d \in ToSet(tables[p].children)
  BY <1>2, <1>4, <1>6
<1>8. PICK q \in Below(b) : d \in ToSet(tables[q].children)
  BY <1>3, <1>5, <1>6
<1>9. p = q
  BY <1>2, <1>3, <1>7, <1>8, OneParent
<1>10. d <= p /\ p < d /\ p \in Nat /\ d \in Nat
  <2>1. p \in X /\ p \in DOMAIN tables /\ d \in DOMAIN tables
    BY <1>2, <1>6, <1>9
  <2> QED
    BY <1>1, <1>6, <1>7, <2>1
<1> QED
  BY <1>10

ResourcesOf(S) == UNION {Resources(d) : d \in S}

LEMMA ResourcesApart ==
  ASSUME Registered, NEW S \in SUBSET DOMAIN tables, NEW T \in SUBSET DOMAIN tables,
         S \cap T = {}
  PROVE  ResourcesOf(S) \cap ResourcesOf(T) = {}
<1> SUFFICES ASSUME NEW v \in ResourcesOf(S), v \in ResourcesOf(T) PROVE FALSE
  OBVIOUS
<1>1. PICK d \in S : \E k \in DOMAIN tables[d].resources : tables[d].resources[k] = v
  BY DEF ResourcesOf, Resources, ToSet
<1>2. PICK e \in T : \E k \in DOMAIN tables[e].resources : tables[e].resources[k] = v
  BY DEF ResourcesOf, Resources, ToSet
<1>3. d = e
  BY <1>1, <1>2 DEF Registered
<1> QED
  BY <1>3

LEMMA FreesOfTable ==
  ASSUME Typed, Forest, Registered, NEW t \in DOMAIN tables
  PROVE  FreesOnly(Frees(t)) /\ Made(Frees(t), "free") = Resources(t)
<1> DEFINE r == tables[t].resources
<1>1. r \in Seq(Nat) /\ DOMAIN r = 1..Len(r) /\ Len(r) \in Nat /\ \A k \in DOMAIN r : r[k] \in Nat
  BY TableNumbers, Elements
<1>2. /\ DOMAIN Frees(t) = DOMAIN r
      /\ \A k \in DOMAIN r : Frees(t)[k].op = "free" /\ Frees(t)[k].arg = {r[k]}
      /\ \A k \in DOMAIN r : Frees(t)[k] \in Instructions
  BY <1>1 DEF Frees, Instruction, Instructions, Operations
<1>3. Frees(t) \in Seq(Instructions)
  <2>1. Frees(t) = [k \in 1..Len(r) |-> Frees(t)[k]]
    BY <1>1 DEF Frees
  <2>2. \A k \in 1..Len(r) : Frees(t)[k] \in Instructions
    BY <1>1, <1>2
  <2> HIDE DEF r
  <2>3. [k \in 1..Len(r) |-> Frees(t)[k]] \in Seq(Instructions)
    BY <1>1, <2>2, IsASeq
  <2> QED
    BY <2>1, <2>3
<1>4. \A k, m \in DOMAIN r : r[k] = r[m] => k = m
  BY DEF Registered
<1>5. Freeing(Frees(t))
  <2>1. ASSUME NEW k \in DOMAIN Frees(t)
        PROVE  \E v \in Frees(t)[k].arg : Frees(t)[k].arg = {v}
    BY <1>2
  <2>2. ASSUME NEW k \in DOMAIN Frees(t), NEW m \in DOMAIN Frees(t),
               Frees(t)[k].arg = Frees(t)[m].arg
        PROVE  k = m
    <3>1. r[k] = r[m]
      BY <1>2, <2>2
    <3> QED
      BY <1>2, <1>4, <3>1
  <2> QED
    BY <2>1, <2>2 DEF Freeing
<1>6. Made(Frees(t), "free") = Resources(t)
  <2>1. \A v : v \in Made(Frees(t), "free") <=> \E k \in DOMAIN r : v = r[k]
    BY <1>2 DEF Made
  <2>2. \A v : v \in Resources(t) <=> \E k \in DOMAIN r : v = r[k]
    BY DEF Resources, ToSet
  <2> QED
    BY <2>1, <2>2
<1> QED
  BY <1>2, <1>3, <1>5, <1>6 DEF FreesOnly

(* The cleanup of a table frees what is registered in it and below it.     *)
Frees0(t) ==
  /\ FreesOnly(EmitCleanup[t])
  /\ Made(EmitCleanup[t], "free") = ResourcesOf(Below(t))

LEMMA CleanupOfTable ==
  ASSUME Typed, Forest, Registered, NEW t \in DOMAIN tables,
         \A c \in ToSet(tables[t].children) : Frees0(c)
  PROVE  Frees0(t)
<1> DEFINE s == tables[t].children
           G(k) == {t} \cup UNION {Below(s[i]) : i \in 1..k}
<1>1. /\ s \in Seq(Nat) /\ DOMAIN s = 1..Len(s) /\ Len(s) \in Nat
      /\ \A k \in 1..Len(s) : s[k] \in ToSet(s) /\ s[k] \in DOMAIN tables /\ t < s[k]
      /\ t \in Nat /\ \A k \in 1..Len(s) : s[k] \in Nat
  BY TableNumbers DEF ToSet
<1>2. PICK acc : /\ Joins(acc, EmitCleanup, Frees(t), s)
                 /\ JoinAll(EmitCleanup, Frees(t), s) = acc[Len(s)]
  BY <1>1, FoldJoins
<1>3. EmitCleanup[t] = acc[Len(s)]
  BY <1>2, CleanupUnfolds DEF CleanupFrom
<1>4. \A k \in 1..Len(s) : Below(s[k]) \in SUBSET DOMAIN tables
  BY DEF Below
<1>5. ASSUME NEW k \in 1..Len(s) PROVE G(k - 1) \cap Below(s[k]) = {}
  <2>1. t \notin Below(s[k])
    <3>1. t \in Below(s[k]) => s[k] <= t
      BY <1>1, BelowTables
    <3> QED
      BY <1>1, <3>1
  <2>2. ASSUME NEW i \in 1..(k - 1) PROVE Below(s[i]) \cap Below(s[k]) = {}
    <3>1. i \in 1..Len(s) /\ i # k
      BY <1>1
    <3>2. s[i] # s[k]
      BY <1>1, <3>1 DEF Forest
    <3> QED
      BY <1>1, <3>1, <3>2, ChildrenApart
  <2> QED
    BY <2>1, <2>2
<1>6. ASSUME NEW k \in 0..Len(s) PROVE G(k) \in SUBSET DOMAIN tables
  BY <1>4
<1> DEFINE Ok(k) == FreesOnly(acc[k]) /\ Made(acc[k], "free") = ResourcesOf(G(k))
           bad == {k \in 0..Len(s) : ~ Ok(k)}
<1>7. Ok(0)
  <2>1. G(0) = {t} /\ acc[0] = Frees(t)
    BY <1>2 DEF Joins
  <2>2. ResourcesOf({t}) = Resources(t)
    BY DEF ResourcesOf
  <2> QED
    BY <2>1, <2>2, FreesOfTable
<1>8. ASSUME NEW k \in 1..Len(s), Ok(k - 1) PROVE Ok(k)
  <2>1. acc[k] = acc[k - 1] \o EmitCleanup[s[k]]
    BY <1>2 DEF Joins
  <2>2. Frees0(s[k])
    BY <1>1
  <2>3. k - 1 \in 0..Len(s) /\ 1..k = (1..(k - 1)) \cup {k}
    BY <1>1
  <2>4. G(k) = G(k - 1) \cup Below(s[k])
    BY <2>3
  <2>5. ResourcesOf(G(k)) = ResourcesOf(G(k - 1)) \cup ResourcesOf(Below(s[k]))
    BY <2>4 DEF ResourcesOf
  <2>6. G(k - 1) \in SUBSET DOMAIN tables /\ Below(s[k]) \in SUBSET DOMAIN tables
    BY <1>4, <1>6, <2>3
  <2>7. ResourcesOf(G(k - 1)) \cap ResourcesOf(Below(s[k])) = {}
    BY <1>5, <2>6, ResourcesApart
  <2> DEFINE a == acc[k - 1]
             b == EmitCleanup[s[k]]
  <2>8. /\ FreesOnly(a) /\ Made(a, "free") = ResourcesOf(G(k - 1))
        /\ FreesOnly(b) /\ Made(b, "free") = ResourcesOf(Below(s[k]))
    BY <1>8, <2>2 DEF Frees0
  <2> HIDE DEF G, s, a, b
  <2>9. FreesOnly(a \o b)
    BY <2>7, <2>8, FreesJoined
  <2>10. a \in Seq(Instructions) /\ b \in Seq(Instructions)
    BY <2>8 DEF FreesOnly
  <2>11. Made(a \o b, "free") = Made(a, "free") \cup Made(b, "free")
    BY <2>10, MadeJoined
  <2>12. Made(a \o b, "free") = ResourcesOf(G(k))
    BY <2>5, <2>8, <2>11
  <2>13. acc[k] = a \o b
    BY <2>1 DEF a, b
  <2> QED
    BY <2>9, <2>12, <2>13
<1>9. bad = {}
  <2> SUFFICES ASSUME bad # {} PROVE FALSE
    OBVIOUS
  <2>1. PICK m \in bad : \A k \in bad : m <= k
    <3>1. bad \in SUBSET Nat
      OBVIOUS
    <3> HIDE DEF bad
    <3> QED
      BY <3>1, Least
  <2> HIDE DEF Ok
  <2>2. m # 0
    BY <1>7, <2>1
  <2>3. m \in 1..Len(s) /\ m - 1 \in 0..Len(s) /\ ~ (m <= m - 1)
    BY <1>1, <2>1, <2>2
  <2>4. Ok(m - 1)
    BY <2>1, <2>3
  <2> QED
    BY <1>8, <2>1, <2>3, <2>4
<1>10. Ok(Len(s))
  <2> HIDE DEF Ok
  <2>1. Len(s) \in 0..Len(s)
    BY <1>1
  <2> QED
    BY <1>9, <2>1
<1>11. G(Len(s)) = Below(t)
  <2>1. Below(t) = {t} \cup UNION {Below(c) : c \in ToSet(s)}
    BY BelowTables
  <2>2. UNION {Below(c) : c \in ToSet(s)} = UNION {Below(s[i]) : i \in 1..Len(s)}
    BY <1>1 DEF ToSet
  <2> QED
    BY <2>1, <2>2
<1> QED
  BY <1>3, <1>10, <1>11 DEF Frees0

LEMMA CleanupFrees ==
  ASSUME Typed, Forest, Registered, NEW t \in DOMAIN tables
  PROVE  Frees0(t)
<1>1. /\ Len(tables) \in Nat /\ DOMAIN tables = 1..Len(tables)
      /\ \A p \in DOMAIN tables : p \in Nat
      /\ \A p \in DOMAIN tables : \A c \in ToSet(tables[p].children) : c \in DOMAIN tables /\ p < c
  BY TableNumbers
<1> DEFINE bad == {n \in Nat : Len(tables) - n \in DOMAIN tables /\ ~ Frees0(Len(tables) - n)}
<1>2. bad = {}
  <2> SUFFICES ASSUME bad # {} PROVE FALSE
    OBVIOUS
  <2>1. PICK m \in bad : \A k \in bad : m <= k
    <3>1. bad \in SUBSET Nat
      OBVIOUS
    <3> HIDE DEF bad
    <3> QED
      BY <3>1, Least
  <2> DEFINE p == Len(tables) - m
  <2>2. p \in DOMAIN tables /\ ~ Frees0(p) /\ p \in Nat
    BY <1>1, <2>1
  <2>3. ASSUME NEW c \in ToSet(tables[p].children) PROVE Frees0(c)
    <3>1. c \in DOMAIN tables /\ p < c /\ c \in Nat /\ c <= Len(tables)
      <4> HIDE DEF p
      <4> QED
        BY <1>1, <2>2
    <3>2. Len(tables) - c \in Nat /\ ~ (m <= Len(tables) - c) /\ Len(tables) - (Len(tables) - c) = c
      BY <1>1, <2>1, <3>1
    <3> QED
      BY <2>1, <3>1, <3>2
  <2> HIDE DEF p
  <2> QED
    BY <2>2, <2>3, CleanupOfTable
<1>3. Len(tables) - t \in Nat /\ Len(tables) - (Len(tables) - t) = t
  BY <1>1
<1> QED
  BY <1>2, <1>3

(* The cleanup of the function that ends frees what the function has       *)
(* allocated.                                                              *)
Cleaning(own) == JoinAll(EmitCleanup, <<>>, Reverse(tables[own].children))

LEMMA BelowFunction ==
  ASSUME Typed, Forest, Owned, exit # 0, NEW k, Opener(k)
  PROVE  /\ visits[k].own + 1 \in DOMAIN tables
         /\ Below(visits[k].own + 1) = (visits[k].own + 1)..Len(tables)
<1> DEFINE own == visits[k].own
           bad == {d \in (own + 1)..Len(tables) : d \notin Below(own + 1)}
<1>1. /\ Len(tables) \in Nat /\ DOMAIN tables = 1..Len(tables)
      /\ \A p \in DOMAIN tables : p \in Nat
      /\ \A p \in DOMAIN tables : \A c \in ToSet(tables[p].children) : c \in DOMAIN tables /\ p < c
  BY TableNumbers
<1>2. own \in DOMAIN tables /\ own \in Nat /\ own >= 1
  <2>1. visits[k].own \in ToSet(tables[visits[k].old].children) /\ visits[k].old \in DOMAIN tables
    BY DEF Opener, Forest
  <2>2. own \in DOMAIN tables
    BY <1>1, <2>1
  <2> QED
    BY <1>1, <2>2
<1>3. own + 1 \in DOMAIN tables /\ own + 1 <= Len(tables)
  <2>1. currentSymbols > own /\ currentSymbols \in 1..Len(tables)
    <3>1. k \in DOMAIN visits
      BY DEF Opener
    <3> QED
      BY <3>1 DEF Owned, Forest
  <2> HIDE DEF own
  <2> QED
    BY <1>1, <1>2, <2>1
<1>4. \A p \in DOMAIN tables : \A c \in ToSet(tables[p].children) : c > own + 1 => p > own
  <2>1. k \in DOMAIN visits
    BY DEF Opener
  <2>2. \A p \in DOMAIN tables : \A m \in DOMAIN tables[p].children :
          tables[p].children[m] > own + 1 => p > own
    BY <2>1 DEF Owned
  <2> HIDE DEF own
  <2> QED
    BY <2>2 DEF ToSet
<1> HIDE DEF own
<1>5. /\ Below(own + 1) \in SUBSET DOMAIN tables /\ own + 1 \in Below(own + 1)
      /\ ClosedBelow(Below(own + 1)) /\ \A d \in Below(own + 1) : own + 1 <= d
  BY <1>3, BelowTables
<1>6. bad = {}
  <2> SUFFICES ASSUME bad # {} PROVE FALSE
    OBVIOUS
  <2>1. PICK d \in bad : \A e \in bad : d <= e
    <3>1. bad \in SUBSET Nat
      BY <1>2
    <3> HIDE DEF bad
    <3> QED
      BY <3>1, Least
  <2>2. /\ d \in 2..Len(tables) /\ d > own + 1 /\ d \in Nat
        /\ d \notin Below(own + 1)
    <3>1. d # own + 1
      BY <1>5
    <3> QED
      BY <1>1, <1>2, <3>1
  <2>3. PICK p \in DOMAIN tables : d \in ToSet(tables[p].children)
    BY <2>2 DEF Forest
  <2>4. p > own /\ p < d /\ p \in Nat /\ p <= Len(tables)
    BY <1>1, <1>4, <2>2, <2>3
  <2>5. p \in (own + 1)..Len(tables) /\ ~ (d <= p)
    BY <1>2, <2>2, <2>4
  <2>6. p \in Below(own + 1)
    BY <2>1, <2>5
  <2> QED
    BY <1>5, <2>2, <2>3, <2>6 DEF ClosedBelow
<1>7. ASSUME NEW d \in Below(own + 1) PROVE d \in (own + 1)..Len(tables)
  BY <1>1, <1>2, <1>5
<1>8. Below(own + 1) = (own + 1)..Len(tables)
  BY <1>6, <1>7
<1> QED
  BY <1>3, <1>8 DEF own

LEMMA NothingFreed ==
  FreesOnly(<<>>) /\ Made(<<>>, "free") = {}
<1>1. <<>> \in Seq(Instructions) /\ DOMAIN <<>> = {}
  OBVIOUS
<1> QED
  BY <1>1 DEF FreesOnly, Freeing, Made

LEMMA CleanupOfFunction ==
  ASSUME Typed, Forest, Registered, Owned, exit # 0, NEW k, Opener(k)
  PROVE  /\ FreesOnly(Cleaning(visits[k].own))
         /\ Made(Cleaning(visits[k].own), "free") = Memory(Len(functions))
<1> DEFINE own == visits[k].own
           s == Reverse(tables[own].children)
<1>1. own + 1 \in DOMAIN tables /\ Below(own + 1) = (own + 1)..Len(tables)
  BY BelowFunction
<1>2. /\ tables[own].children = <<own + 1>>
      /\ UNION {Resources(t) : t \in (own + 1)..Len(tables)} = Memory(Len(functions))
  <2>1. k \in DOMAIN visits
    BY DEF Opener
  <2> QED
    BY <2>1 DEF Owned
<1>3. ResourcesOf(Below(own + 1)) = Memory(Len(functions))
  BY <1>1, <1>2 DEF ResourcesOf
<1> HIDE DEF own
<1>4. own + 1 \in Nat
  BY <1>1, TableNumbers
<1>5. s \in Seq(Nat) /\ Len(s) = 1 /\ s[1] = own + 1
  <2>1. Len(<<own + 1>>) = 1 /\ <<own + 1>>[1] = own + 1
    OBVIOUS
  <2>2. s = [j \in 1..1 |-> <<own + 1>>[(1 - j) + 1]]
    BY <1>2, <2>1 DEF Reverse
  <2>3. \A j \in 1..1 : (1 - j) + 1 = 1
    OBVIOUS
  <2>4. s = [j \in 1..1 |-> own + 1]
    BY <2>1, <2>2, <2>3
  <2> HIDE DEF s
  <2> QED
    BY <1>4, <2>4
<1> HIDE DEF s
<1>6. PICK acc : /\ Joins(acc, EmitCleanup, <<>>, s)
                 /\ JoinAll(EmitCleanup, <<>>, s) = acc[Len(s)]
  BY <1>5, FoldJoins
<1>7. acc[1] = <<>> \o EmitCleanup[own + 1]
  <2>1. 1 \in 1..Len(s) /\ 1 - 1 = 0
    BY <1>5
  <2> QED
    BY <1>5, <1>6, <2>1 DEF Joins
<1>8. FreesOnly(EmitCleanup[own + 1]) /\ Made(EmitCleanup[own + 1], "free") = Memory(Len(functions))
  BY <1>1, <1>3, CleanupFrees DEF Frees0
<1> DEFINE e == EmitCleanup[own + 1]
<1> HIDE DEF e
<1>9. /\ <<>> \in Seq(Instructions) /\ e \in Seq(Instructions) /\ FreesOnly(e)
      /\ Made(e, "free") = Memory(Len(functions))
  BY <1>8 DEF FreesOnly, e
<1>10. FreesOnly(<<>> \o e)
  BY <1>9, NothingFreed, FreesJoined
<1>11. Made(<<>> \o e, "free") = Made(e, "free")
  BY <1>9, NothingFreed, MadeJoined
<1>12. Cleaning(own) = <<>> \o e
  BY <1>5, <1>6, <1>7 DEF Cleaning, s, e
<1> QED
  BY <1>9, <1>10, <1>11, <1>12 DEF own

-----------------------------------------------------------------------------
(***************************************************************************)
(* The code grows: blocks and functions stay, and instructions are added   *)
(* at the end of blocks.                                                   *)
(***************************************************************************)
LEMMA CodeNumbers ==
  ASSUME Typed
  PROVE  /\ Len(blocks) \in Nat /\ DOMAIN blocks = 1..Len(blocks)
         /\ Len(functions) \in Nat /\ DOMAIN functions = 1..Len(functions)
         /\ \A b \in DOMAIN blocks :
              /\ b \in Nat /\ blocks[b] \in BlockSet /\ blocks[b].function \in Nat
              /\ blocks[b].code \in Seq(Instructions) /\ Len(blocks[b].code) \in Nat
              /\ DOMAIN blocks[b].code = 1..Len(blocks[b].code)
         /\ \A f \in DOMAIN functions : f \in Nat /\ functions[f].entry \in Nat
<1>1. /\ Len(blocks) \in Nat /\ DOMAIN blocks = 1..Len(blocks)
      /\ \A b \in DOMAIN blocks : blocks[b] \in BlockSet
      /\ Len(functions) \in Nat /\ DOMAIN functions = 1..Len(functions)
      /\ \A f \in DOMAIN functions : functions[f] \in FunctionSet
  BY Elements DEF Typed
<1>2. \A b \in DOMAIN blocks : /\ blocks[b].function \in Nat
                               /\ blocks[b].code \in Seq(Instructions)
  BY <1>1 DEF BlockSet
<1>3. \A b \in DOMAIN blocks : /\ Len(blocks[b].code) \in Nat
                               /\ DOMAIN blocks[b].code = 1..Len(blocks[b].code)
  BY <1>2, Elements
<1>4. \A f \in DOMAIN functions : functions[f].entry \in Nat
  BY <1>1 DEF FunctionSet
<1> QED
  BY <1>1, <1>2, <1>3, <1>4

Ends(s) == s # <<>> /\ Last(s).op \in Terminators

LEMMA Longer ==
  ASSUME NEW s \in Seq(Instructions), NEW is \in Seq(Instructions)
  PROVE  /\ Overrun(s) => Overrun(s \o is)
         /\ Ends(s) => Ends(s \o is) \/ Overrun(s \o is)
         /\ Ends(s) /\ is # <<>> => Overrun(s \o is)
         /\ ~ Ends(s) /\ ~ Overrun(s) => \A k \in DOMAIN s : s[k].op \notin Terminators
<1>1. /\ DOMAIN s = 1..Len(s) /\ Len(s) \in Nat /\ Len(is) \in Nat
      /\ Len(s \o is) = Len(s) + Len(is) /\ DOMAIN (s \o is) = 1..(Len(s) + Len(is))
      /\ \A k \in 1..Len(s) : (s \o is)[k] = s[k]
      /\ s = <<>> <=> Len(s) = 0
      /\ is = <<>> <=> Len(is) = 0
      /\ s \o is = <<>> <=> Len(s \o is) = 0
  <2>1. /\ DOMAIN s = 1..Len(s) /\ Len(s) \in Nat
        /\ s = <<>> <=> Len(s) = 0
    BY Elements
  <2>2. /\ Len(is) \in Nat
        /\ is = <<>> <=> Len(is) = 0
    BY Elements
  <2>3. /\ s \o is \in Seq(Instructions)
        /\ Len(s \o is) = Len(s) + Len(is) /\ DOMAIN (s \o is) = 1..(Len(s) + Len(is))
        /\ \A k \in 1..Len(s) : (s \o is)[k] = s[k]
    BY Joined
  <2>4. s \o is = <<>> <=> Len(s \o is) = 0
    BY <2>3, Elements
  <2> QED
    BY <2>1, <2>2, <2>3, <2>4
<1>2. ASSUME Overrun(s) PROVE Overrun(s \o is)
  <2>1. PICK k \in DOMAIN s : k # Len(s) /\ s[k].op \in Terminators
    BY <1>2 DEF Overrun
  <2>2. k \in DOMAIN (s \o is) /\ k # Len(s \o is) /\ (s \o is)[k] = s[k]
    BY <1>1, <2>1
  <2> QED
    BY <2>1, <2>2 DEF Overrun
<1>3. ASSUME Ends(s), is # <<>> PROVE Overrun(s \o is)
  <2>1. Len(s) \in 1..Len(s) /\ s[Len(s)].op \in Terminators /\ Len(is) > 0
    BY <1>1, <1>3 DEF Ends, Last
  <2>2. (s \o is)[Len(s)] = s[Len(s)]
    BY <1>1, <2>1
  <2>3. Len(s) \in 1..(Len(s) + Len(is)) /\ Len(s) # Len(s) + Len(is)
    <3> DEFINE n == Len(s)
               m == Len(is)
    <3>1. n \in Nat /\ m \in Nat /\ m > 0 /\ n \in 1..n
      BY <1>1, <2>1
    <3> HIDE DEF n, m
    <3>2. n \in 1..(n + m) /\ n # n + m
      BY <3>1
    <3> QED
      BY <3>2 DEF n, m
  <2>4. Len(s) \in DOMAIN (s \o is) /\ Len(s) # Len(s \o is)
    BY <1>1, <2>3
  <2> QED
    BY <2>1, <2>2, <2>4 DEF Overrun
<1>4. ASSUME Ends(s), is = <<>> PROVE Ends(s \o is)
  <2>1. Len(s) \in 1..Len(s) /\ s[Len(s)].op \in Terminators
    BY <1>1, <1>4 DEF Ends, Last
  <2>2. Len(s \o is) = Len(s) /\ s \o is # <<>> /\ (s \o is)[Len(s \o is)] = s[Len(s)]
    BY <1>1, <1>4, <2>1
  <2> QED
    BY <2>1, <2>2 DEF Ends, Last
<1>5. ASSUME ~ Ends(s), ~ Overrun(s), NEW k \in DOMAIN s PROVE s[k].op \notin Terminators
  <2>1. CASE k = Len(s)
    BY <1>1, <1>5, <2>1 DEF Ends, Last
  <2>2. CASE k # Len(s)
    BY <1>5, <2>2 DEF Overrun
  <2> QED
    BY <2>1, <2>2
<1> QED
  BY <1>2, <1>3, <1>4, <1>5

Grown ==
  /\ blocks' \in Seq(BlockSet) /\ functions' \in Seq(FunctionSet)
  /\ Len(blocks) <= Len(blocks') /\ Len(functions) <= Len(functions')
  /\ \A f \in DOMAIN functions : functions'[f] = functions[f]
  /\ \A b \in DOMAIN blocks :
       /\ blocks'[b].function = blocks[b].function
       /\ \E is \in Seq(Instructions) : blocks'[b].code = blocks[b].code \o is

LEMMA GrownNumbers ==
  ASSUME Typed, Grown
  PROVE  /\ Len(blocks') \in Nat /\ DOMAIN blocks' = 1..Len(blocks')
         /\ Len(functions') \in Nat /\ DOMAIN functions' = 1..Len(functions')
         /\ DOMAIN blocks \in SUBSET DOMAIN blocks'
         /\ DOMAIN functions \in SUBSET DOMAIN functions'
         /\ \A b \in DOMAIN blocks' :
              /\ b \in Nat /\ blocks'[b].code \in Seq(Instructions)
              /\ DOMAIN blocks'[b].code = 1..Len(blocks'[b].code)
              /\ Len(blocks'[b].code) \in Nat
<1>1. /\ Len(blocks') \in Nat /\ DOMAIN blocks' = 1..Len(blocks')
      /\ \A b \in DOMAIN blocks' : blocks'[b] \in BlockSet
      /\ Len(functions') \in Nat /\ DOMAIN functions' = 1..Len(functions')
  BY Elements DEF Grown
<1>2. \A b \in DOMAIN blocks' : blocks'[b].code \in Seq(Instructions)
  BY <1>1 DEF BlockSet
<1>3. \A b \in DOMAIN blocks' : /\ DOMAIN blocks'[b].code = 1..Len(blocks'[b].code)
                                /\ Len(blocks'[b].code) \in Nat
  BY <1>2, Elements
<1>4. /\ DOMAIN blocks = 1..Len(blocks) /\ DOMAIN functions = 1..Len(functions)
      /\ Len(blocks) \in Nat /\ Len(functions) \in Nat
  BY CodeNumbers
<1>5. DOMAIN blocks \in SUBSET DOMAIN blocks' /\ DOMAIN functions \in SUBSET DOMAIN functions'
  BY <1>1, <1>4 DEF Grown
<1> QED
  BY <1>1, <1>2, <1>3, <1>5

(* What stays true of a block when the code grows.                         *)
LEMMA GrownKeeps ==
  ASSUME Typed, Placed, Grown
  PROVE  /\ \A b \in DOMAIN blocks : IsFunc(blocks[b].function)' = IsFunc(blocks[b].function)
         /\ \A b \in DOMAIN blocks : IsExit(b)' = IsExit(b)
         /\ Broken => Broken'
         /\ \A b \in 0..Len(blocks) : Refused(b) => Refused(b)'
         /\ \A b \in DOMAIN blocks : HasTerminator(b) => HasTerminator(b)' \/ Broken'
<1>1. /\ \A b \in DOMAIN blocks : /\ blocks'[b].function = blocks[b].function
                                  /\ b \in DOMAIN blocks'
                                  /\ blocks[b].code \in Seq(Instructions)
      /\ DOMAIN blocks = 1..Len(blocks) /\ Len(blocks) \in Nat
  BY CodeNumbers, GrownNumbers DEF Grown
<1>2. ASSUME NEW b \in DOMAIN blocks
      PROVE  functions'[blocks[b].function] = functions[blocks[b].function]
  BY DEF Placed, Grown
<1>3. ASSUME NEW b \in DOMAIN blocks
      PROVE  IsFunc(blocks[b].function)' = IsFunc(blocks[b].function)
  BY <1>1, <1>2 DEF IsFunc
<1>4. ASSUME NEW b \in DOMAIN blocks PROVE IsExit(b)' = IsExit(b)
  BY <1>1, <1>2 DEF IsFunc, IsExit
<1>5. ASSUME NEW b \in DOMAIN blocks
      PROVE  /\ Overrun(blocks[b].code) => Broken'
             /\ HasTerminator(b) => HasTerminator(b)' \/ Broken'
  <2>1. PICK is \in Seq(Instructions) : blocks'[b].code = blocks[b].code \o is
    BY DEF Grown
  <2>2. blocks[b].code \in Seq(Instructions) /\ b \in DOMAIN blocks'
    BY <1>1
  <2>3. Overrun(blocks[b].code) => Overrun(blocks'[b].code)
    BY <2>1, <2>2, Longer
  <2>4. Ends(blocks[b].code) => Ends(blocks'[b].code) \/ Overrun(blocks'[b].code)
    BY <2>1, <2>2, Longer
  <2>5. Overrun(blocks'[b].code) => Broken'
    BY <2>2 DEF Broken, Overrun
  <2> QED
    BY <2>3, <2>4, <2>5 DEF HasTerminator, Ends
<1>6. Broken => Broken'
  BY <1>5 DEF Broken
<1>7. ASSUME NEW b \in 0..Len(blocks), Refused(b) PROVE Refused(b)'
  <2>1. CASE b = 0
    BY <2>1 DEF Refused
  <2>2. CASE b # 0
    <3>1. b \in DOMAIN blocks
      BY <1>1, <2>2
    <3> QED
      BY <1>3, <1>5, <1>6, <1>7, <2>2, <3>1 DEF Refused
  <2> QED
    BY <2>1, <2>2
<1> QED
  BY <1>3, <1>4, <1>5, <1>6, <1>7

(* Code that grows without an allocation.                                  *)
Quiet ==
  /\ Grown
  /\ \A b \in DOMAIN blocks' : Mallocs(b)' = IF b \in DOMAIN blocks THEN Mallocs(b) ELSE {}

LEMMA QuietMemory ==
  ASSUME Typed, Placed, Quiet
  PROVE  /\ \A f \in DOMAIN functions : Memory(f)' = Memory(f)
         /\ \A f : f \notin DOMAIN functions => Memory(f)' = {}
         /\ \A b, c \in DOMAIN blocks : Follows(b, c) => Follows(b, c)'
<1>1. /\ DOMAIN blocks \in SUBSET DOMAIN blocks'
      /\ \A b \in DOMAIN blocks : /\ blocks'[b].function = blocks[b].function
                                  /\ blocks[b].function \in DOMAIN functions
                                  /\ Mallocs(b)' = Mallocs(b)
                                  /\ IsExit(b)' = IsExit(b)
      /\ \A b \in DOMAIN blocks' : b \notin DOMAIN blocks => Mallocs(b)' = {}
  BY GrownNumbers, GrownKeeps DEF Quiet, Grown, Placed
<1>2. \A f : BlocksOf(f) \in SUBSET BlocksOf(f)'
  BY <1>1 DEF BlocksOf
<1>3. \A f : \A b \in BlocksOf(f)' : b \in BlocksOf(f) \/ Mallocs(b)' = {}
  BY <1>1 DEF BlocksOf
<1>4. \A f : \A b \in BlocksOf(f) : Mallocs(b)' = Mallocs(b)
  BY <1>1 DEF BlocksOf
<1>5. \A f : Memory(f)' = Memory(f)
  BY <1>2, <1>3, <1>4 DEF Memory
<1>6. ASSUME NEW f, f \notin DOMAIN functions PROVE Memory(f)' = {}
  <2>1. BlocksOf(f) = {}
    BY <1>1, <1>6 DEF BlocksOf
  <2> QED
    BY <1>5, <2>1 DEF Memory
<1>7. ASSUME NEW b \in DOMAIN blocks, NEW c \in DOMAIN blocks, Follows(b, c)
      PROVE  Follows(b, c)'
  BY <1>1, <1>3, <1>4, <1>7 DEF Follows
<1> QED
  BY <1>5, <1>6, <1>7

(* An instruction that was right stays right.                              *)
LEMMA StillAllowed ==
  ASSUME Typed, Placed, Quiet, NEW b \in DOMAIN blocks, NEW k \in DOMAIN blocks[b].code, NEW i,
         i = blocks[b].code[k], Allowed(b, i),
         i.op = "br" => \A c \in i.arg : c = exit' => b = insert',
         i.op = "ret" => exit' = 0 \/ blocks[b].function # Len(functions')
  PROVE  Allowed(b, i)'
<1>1. /\ blocks'[b].function = blocks[b].function /\ blocks[b].function \in DOMAIN functions
      /\ IsFunc(blocks[b].function)' = IsFunc(blocks[b].function)
      /\ IsExit(b)' = IsExit(b)
  BY GrownKeeps DEF Quiet, Grown, Placed
<1>2. i.op = "br" => \A c \in i.arg : c \in DOMAIN blocks
  BY DEF Placed
<1>3. i.op = "malloc" => (IsFunc(blocks[b].function) /\ ~ IsExit(b))'
  BY <1>1 DEF Allowed
<1>4. i.op = "free" => IsExit(b)'
  BY <1>1 DEF Allowed
<1>5. i.op = "br" => \A c \in i.arg : Follows(b, c)'
  BY <1>2, QuietMemory DEF Allowed
<1>6. i.op = "ret" => IsExit(b)' \/ Memory(blocks[b].function)' = {}
  <2>1. ASSUME NEW f, f = blocks[b].function
        PROVE  Memory(f)' = Memory(f) /\ f = blocks'[b].function
    BY <1>1, <2>1, QuietMemory
  <2>2. PICK f : f = blocks[b].function
    OBVIOUS
  <2> QED
    BY <1>1, <2>1, <2>2 DEF Allowed
<1> QED
  BY <1>1, <1>3, <1>4, <1>5, <1>6 DEF Allowed

LEMMA StillCleansUp ==
  ASSUME Typed, Placed, Quiet, NEW b \in DOMAIN blocks, CleansUp(b),
         blocks'[b].code = blocks[b].code
  PROVE  CleansUp(b)'
<1>1. /\ blocks'[b].function = blocks[b].function /\ blocks[b].function \in DOMAIN functions
      /\ IsExit(b)' = IsExit(b)
  BY GrownKeeps DEF Quiet, Grown, Placed
<1>2. PICK f : f = blocks[b].function
  OBVIOUS
<1>3. Memory(f)' = Memory(f) /\ f = blocks'[b].function
  BY <1>1, <1>2, QuietMemory
<1> QED
  BY <1>1, <1>2, <1>3 DEF CleansUp

(* Instructions added to each block, and blocks and functions added.       *)
Without(is, op) == \A k \in DOMAIN is : is[k].op # op
Writes(ext) ==
  /\ blocks' \in Seq(BlockSet) /\ functions' \in Seq(FunctionSet)
  /\ Len(blocks) <= Len(blocks') /\ Len(functions) <= Len(functions')
  /\ \A f \in DOMAIN functions : functions'[f] = functions[f]
  /\ \A b \in DOMAIN blocks :
       /\ blocks'[b].function = blocks[b].function
       /\ ext[b] \in Seq(Instructions) /\ blocks'[b].code = blocks[b].code \o ext[b]
WritesQuietly(ext) ==
  /\ Writes(ext)
  /\ \A b \in DOMAIN blocks : Without(ext[b], "malloc")
  /\ \A b \in DOMAIN blocks' : b \notin DOMAIN blocks => Without(blocks'[b].code, "malloc")

LEMMA WritesGrow ==
  ASSUME Typed, NEW ext, Writes(ext)
  PROVE  /\ Grown
         /\ WritesQuietly(ext) => Quiet
         /\ \A b \in DOMAIN blocks : ext[b] = <<>> => blocks'[b].code = blocks[b].code
         /\ \A b \in DOMAIN blocks : \A k \in DOMAIN blocks'[b].code :
              \/ k \in DOMAIN blocks[b].code /\ blocks'[b].code[k] = blocks[b].code[k]
              \/ \E m \in DOMAIN ext[b] : blocks'[b].code[k] = ext[b][m]
<1>1. /\ DOMAIN blocks = 1..Len(blocks)
      /\ \A b \in DOMAIN blocks : blocks[b].code \in Seq(Instructions)
  BY CodeNumbers
<1>2. Grown
  BY DEF Writes, Grown
<1>3. ASSUME NEW b \in DOMAIN blocks, NEW k \in DOMAIN blocks'[b].code
      PROVE  \/ k \in DOMAIN blocks[b].code /\ blocks'[b].code[k] = blocks[b].code[k]
             \/ \E m \in DOMAIN ext[b] : blocks'[b].code[k] = ext[b][m]
  <2> DEFINE s == blocks[b].code
             t == ext[b]
  <2>1. s \in Seq(Instructions) /\ t \in Seq(Instructions) /\ blocks'[b].code = s \o t
    BY <1>1 DEF Writes
  <2>2. k \in DOMAIN (s \o t)
    BY <2>1
  <2> HIDE DEF s, t
  <2>3. /\ DOMAIN s = 1..Len(s) /\ Len(s) \in Nat /\ DOMAIN t = 1..Len(t) /\ Len(t) \in Nat
        /\ DOMAIN (s \o t) = 1..(Len(s) + Len(t))
        /\ \A j \in 1..Len(s) : (s \o t)[j] = s[j]
        /\ \A j \in 1..Len(t) : (s \o t)[Len(s) + j] = t[j]
    BY <2>1, Elements, Joined
  <2>4. CASE k <= Len(s)
    <3>1. k \in DOMAIN s /\ (s \o t)[k] = s[k]
      BY <2>2, <2>3, <2>4
    <3> QED
      BY <2>1, <3>1 DEF s
  <2>5. CASE ~ (k <= Len(s))
    <3>1. k - Len(s) \in 1..Len(t) /\ Len(s) + (k - Len(s)) = k
      BY <2>2, <2>3, <2>5
    <3>2. k - Len(s) \in DOMAIN t /\ (s \o t)[k] = t[k - Len(s)]
      BY <2>3, <3>1
    <3> QED
      BY <2>1, <3>2 DEF t
  <2> QED
    BY <2>4, <2>5
<1>4. ASSUME NEW b \in DOMAIN blocks, ext[b] = <<>> PROVE blocks'[b].code = blocks[b].code
  <2>1. blocks[b].code \in Seq(Instructions)
    BY <1>1
  <2>2. blocks[b].code \o <<>> = blocks[b].code
    BY <2>1, ConcatEmptySeq
  <2> QED
    BY <1>4, <2>2 DEF Writes
<1>5. ASSUME WritesQuietly(ext) PROVE Quiet
  <2>1. ASSUME NEW b \in DOMAIN blocks PROVE Mallocs(b)' = Mallocs(b)
    <3> DEFINE s == blocks[b].code
               t == ext[b]
    <3>1. Made(t, "malloc") = {}
      BY <1>5 DEF Made, Without, WritesQuietly
    <3>2. s \in Seq(Instructions) /\ t \in Seq(Instructions) /\ blocks'[b].code = s \o t
      BY <1>1 DEF Writes
    <3>3. Mallocs(b)' = Made(blocks'[b].code, "malloc") /\ Mallocs(b) = Made(s, "malloc")
      BY DEF Mallocs, Made
    <3> HIDE DEF s, t
    <3>4. Made(s \o t, "malloc") = Made(s, "malloc") \cup Made(t, "malloc")
      BY <3>2, MadeJoined
    <3> QED
      BY <3>1, <3>2, <3>3, <3>4
  <2>2. ASSUME NEW b \in DOMAIN blocks', b \notin DOMAIN blocks PROVE Mallocs(b)' = {}
    BY <1>5, <2>2 DEF Mallocs, Made, Without, WritesQuietly
  <2> QED
    BY <1>2, <2>1, <2>2 DEF Quiet
<1> QED
  BY <1>2, <1>3, <1>4, <1>5

LEMMA PlacedKept ==
  ASSUME Typed, Placed, NEW ext, Writes(ext),
         insert' \in 0..Len(blocks'), exit' \in 0..Len(blocks'), (exit' # 0) = InsideFunction',
         \A b \in DOMAIN blocks : \A m \in DOMAIN ext[b] : ext[b][m].op = "br" =>
           \A c \in ext[b][m].arg :
             c \in DOMAIN blocks' /\ blocks'[c].function = blocks[b].function,
         \A b \in DOMAIN blocks' : b \notin DOMAIN blocks =>
           /\ blocks'[b].function \in DOMAIN functions'
           /\ functions'[blocks'[b].function].entry <= b
           /\ \A k \in DOMAIN blocks'[b].code : blocks'[b].code[k].op = "br" =>
                \A c \in blocks'[b].code[k].arg :
                  c \in DOMAIN blocks' /\ blocks'[c].function = blocks'[b].function,
         \A f \in DOMAIN functions' : f \notin DOMAIN functions =>
           functions'[f].entry \in DOMAIN blocks' /\ blocks'[functions'[f].entry].function = f
  PROVE  Placed'
<1>1. /\ DOMAIN blocks \in SUBSET DOMAIN blocks'
      /\ DOMAIN functions \in SUBSET DOMAIN functions'
  BY WritesGrow, GrownNumbers
<1>2. ASSUME NEW b \in DOMAIN blocks' PROVE /\ blocks'[b].function \in DOMAIN functions'
                                            /\ functions'[blocks'[b].function].entry <= b
  BY <1>1 DEF Placed, Writes
<1>3. ASSUME NEW f \in DOMAIN functions'
      PROVE  functions'[f].entry \in DOMAIN blocks' /\ blocks'[functions'[f].entry].function = f
  <2>1. CASE f \in DOMAIN functions
    <3>1. functions[f].entry \in DOMAIN blocks /\ blocks[functions[f].entry].function = f
      BY <2>1 DEF Placed
    <3>2. functions'[f] = functions[f]
      BY <2>1 DEF Writes
    <3>3. blocks'[functions[f].entry].function = f
      BY <3>1 DEF Writes
    <3> QED
      BY <1>1, <3>1, <3>2, <3>3
  <2> QED
    BY <2>1
<1>4. ASSUME NEW b \in DOMAIN blocks', NEW k \in DOMAIN blocks'[b].code,
             blocks'[b].code[k].op = "br", NEW c \in blocks'[b].code[k].arg
      PROVE  c \in DOMAIN blocks' /\ blocks'[c].function = blocks'[b].function
  <2>1. CASE b \notin DOMAIN blocks
    BY <1>4, <2>1
  <2>2. CASE b \in DOMAIN blocks
    <3>1. CASE k \in DOMAIN blocks[b].code /\ blocks'[b].code[k] = blocks[b].code[k]
      <4>1. c \in DOMAIN blocks /\ blocks[c].function = blocks[b].function
        BY <1>4, <2>2, <3>1 DEF Placed
      <4>2. blocks'[c].function = blocks[c].function /\ blocks'[b].function = blocks[b].function
        BY <2>2, <4>1 DEF Writes
      <4> QED
        BY <1>1, <4>1, <4>2
    <3>2. CASE \E m \in DOMAIN ext[b] : blocks'[b].code[k] = ext[b][m]
      <4>1. blocks'[b].function = blocks[b].function
        BY <2>2 DEF Writes
      <4> QED
        BY <1>4, <2>2, <3>2, <4>1
    <3> QED
      BY <2>2, <3>1, <3>2, WritesGrow
  <2> QED
    BY <2>1, <2>2
<1> QED
  BY <1>2, <1>3, <1>4 DEF Placed

LEMMA SoundKept ==
  ASSUME Typed, Coded, NEW ext, WritesQuietly(ext), ~ Broken',
         \A b \in DOMAIN blocks : IsExit(b) /\ ext[b] # <<>> => CleansUp(b)',
         \A b \in DOMAIN blocks : \A i :
           (\E m \in DOMAIN ext[b] : i = ext[b][m]) => Allowed(b, i)',
         \A b \in DOMAIN blocks' : b \notin DOMAIN blocks =>
           /\ IsExit(b)' => blocks'[b].code = <<>>
           /\ \A i : (\E k \in DOMAIN blocks'[b].code : i = blocks'[b].code[k]) => Allowed(b, i)',
         \A b \in DOMAIN blocks : \A k \in DOMAIN blocks[b].code :
           /\ blocks[b].code[k].op = "br" /\ exit' \in blocks[b].code[k].arg => b = insert'
           /\ blocks[b].code[k].op = "ret" => exit' = 0 \/ blocks[b].function # Len(functions')
  PROVE  (Allocated /\ Cleaned)'
<1>1. Quiet /\ Writes(ext) /\ Placed
  BY WritesGrow DEF WritesQuietly, Coded
<1>2. Allocated /\ Cleaned
  BY <1>1, GrownKeeps DEF Coded, Sound, Quiet
<1>3. ASSUME NEW b \in DOMAIN blocks', NEW k \in DOMAIN blocks'[b].code, NEW i,
             i = blocks'[b].code[k]
      PROVE  Allowed(b, i)'
  <2>1. CASE b \notin DOMAIN blocks
    BY <1>3, <2>1
  <2>2. CASE b \in DOMAIN blocks
    <3>1. CASE k \in DOMAIN blocks[b].code /\ blocks'[b].code[k] = blocks[b].code[k]
      <4>1. i = blocks[b].code[k] /\ Allowed(b, i)
        BY <1>2, <1>3, <2>2, <3>1 DEF Allocated
      <4>2. i.op = "br" => \A c \in i.arg : c = exit' => b = insert'
        BY <2>2, <3>1, <4>1
      <4>3. i.op = "ret" => exit' = 0 \/ blocks[b].function # Len(functions')
        BY <2>2, <3>1, <4>1
      <4> QED
        BY <1>1, <2>2, <3>1, <4>1, <4>2, <4>3, StillAllowed
    <3>2. CASE \E m \in DOMAIN ext[b] : blocks'[b].code[k] = ext[b][m]
      BY <1>3, <2>2, <3>2
    <3> QED
      BY <1>1, <2>2, <3>1, <3>2, WritesGrow
  <2> QED
    BY <2>1, <2>2
<1>4. ASSUME NEW b \in DOMAIN blocks' PROVE CleansUp(b)'
  <2>1. CASE b \notin DOMAIN blocks
    BY <2>1 DEF CleansUp
  <2>2. CASE b \in DOMAIN blocks /\ ext[b] = <<>>
    <3>1. blocks'[b].code = blocks[b].code /\ CleansUp(b)
      BY <1>1, <1>2, <2>2, WritesGrow DEF Cleaned
    <3> QED
      BY <1>1, <2>2, <3>1, StillCleansUp
  <2>3. CASE b \in DOMAIN blocks /\ ext[b] # <<>>
    <3>1. IsExit(b)' = IsExit(b)
      BY <1>1, <2>3, GrownKeeps DEF Quiet
    <3>2. CASE IsExit(b)
      BY <2>3, <3>2
    <3>3. CASE ~ IsExit(b)
      BY <3>1, <3>3 DEF CleansUp
    <3> QED
      BY <3>2, <3>3
  <2> QED
    BY <2>1, <2>2, <2>3
<1> QED
  BY <1>3, <1>4 DEF Allocated, Cleaned

(* The block code is added to, if the verifier is to accept the module.    *)
LEMMA WhereCode ==
  ASSUME Typed, Coded, NEW ext, Writes(ext), insert # 0, ext[insert] # <<>>, ~ Broken'
  PROVE  /\ insert \in DOMAIN blocks /\ ~ Broken /\ ~ IsExit(insert)
         /\ \A k \in DOMAIN blocks[insert].code : blocks[insert].code[k].op \notin Terminators
         /\ exit = 0 => ~ IsFunc(blocks[insert].function)
<1>1. /\ insert \in DOMAIN blocks /\ Grown /\ ~ Broken
      /\ insert \in DOMAIN blocks'
  <2>1. DOMAIN blocks = 1..Len(blocks) /\ insert \in 0..Len(blocks) /\ Len(blocks) \in Nat
    BY CodeNumbers DEF Coded, Placed
  <2>2. insert \in DOMAIN blocks
    BY <2>1
  <2> QED
    BY <2>2, WritesGrow, GrownNumbers, GrownKeeps DEF Coded
<1> DEFINE s == blocks[insert].code
<1>2. s \in Seq(Instructions) /\ ext[insert] \in Seq(Instructions)
  BY <1>1, CodeNumbers DEF Writes
<1>3. ~ Overrun(s) /\ ~ Overrun(s \o ext[insert])
  BY <1>1 DEF Broken, Writes, Overrun
<1>4. HasTerminator(insert) = Ends(s)
  BY DEF HasTerminator, Ends
<1> HIDE DEF s
<1>5. ~ Ends(s)
  BY <1>2, <1>3, Longer
<1>6. \A k \in DOMAIN s : s[k].op \notin Terminators
  BY <1>2, <1>3, <1>5, Longer
<1>7. exit = 0 => ~ IsFunc(blocks[insert].function)
  BY <1>1, <1>4, <1>5 DEF Coded, Rested, Refused
<1>8. ~ IsExit(insert)
  <2>1. CASE exit = 0
    BY <1>7, <2>1 DEF IsExit
  <2>2. CASE exit # 0
    BY <2>2 DEF Coded, Generating, IsExit
  <2> QED
    BY <2>1, <2>2
<1> QED
  BY <1>1, <1>6, <1>7, <1>8 DEF s

LEMMA InsertedCode ==
  ASSUME NEW bs \in Seq(BlockSet), NEW b \in DOMAIN bs, NEW is \in Seq(Instructions)
  PROVE  /\ Inserted(bs, b, is) \in Seq(BlockSet)
         /\ Len(Inserted(bs, b, is)) = Len(bs) /\ DOMAIN Inserted(bs, b, is) = DOMAIN bs
         /\ \A c \in DOMAIN bs :
              /\ Inserted(bs, b, is)[c].function = bs[c].function
              /\ Inserted(bs, b, is)[c].code = IF c = b THEN bs[c].code \o is ELSE bs[c].code
<1>1. DOMAIN bs = 1..Len(bs) /\ Len(bs) \in Nat /\ bs[b] \in BlockSet /\ b # 0
  <2>1. DOMAIN bs = 1..Len(bs) /\ Len(bs) \in Nat
    BY Elements
  <2>2. bs[b] \in BlockSet
    BY <2>1, Elements
  <2> QED
    BY <2>1, <2>2
<1> DEFINE e == [bs[b] EXCEPT !.code = @ \o is]
<1>2. /\ e \in BlockSet /\ e.function = bs[b].function
      /\ e.code = bs[b].code \o is
  <2>1. bs[b].code \in Seq(Instructions)
    BY <1>1 DEF BlockSet
  <2>2. bs[b].code \o is \in Seq(Instructions)
    BY <2>1, Joined
  <2> QED
    BY <1>1, <2>2 DEF BlockSet
<1>3. Inserted(bs, b, is) = [bs EXCEPT ![b] = e]
  BY <1>1 DEF Inserted
<1> HIDE DEF e
<1>4. /\ [bs EXCEPT ![b] = e] \in Seq(BlockSet) /\ Len([bs EXCEPT ![b] = e]) = Len(bs)
      /\ DOMAIN [bs EXCEPT ![b] = e] = DOMAIN bs
      /\ \A k \in DOMAIN bs : [bs EXCEPT ![b] = e][k] = IF k = b THEN e ELSE bs[k]
  BY <1>2, Replaced
<1> QED
  BY <1>2, <1>3, <1>4

-----------------------------------------------------------------------------
(***************************************************************************)
(* Each step of the generator keeps the code sound.                        *)
(***************************************************************************)
LEMMA Emission ==
  ASSUME Typed, Coded, NEW is \in Seq(Instructions),
         blocks' = Inserted(blocks, insert, is), functions' = functions
  PROVE  \E ext : /\ Writes(ext) /\ DOMAIN blocks' = DOMAIN blocks
                  /\ Len(blocks') = Len(blocks)
                  /\ \A b \in DOMAIN blocks : ext[b] = IF b = insert THEN is ELSE <<>>
<1> DEFINE ext == [b \in DOMAIN blocks |-> IF b = insert THEN is ELSE <<>>]
<1>1. /\ DOMAIN blocks = 1..Len(blocks) /\ Len(blocks) \in Nat /\ Len(functions) \in Nat
      /\ \A b \in DOMAIN blocks : blocks[b].code \in Seq(Instructions)
      /\ insert \in 0..Len(blocks)
  BY CodeNumbers DEF Coded, Placed
<1>2. \A b \in DOMAIN blocks : blocks[b].code \o <<>> = blocks[b].code
  BY <1>1, ConcatEmptySeq
<1>3. \A b \in DOMAIN blocks : ext[b] \in Seq(Instructions)
  <2>1. <<>> \in Seq(Instructions)
    OBVIOUS
  <2> QED
    BY <2>1
<1>4. /\ blocks' \in Seq(BlockSet) /\ Len(blocks') = Len(blocks) /\ DOMAIN blocks' = DOMAIN blocks
      /\ \A b \in DOMAIN blocks :
           /\ blocks'[b].function = blocks[b].function
           /\ blocks'[b].code = blocks[b].code \o ext[b]
  <2>1. CASE insert = 0
    <3>1. blocks' = blocks /\ insert \notin DOMAIN blocks
      BY <1>1, <2>1 DEF Inserted
    <3>2. \A b \in DOMAIN blocks : ext[b] = <<>>
      BY <3>1
    <3> QED
      BY <1>2, <3>1, <3>2 DEF Typed
  <2>2. CASE insert # 0
    <3>1. insert \in DOMAIN blocks /\ blocks \in Seq(BlockSet)
      BY <1>1, <2>2 DEF Typed
    <3>2. /\ blocks' \in Seq(BlockSet)
          /\ Len(blocks') = Len(blocks) /\ DOMAIN blocks' = DOMAIN blocks
          /\ \A c \in DOMAIN blocks :
               /\ blocks'[c].function = blocks[c].function
               /\ blocks'[c].code = IF c = insert THEN blocks[c].code \o is ELSE blocks[c].code
      BY <3>1, InsertedCode
    <3> QED
      BY <1>2, <3>2
  <2> QED
    BY <2>1, <2>2
<1> HIDE DEF ext
<1>5. Writes(ext)
  <2>1. functions' \in Seq(FunctionSet) /\ Len(functions) <= Len(functions')
    BY <1>1 DEF Typed
  <2>2. Len(blocks) <= Len(blocks')
    BY <1>1, <1>4
  <2> QED
    BY <1>3, <1>4, <2>1, <2>2 DEF Writes
<1> QED
  BY <1>4, <1>5 DEF ext

LEMMA ToExit ==
  ASSUME Typed, Coded, exit # 0
  PROVE  /\ exit \in DOMAIN blocks /\ insert \in DOMAIN blocks /\ insert # exit
         /\ IsExit(exit) /\ ~ IsExit(insert) /\ Mallocs(exit) = {}
         /\ blocks[exit].function = Len(functions) /\ blocks[insert].function = Len(functions)
         /\ Len(functions) \in DOMAIN functions /\ IsFunc(Len(functions))
         /\ \A d \in BlocksOf(Len(functions)) : d > insert => Mallocs(d) = {}
         /\ Follows(insert, exit)
<1>1. /\ DOMAIN blocks = 1..Len(blocks) /\ Len(blocks) \in Nat /\ Len(functions) \in Nat
      /\ DOMAIN functions = 1..Len(functions)
      /\ insert \in 0..Len(blocks) /\ exit \in 0..Len(blocks)
      /\ \A b \in DOMAIN blocks : b \in Nat
      /\ functions \in Seq(FunctionSet)
  BY CodeNumbers DEF Coded, Placed, Typed
<1>2. /\ functions # <<>> /\ IsFunc(Len(functions))
      /\ exit = functions[Len(functions)].entry + 1
      /\ blocks[exit].function = Len(functions) /\ blocks[exit].code = <<>>
      /\ insert # 0 /\ insert # exit /\ blocks[insert].function = Len(functions)
  BY DEF Coded, Generating
<1>3. exit \in DOMAIN blocks /\ insert \in DOMAIN blocks /\ Len(functions) \in DOMAIN functions
  <2>1. Len(functions) # 0
    BY <1>1, <1>2, Elements
  <2> QED
    BY <1>1, <1>2, <2>1
<1>4. IsExit(exit) /\ ~ IsExit(insert)
  BY <1>2 DEF IsExit
<1>5. Mallocs(exit) = {}
  <2>1. DOMAIN <<>> = {}
    OBVIOUS
  <2> QED
    BY <1>2, <2>1 DEF Mallocs, Made
<1>6. ASSUME NEW d \in BlocksOf(Len(functions)), d > insert PROVE Mallocs(d) = {}
  <2>1. d \in DOMAIN blocks /\ blocks[d].function = Len(functions) /\ d \in Nat /\ insert \in Nat
    BY <1>1 DEF BlocksOf
  <2>2. d >= functions[Len(functions)].entry
    <3>1. functions[Len(functions)].entry <= d
      BY <2>1 DEF Coded, Placed
    <3>2. functions[Len(functions)].entry \in Nat
      BY <1>3, CodeNumbers
    <3> QED
      BY <2>1, <3>1, <3>2
  <2>3. d <= insert \/ d = exit
    BY <2>1, <2>2 DEF Coded, Generating
  <2> QED
    BY <1>5, <1>6, <2>1, <2>3
<1> QED
  BY <1>2, <1>3, <1>4, <1>5, <1>6 DEF Follows

(* Instructions that do nothing to memory, and the branch of a return.     *)
LEMMA EmitCoded ==
  ASSUME Typed, Coded, NEW is \in Seq(Instructions), is # <<>>,
         \A m \in DOMAIN is :
           is[m].op \in {"other", "store"} \/ (exit # 0 /\ is[m] = Br(exit)),
         blocks' = Inserted(blocks, insert, is),
         functions' = functions, insert' = insert, exit' = exit,
         InsideFunction' = InsideFunction
  PROVE  Quiet /\ Coded'
<1>1. PICK ext : /\ Writes(ext) /\ DOMAIN blocks' = DOMAIN blocks /\ Len(blocks') = Len(blocks)
                 /\ \A b \in DOMAIN blocks : ext[b] = IF b = insert THEN is ELSE <<>>
  BY Emission
<1>2. /\ DOMAIN blocks = 1..Len(blocks) /\ Len(blocks) \in Nat
      /\ insert \in 0..Len(blocks) /\ exit \in 0..Len(blocks)
      /\ insert # 0 => insert \in DOMAIN blocks
  BY CodeNumbers DEF Coded, Placed
<1>3. \A m \in DOMAIN is : /\ is[m].op \notin {"malloc", "free", "ret"}
                           /\ is[m].op = "br" => exit # 0 /\ is[m].arg = {exit}
  BY DEF Br, Instruction
<1>4. WritesQuietly(ext) /\ Quiet /\ Grown
  <2>1. DOMAIN <<>> = {}
    OBVIOUS
  <2>2. \A b \in DOMAIN blocks : Without(ext[b], "malloc")
    BY <1>1, <1>3, <2>1 DEF Without
  <2> QED
    BY <1>1, <2>2, WritesGrow DEF WritesQuietly
<1>5. Placed'
  <2>1. \A b \in DOMAIN blocks : \A m \in DOMAIN ext[b] : ext[b][m].op = "br" =>
          \A c \in ext[b][m].arg : c \in DOMAIN blocks' /\ blocks'[c].function = blocks[b].function
    <3>1. ASSUME NEW b \in DOMAIN blocks, NEW m \in DOMAIN ext[b], ext[b][m].op = "br",
                 NEW c \in ext[b][m].arg
          PROVE  c \in DOMAIN blocks' /\ blocks'[c].function = blocks[b].function
      <4>1. b = insert /\ ext[b] = is
        <5>1. DOMAIN <<>> = {}
          OBVIOUS
        <5> QED
          BY <1>1, <5>1
      <4>2. c = exit /\ exit # 0
        BY <1>3, <3>1, <4>1
      <4>3. exit \in DOMAIN blocks /\ blocks[exit].function = blocks[insert].function
        BY <4>2, ToExit
      <4> QED
        BY <1>1, <4>1, <4>2, <4>3 DEF Writes
    <3> QED
      BY <3>1
  <2>2. /\ insert' \in 0..Len(blocks') /\ exit' \in 0..Len(blocks')
        /\ (exit' # 0) = InsideFunction'
    BY <1>1, <1>2 DEF Coded, Placed
  <2> QED
    BY <1>1, <2>1, <2>2, PlacedKept DEF Coded
<1>6. Generating'
  <2>1. CASE exit = 0
    BY <2>1 DEF Generating
  <2>2. CASE exit # 0
    <3>1. \A b \in DOMAIN blocks : b # insert => blocks'[b].code = blocks[b].code
      BY <1>1, WritesGrow
    <3>2. \A b \in DOMAIN blocks : blocks'[b].function = blocks[b].function
      BY <1>1 DEF Writes
    <3>3. exit \in DOMAIN blocks /\ insert \in DOMAIN blocks
      BY <2>2, ToExit
    <3> QED
      BY <1>1, <2>2, <3>1, <3>2, <3>3 DEF Coded, Generating, IsFunc, HasTerminator
  <2> QED
    BY <2>1, <2>2
<1>7. Rested'
  BY <1>2, <1>4, GrownKeeps DEF Coded, Rested
<1>8. ASSUME ~ Broken' PROVE (Allocated /\ Cleaned)'
  <2>1. insert # 0 => ~ IsExit(insert)
    BY <1>1, <1>2, <1>8, WhereCode
  <2>2. \A b \in DOMAIN blocks : IsExit(b) /\ ext[b] # <<>> => CleansUp(b)'
    BY <1>1, <1>2, <2>1
  <2>3. ASSUME NEW b \in DOMAIN blocks, NEW i, \E m \in DOMAIN ext[b] : i = ext[b][m]
        PROVE  Allowed(b, i)'
    <3>1. b = insert /\ \E m \in DOMAIN is : i = is[m]
      <4>1. DOMAIN <<>> = {}
        OBVIOUS
      <4> QED
        BY <1>1, <2>3, <4>1
    <3>2. i.op \notin {"malloc", "free", "ret"} /\ (i.op = "br" => exit # 0 /\ i.arg = {exit})
      BY <1>3, <3>1
    <3>3. i.op = "br" => \A c \in i.arg : Follows(b, c)' /\ (c = exit' => b = insert')
      <4>1. ASSUME i.op = "br", NEW c \in i.arg PROVE Follows(b, c)'
        <5>1. c = exit /\ exit # 0
          BY <3>2, <4>1
        <5>2. c \in DOMAIN blocks /\ Follows(b, c)
          BY <3>1, <5>1, ToExit
        <5> QED
          BY <1>4, <5>2, QuietMemory DEF Coded
      <4> QED
        BY <3>1, <4>1
    <3> QED
      BY <3>2, <3>3 DEF Allowed
  <2>4. ~ Broken
    BY <1>4, <1>8, GrownKeeps DEF Coded
  <2>5. \A b \in DOMAIN blocks : \A k \in DOMAIN blocks[b].code :
          /\ blocks[b].code[k].op = "br" /\ exit' \in blocks[b].code[k].arg => b = insert'
          /\ blocks[b].code[k].op = "ret" => exit' = 0 \/ blocks[b].function # Len(functions')
    BY <2>4 DEF Coded, Sound, Allocated, Allowed
  <2> QED
    BY <1>1, <1>4, <1>8, <2>2, <2>3, <2>5, SoundKept
<1> QED
  BY <1>4, <1>5, <1>6, <1>7, <1>8 DEF Coded, Sound

(* An allocation, in a function.                                           *)
Allocating(v) == <<Instruction("malloc", {v})>>

LEMMA EmitMalloc ==
  ASSUME Typed, Coded, exit # 0, NEW v \in Nat, NEW is, is = Allocating(v),
         blocks' = Inserted(blocks, insert, is),
         functions' = functions, insert' = insert, exit' = exit,
         InsideFunction' = InsideFunction
  PROVE  /\ Grown /\ Coded'
         /\ Memory(Len(functions))' = Memory(Len(functions)) \cup {v}
<1> DEFINE f == Len(functions)
<1>1. /\ is \in Seq(Instructions) /\ is # <<>>
      /\ DOMAIN is = {1} /\ is[1].op = "malloc" /\ is[1].arg = {v}
  BY DEF Allocating, Instruction, Instructions, Operations
<1>2. PICK ext : /\ Writes(ext) /\ DOMAIN blocks' = DOMAIN blocks /\ Len(blocks') = Len(blocks)
                 /\ \A b \in DOMAIN blocks : ext[b] = IF b = insert THEN is ELSE <<>>
  BY <1>1, Emission
<1>3. /\ exit \in DOMAIN blocks /\ insert \in DOMAIN blocks /\ insert # exit
      /\ IsExit(exit) /\ ~ IsExit(insert)
      /\ blocks[exit].function = f /\ blocks[insert].function = f
      /\ f \in DOMAIN functions /\ IsFunc(f)
  BY ToExit
<1>4. /\ Grown /\ Placed /\ Writes(ext)
      /\ \A b \in DOMAIN blocks : IsExit(b)' = IsExit(b)
      /\ \A b \in DOMAIN blocks : IsFunc(blocks[b].function)' = IsFunc(blocks[b].function)
      /\ \A b \in DOMAIN blocks : blocks'[b].function = blocks[b].function
      /\ \A b \in DOMAIN blocks : b # insert => blocks'[b].code = blocks[b].code
      /\ blocks'[insert].code = blocks[insert].code \o is
  BY <1>2, <1>3, WritesGrow, GrownKeeps DEF Coded, Writes
<1>5. /\ DOMAIN blocks = 1..Len(blocks) /\ Len(blocks) \in Nat
      /\ \A b \in DOMAIN blocks : b \in Nat /\ blocks[b].code \in Seq(Instructions)
      /\ insert \in Nat
  BY <1>3, CodeNumbers
<1>6. /\ \A b \in DOMAIN blocks : b # insert => Mallocs(b)' = Mallocs(b)
      /\ Mallocs(insert)' = Mallocs(insert) \cup {v}
  <2>1. ASSUME NEW b \in DOMAIN blocks, b # insert PROVE Mallocs(b)' = Mallocs(b)
    BY <1>4, <2>1 DEF Mallocs, Made
  <2>2. Mallocs(insert)' = Made(blocks'[insert].code, "malloc")
    BY DEF Mallocs, Made
  <2> DEFINE s == blocks[insert].code
  <2>3. s \in Seq(Instructions) /\ Mallocs(insert) = Made(s, "malloc") /\ blocks'[insert].code = s \o is
    BY <1>3, <1>4, <1>5 DEF Mallocs
  <2>4. Made(is, "malloc") = {v}
    BY <1>1 DEF Made
  <2> HIDE DEF s
  <2>5. Made(s \o is, "malloc") = Made(s, "malloc") \cup Made(is, "malloc")
    <3>1. s \in Seq(Instructions) /\ is \in Seq(Instructions)
      BY <1>1, <2>3
    <3> QED
      BY <3>1, MadeJoined
  <2> QED
    BY <2>1, <2>2, <2>3, <2>4, <2>5
<1>7. \A g : BlocksOf(g)' = BlocksOf(g)
  BY <1>2, <1>4 DEF BlocksOf
<1>8. /\ \A g : g # f => Memory(g)' = Memory(g)
      /\ \A g : g = f => Memory(g)' = Memory(g) \cup {v}
      /\ insert \in BlocksOf(f)
  <2>1. insert \in BlocksOf(f)
    BY <1>3 DEF BlocksOf
  <2>2. ASSUME NEW g, g # f PROVE Memory(g)' = Memory(g)
    <3>1. insert \notin BlocksOf(g) /\ BlocksOf(g) \in SUBSET DOMAIN blocks
      BY <1>3, <2>2 DEF BlocksOf
    <3> QED
      BY <1>6, <1>7, <3>1 DEF Memory
  <2>3. ASSUME NEW g, g = f PROVE Memory(g)' = Memory(g) \cup {v}
    <3>1. insert \in BlocksOf(g) /\ BlocksOf(g) \in SUBSET DOMAIN blocks
      BY <2>1, <2>3 DEF BlocksOf
    <3>2. Memory(g)' = UNION {Mallocs(b)' : b \in BlocksOf(g)}
      BY <1>7 DEF Memory
    <3>3. \A w : w \in UNION {Mallocs(b)' : b \in BlocksOf(g)}
                   <=> w = v \/ w \in UNION {Mallocs(b) : b \in BlocksOf(g)}
      BY <1>6, <3>1
    <3> QED
      BY <3>2, <3>3 DEF Memory
  <2> QED
    BY <2>1, <2>2, <2>3
<1> HIDE DEF f
<1>9. Placed'
  <2>1. \A b \in DOMAIN blocks : \A m \in DOMAIN ext[b] : ext[b][m].op # "br"
    <3>1. DOMAIN <<>> = {}
      OBVIOUS
    <3> QED
      BY <1>1, <1>2, <3>1
  <2>2. /\ insert' \in 0..Len(blocks') /\ exit' \in 0..Len(blocks')
        /\ (exit' # 0) = InsideFunction'
    BY <1>2, <1>4 DEF Placed
  <2> QED
    BY <1>2, <1>4, <2>1, <2>2, PlacedKept
<1>10. Generating'
  <2>1. \A b \in DOMAIN blocks : b \notin {insert, exit} /\ HasTerminator(b) => HasTerminator(b)'
    <3>1. ASSUME NEW b \in DOMAIN blocks, b # insert, HasTerminator(b) PROVE HasTerminator(b)'
      <4>1. blocks'[b].code = blocks[b].code
        BY <1>4, <3>1
      <4> QED
        BY <3>1, <4>1 DEF HasTerminator
    <3> QED
      BY <3>1
  <2>2. blocks'[exit].function = f /\ blocks'[exit].code = blocks[exit].code /\ blocks'[insert].function = f
    BY <1>3, <1>4
  <2>3. IsFunc(Len(functions))' = IsFunc(Len(functions))
    BY DEF IsFunc
  <2>4. DOMAIN blocks' = DOMAIN blocks /\ \A b \in DOMAIN blocks : blocks'[b].function = blocks[b].function
    BY <1>2, <1>4
  <2>5. Generating /\ exit # 0
    BY DEF Coded
  <2> QED
    BY <2>1, <2>2, <2>3, <2>4, <2>5 DEF Generating, f
<1>11. Rested'
  BY DEF Rested
<1>12. ASSUME ~ Broken' PROVE (Allocated /\ Cleaned)'
  <2>1. /\ ~ Broken /\ Allocated /\ Cleaned
        /\ \A k \in DOMAIN blocks[insert].code : blocks[insert].code[k].op \notin Terminators
    <3>1. ext[insert] # <<>> /\ insert # 0
      <4>1. ext[insert] = is
        BY <1>2, <1>3
      <4>2. insert # 0
        BY <1>3, <1>5
      <4> QED
        BY <1>1, <4>1, <4>2
    <3>2. /\ ~ Broken
          /\ \A k \in DOMAIN blocks[insert].code : blocks[insert].code[k].op \notin Terminators
      BY <1>4, <1>12, <3>1, WhereCode
    <3> QED
      BY <3>2 DEF Coded, Sound
  <2>2. ASSUME NEW b \in DOMAIN blocks, NEW k \in DOMAIN blocks[b].code, NEW i,
               i = blocks[b].code[k]
        PROVE  Allowed(b, i)'
    <3>1. Allowed(b, i)
      BY <2>1, <2>2 DEF Allocated
    <3>2. ASSUME i.op = "br", NEW c \in i.arg PROVE Follows(b, c)' /\ (c = exit' => b = insert')
      <4>1. c \in DOMAIN blocks /\ blocks[c].function = blocks[b].function
        BY <1>4, <2>2, <3>2 DEF Placed
      <4>2. Follows(b, c) /\ (c = exit => b = insert)
        BY <3>1, <3>2 DEF Allowed
      <4>3. b # insert
        BY <2>1, <2>2, <3>2 DEF Terminators
      <4>4. CASE blocks[b].function # f
        <5>1. \A d \in BlocksOf(blocks[b].function) : d # insert /\ d \in DOMAIN blocks
          BY <1>3, <4>4 DEF BlocksOf
        <5>2. \A d \in BlocksOf(blocks[b].function)' :
                d \in BlocksOf(blocks[b].function) /\ Mallocs(d)' = Mallocs(d)
          BY <1>2, <1>4, <1>6, <1>7, <5>1 DEF BlocksOf
        <5> QED
          BY <1>4, <4>1, <4>2, <4>3, <5>2 DEF Follows
      <4>5. CASE blocks[b].function = f
        <5>1. ~ IsExit(c)
          <6>1. c # exit
            BY <4>2, <4>3
          <6>2. exit = functions[f].entry + 1
            BY DEF Coded, Generating, f
          <6> QED
            BY <4>1, <4>5, <6>1, <6>2 DEF IsExit
        <5>2. b < c /\ \A d \in BlocksOf(f) : b < d /\ d < c => Mallocs(d) = {}
          BY <4>2, <4>5, <5>1 DEF Follows
        <5>3. c <= insert
          <6>1. c >= functions[f].entry
            <7>1. functions[f].entry <= c /\ functions[f].entry \in Nat /\ c \in Nat
              BY <1>3, <1>4, <4>1, <4>5, CodeNumbers DEF Placed
            <7> QED
              BY <7>1
          <6> QED
            BY <1>3, <4>1, <5>1, <6>1 DEF Coded, Generating, f
        <5>4. \A d \in BlocksOf(f)' : b < d /\ d < c => Mallocs(d)' = {}
          <6>1. ASSUME NEW d \in BlocksOf(f), b < d, d < c PROVE Mallocs(d)' = {}
            <7>1. d \in DOMAIN blocks /\ d # insert
              BY <1>5, <4>1, <5>3, <6>1 DEF BlocksOf
            <7> QED
              BY <1>6, <5>2, <6>1, <7>1
          <6>2. BlocksOf(f)' = BlocksOf(f)
            <7>1. PICK g : g = f
              OBVIOUS
            <7>2. f' = f
              BY DEF f
            <7> QED
              BY <1>7, <7>1, <7>2
          <6> QED
            BY <6>1, <6>2
        <5>5. f = blocks'[b].function /\ ~ IsExit(c)'
          BY <1>4, <4>1, <4>5, <5>1
        <5> QED
          <6>1. PICK g : g = f
            OBVIOUS
          <6>2. \A d \in BlocksOf(g)' : b < d /\ d < c => Mallocs(d)' = {}
            <7>1. g = f'
              BY <6>1 DEF f
            <7> QED
              BY <5>4, <7>1
          <6>3. \A d \in BlocksOf(blocks[b].function)' : b < d /\ d < c => Mallocs(d)' = {}
            BY <5>5, <6>1, <6>2
          <6> QED
            BY <4>2, <4>3, <5>2, <5>5, <6>3 DEF Follows
      <4> QED
        BY <4>4, <4>5
    <3>3. i.op = "ret" => /\ IsExit(b)' \/ Memory(blocks[b].function)' = {}
                          /\ exit' = 0 \/ blocks'[b].function # Len(functions')
      <4>1. i.op = "ret" => blocks[b].function # f
        BY <3>1 DEF Allowed, f
      <4>2. i.op = "ret" => Memory(blocks[b].function)' = Memory(blocks[b].function)
        <5>1. PICK g : g = blocks[b].function
          OBVIOUS
        <5>2. g # f => Memory(g)' = Memory(g)
          BY <1>8
        <5>3. g = blocks'[b].function
          BY <1>4, <5>1
        <5> QED
          BY <4>1, <5>1, <5>2, <5>3
      <4>3. blocks'[b].function = blocks[b].function /\ IsExit(b)' = IsExit(b)
        BY <1>4
      <4>4. i.op = "ret" => IsExit(b) \/ Memory(blocks[b].function) = {}
        BY <3>1 DEF Allowed
      <4>5. Len(functions') = f
        BY DEF f
      <4> QED
        BY <4>1, <4>2, <4>3, <4>4, <4>5
    <3>4. /\ i.op = "malloc" => (IsFunc(blocks[b].function) /\ ~ IsExit(b))'
          /\ i.op = "free" => IsExit(b)'
      BY <1>4, <3>1 DEF Allowed
    <3> QED
      BY <3>2, <3>3, <3>4 DEF Allowed
  <2>3. ASSUME NEW b \in DOMAIN blocks, NEW i, \E m \in DOMAIN ext[b] : i = ext[b][m]
        PROVE  Allowed(b, i)'
    <3>1. b = insert /\ i.op = "malloc"
      <4>1. DOMAIN <<>> = {}
        OBVIOUS
      <4> QED
        BY <1>1, <1>2, <2>3, <4>1
    <3>2. (IsFunc(blocks[b].function) /\ ~ IsExit(b))'
      BY <1>3, <1>4, <3>1
    <3> QED
      BY <3>1, <3>2 DEF Allowed
  <2>4. ASSUME NEW b \in DOMAIN blocks PROVE CleansUp(b)'
    <3>1. CleansUp(b)
      BY <2>1 DEF Cleaned
    <3>2. CASE ~ IsExit(b)
      BY <1>4, <3>2 DEF CleansUp
    <3>3. CASE b = exit
      <4>1. blocks'[b].code = <<>>
        BY <1>3, <1>4, <3>3 DEF Coded, Generating
      <4> QED
        BY <4>1 DEF CleansUp
    <3>4. CASE IsExit(b) /\ b # exit
      <4>1. b # insert /\ blocks[b].function # f
        BY <1>3, <3>4 DEF Coded, Generating, f, IsExit
      <4>2. blocks'[b].code = blocks[b].code
        BY <1>4, <4>1
      <4>3. PICK g : g = blocks[b].function
        OBVIOUS
      <4>4. Memory(g)' = Memory(g) /\ g = blocks'[b].function
        BY <1>4, <1>8, <4>1, <4>3
      <4> QED
        BY <3>1, <3>4, <4>2, <4>3, <4>4 DEF CleansUp
    <3> QED
      BY <3>2, <3>3, <3>4
  <2>5. ASSUME NEW b \in DOMAIN blocks', NEW k \in DOMAIN blocks'[b].code, NEW i,
               i = blocks'[b].code[k]
        PROVE  Allowed(b, i)'
    <3>1. CASE k \in DOMAIN blocks[b].code /\ blocks'[b].code[k] = blocks[b].code[k]
      BY <1>2, <2>2, <2>5, <3>1
    <3>2. CASE \E m \in DOMAIN ext[b] : blocks'[b].code[k] = ext[b][m]
      BY <1>2, <2>3, <2>5, <3>2
    <3> QED
      BY <1>2, <3>1, <3>2, WritesGrow
  <2> QED
    BY <1>2, <2>4, <2>5 DEF Allocated, Cleaned
<1>13. Memory(Len(functions))' = Memory(Len(functions)) \cup {v}
  <2>1. PICK g : g = f
    OBVIOUS
  <2>2. Memory(g)' = Memory(g) \cup {v} /\ Len(functions) = g /\ Len(functions') = g
    BY <1>8, <2>1 DEF f
  <2> QED
    BY <2>2
<1> QED
  BY <1>4, <1>9, <1>10, <1>11, <1>12, <1>13 DEF Coded, Sound

LEMMA NoMemory ==
  ASSUME Typed, Placed, Allocated, NEW f, ~ IsFunc(f)
  PROVE  Memory(f) = {} /\ \A d \in BlocksOf(f) : Mallocs(d) = {}
<1>1. ASSUME NEW d \in BlocksOf(f) PROVE Mallocs(d) = {}
  <2>1. d \in DOMAIN blocks /\ blocks[d].function = f
    BY DEF BlocksOf
  <2>2. \A k \in DOMAIN blocks[d].code : blocks[d].code[k].op # "malloc"
    BY <2>1 DEF Allocated, Allowed
  <2> QED
    BY <2>2 DEF Mallocs, Made
<1> QED
  BY <1>1 DEF Memory

LEMMA JoinedTwo ==
  ASSUME NEW S, NEW s \in Seq(S), NEW x \in S, NEW y \in S
  PROVE  /\ s \o <<x, y>> \in Seq(S) /\ Len(s \o <<x, y>>) = Len(s) + 2
         /\ DOMAIN (s \o <<x, y>>) = DOMAIN s \cup {Len(s) + 1, Len(s) + 2}
         /\ \A k \in DOMAIN s : (s \o <<x, y>>)[k] = s[k]
         /\ (s \o <<x, y>>)[Len(s) + 1] = x /\ (s \o <<x, y>>)[Len(s) + 2] = y
<1> DEFINE t == <<x, y>>
<1>0. s \in Seq(S) /\ t \in Seq(S)
  OBVIOUS
<1>1. Len(t) = 2 /\ t[1] = x /\ t[2] = y
  OBVIOUS
<1> HIDE DEF t
<1>2. /\ s \o t \in Seq(S)
      /\ Len(s \o t) = Len(s) + Len(t)
      /\ DOMAIN (s \o t) = 1..(Len(s) + Len(t))
      /\ \A k \in 1..Len(s) : (s \o t)[k] = s[k]
      /\ \A k \in 1..Len(t) : (s \o t)[Len(s) + k] = t[k]
  BY <1>0, Joined
<1>3. DOMAIN s = 1..Len(s) /\ Len(s) \in Nat
  BY Elements
<1>4. 1 \in 1..Len(t) /\ 2 \in 1..Len(t)
  BY <1>1
<1>5. /\ Len(s \o t) = Len(s) + 2
      /\ (s \o t)[Len(s) + 1] = x /\ (s \o t)[Len(s) + 2] = y
  BY <1>1, <1>2, <1>4
<1>6. 1..(Len(s) + Len(t)) = (1..Len(s)) \cup {Len(s) + 1, Len(s) + 2}
  <2> DEFINE n == Len(s)
  <2>1. n \in Nat /\ Len(t) = 2
    BY <1>1, <1>3
  <2> HIDE DEF n
  <2>2. 1..(n + 2) = (1..n) \cup {n + 1, n + 2}
    BY <2>1
  <2> QED
    BY <2>1, <2>2 DEF n
<1> QED
  BY <1>2, <1>3, <1>5, <1>6 DEF t

(* An assertion: a branch, and the blocks where it fails and goes on.      *)
Failing(f, cont) == [NewBlock(f) EXCEPT !.code = <<Other, Br(cont)>>]
LEMMA AssertBranch ==
  ASSUME NEW fail \in Nat, NEW cont \in Nat
  PROVE  <<Instruction("br", {fail, cont})>> \in Seq(Instructions)
<1>1. Instruction("br", {fail, cont}) \in Instructions
  BY DEF Instruction, Instructions, Operations
<1> QED
  BY <1>1

LEMMA AssertBlocks ==
  ASSUME NEW f \in Nat, NEW cont \in Nat
  PROVE  /\ NewBlock(f) \in BlockSet /\ Failing(f, cont) \in BlockSet
         /\ NewBlock(f).function = f /\ NewBlock(f).code = <<>>
         /\ Failing(f, cont).function = f /\ Ends(Failing(f, cont).code)
         /\ ~ Overrun(Failing(f, cont).code)
         /\ \A k \in DOMAIN Failing(f, cont).code :
              LET i == Failing(f, cont).code[k] IN
              i.op = "other" \/ (i.op = "br" /\ i.arg = {cont})
<1> DEFINE other == [op |-> "other", arg |-> {}]
           br == [op |-> "br", arg |-> {cont}]
           s == <<other, br>>
<1>1. other \in Instructions /\ br \in Instructions
  BY DEF Instructions, Operations
<1>2. s \in Seq(Instructions) /\ <<>> \in Seq(Instructions)
  BY <1>1
<1>3. DOMAIN s = {1, 2} /\ s[1] = other /\ s[2] = br /\ Len(s) = 2 /\ s # <<>>
  OBVIOUS
<1>4. /\ Failing(f, cont) = [function |-> f, code |-> s]
      /\ NewBlock(f) = [function |-> f, code |-> <<>>]
  <2>1. NewBlock(f) = [function |-> f, code |-> <<>>]
    BY DEF NewBlock
  <2>2. s = <<Other, Br(cont)>>
    BY DEF Other, Br, Instruction
  <2> HIDE DEF s
  <2>3. Failing(f, cont) = [NewBlock(f) EXCEPT !.code = s]
    BY <2>2 DEF Failing
  <2> QED
    BY <2>1, <2>3
<1>5. Ends(s) /\ ~ Overrun(s)
  BY <1>3 DEF Ends, Last, Terminators, Overrun
<1> HIDE DEF s
<1>6. /\ NewBlock(f) \in BlockSet /\ Failing(f, cont) \in BlockSet
      /\ NewBlock(f).function = f /\ NewBlock(f).code = <<>>
      /\ Failing(f, cont).function = f /\ Failing(f, cont).code = s
  BY <1>2, <1>4 DEF BlockSet
<1> QED
  BY <1>3, <1>5, <1>6

Asserts(fail, cont, ext) ==
  /\ fail \in Nat /\ cont \in Nat /\ fail < cont
  /\ insert \in DOMAIN blocks /\ \A b \in DOMAIN blocks : b < fail
  /\ \A b \in DOMAIN blocks' : b \in Nat /\ ~ (fail < b /\ b < cont) /\ b <= cont
  /\ exit \in 0..Len(blocks) /\ exit \notin {fail, cont}
  /\ DOMAIN blocks' = DOMAIN blocks \cup {fail, cont}
  /\ Len(blocks) <= Len(blocks') /\ cont \in 0..Len(blocks') /\ exit \in 0..Len(blocks')
  /\ blocks[insert].function \in DOMAIN functions
  /\ Writes(ext)
  /\ \A b \in DOMAIN blocks : b # insert => ext[b] = <<>>
  /\ ext[insert] # <<>> /\ ~ Overrun(ext[insert]) /\ Ends(ext[insert])
  /\ ~ Overrun(blocks'[fail].code)
  /\ \A m \in DOMAIN ext[insert] : ext[insert][m].op = "br" /\ ext[insert][m].arg = {fail, cont}
  /\ Ends(blocks'[insert].code) /\ Ends(blocks'[fail].code)
  /\ blocks'[fail].function = blocks[insert].function
  /\ \A k \in DOMAIN blocks'[fail].code :
       LET i == blocks'[fail].code[k] IN i.op = "other" \/ (i.op = "br" /\ i.arg = {cont})
  /\ blocks'[cont].function = blocks[insert].function /\ blocks'[cont].code = <<>>

LEMMA EndsLonger ==
  ASSUME NEW s \in Seq(Instructions), NEW is \in Seq(Instructions), Ends(is)
  PROVE  Ends(s \o is)
<1>1. /\ Len(s) \in Nat /\ Len(is) \in Nat /\ Len(is) # 0
      /\ is[Len(is)].op \in Terminators
  BY Elements DEF Ends, Last
<1>2. /\ s \o is \in Seq(Instructions) /\ Len(s \o is) = Len(s) + Len(is)
      /\ \A k \in 1..Len(is) : (s \o is)[Len(s) + k] = is[k]
  BY Joined
<1>3. Len(is) \in 1..Len(is)
  BY <1>1
<1>4. (s \o is)[Len(s \o is)] = is[Len(is)]
  BY <1>2, <1>3
<1>5. s \o is # <<>>
  <2>1. s \o is = <<>> <=> Len(s \o is) = 0
    BY <1>2, Elements
  <2> QED
    BY <1>1, <1>2, <2>1
<1> QED
  BY <1>1, <1>4, <1>5 DEF Ends, Last

AssertBranches(fail, cont, f) ==
  blocks' = Inserted(blocks, insert, <<Instruction("br", {fail, cont})>>)
              \o <<Failing(f, cont), NewBlock(f)>>

LEMMA AssertWrites ==
  ASSUME Typed, Coded, insert # 0,
         NEW fail, NEW cont, NEW f,
         fail = Len(blocks) + 1, cont = Len(blocks) + 2, f = blocks[insert].function,
         AssertBranches(fail, cont, f), functions' = functions
  PROVE  \E ext : Asserts(fail, cont, ext)
<1> DEFINE x == Failing(f, cont)
           y == NewBlock(f)
           is == <<Instruction("br", {fail, cont})>>
           bs == Inserted(blocks, insert, is)
           ext == [b \in DOMAIN blocks |-> IF b = insert THEN is ELSE <<>>]
<1>1. /\ DOMAIN blocks = 1..Len(blocks) /\ Len(blocks) \in Nat /\ Len(functions) \in Nat
      /\ \A b \in DOMAIN blocks : b \in Nat /\ blocks[b].code \in Seq(Instructions)
      /\ insert \in DOMAIN blocks /\ exit \in 0..Len(blocks)
      /\ fail \in Nat /\ cont \in Nat /\ f \in Nat /\ f \in DOMAIN functions
      /\ blocks \in Seq(BlockSet) /\ functions \in Seq(FunctionSet)
  <2>1. /\ DOMAIN blocks = 1..Len(blocks) /\ Len(blocks) \in Nat /\ Len(functions) \in Nat
        /\ \A b \in DOMAIN blocks : /\ b \in Nat /\ blocks[b].code \in Seq(Instructions)
                                    /\ blocks[b].function \in Nat
        /\ insert \in 0..Len(blocks) /\ exit \in 0..Len(blocks)
    BY CodeNumbers DEF Coded, Placed
  <2>2. insert \in DOMAIN blocks
    BY <2>1
  <2>3. f \in Nat /\ f \in DOMAIN functions
    BY <2>1, <2>2 DEF Coded, Placed
  <2>4. blocks \in Seq(BlockSet) /\ functions \in Seq(FunctionSet)
    BY DEF Typed
  <2>5. fail \in Nat /\ cont \in Nat
    BY <2>1
  <2> QED
    BY <2>1, <2>2, <2>3, <2>4, <2>5
<1>2. /\ is # <<>> /\ Len(is) = 1 /\ is[1].op = "br" /\ is[1].arg = {fail, cont}
      /\ DOMAIN is = {1}
  BY DEF Instruction
<1>3. Ends(is) /\ ~ Overrun(is)
  BY <1>2 DEF Ends, Last, Terminators, Overrun
<1>4. blocks' = bs \o <<x, y>>
  BY DEF AssertBranches
<1>5. /\ x \in BlockSet /\ y \in BlockSet /\ is \in Seq(Instructions)
      /\ y.function = f /\ y.code = <<>> /\ x.function = f /\ Ends(x.code) /\ ~ Overrun(x.code)
      /\ \A k \in DOMAIN x.code :
           LET i == x.code[k] IN i.op = "other" \/ (i.op = "br" /\ i.arg = {cont})
  <2>1. f \in Nat /\ fail \in Nat /\ cont \in Nat
    BY <1>1
  <2>2. /\ NewBlock(f) \in BlockSet /\ Failing(f, cont) \in BlockSet
        /\ NewBlock(f).function = f /\ NewBlock(f).code = <<>>
        /\ Failing(f, cont).function = f /\ Ends(Failing(f, cont).code)
        /\ ~ Overrun(Failing(f, cont).code)
        /\ \A k \in DOMAIN Failing(f, cont).code :
             LET i == Failing(f, cont).code[k] IN
             i.op = "other" \/ (i.op = "br" /\ i.arg = {cont})
    BY <2>1, AssertBlocks
  <2>3. <<Instruction("br", {fail, cont})>> \in Seq(Instructions)
    BY <2>1, AssertBranch
  <2> HIDE DEF is
  <2> QED
    BY <2>2, <2>3 DEF is
<1> HIDE DEF x, y, is
<1>6. /\ bs \in Seq(BlockSet) /\ Len(bs) = Len(blocks) /\ DOMAIN bs = DOMAIN blocks
      /\ \A c \in DOMAIN blocks :
           /\ bs[c].function = blocks[c].function
           /\ bs[c].code = IF c = insert THEN blocks[c].code \o is ELSE blocks[c].code
  <2>1. blocks \in Seq(BlockSet) /\ insert \in DOMAIN blocks /\ is \in Seq(Instructions)
    BY <1>1, <1>5
  <2>2. /\ Inserted(blocks, insert, is) \in Seq(BlockSet)
        /\ Len(Inserted(blocks, insert, is)) = Len(blocks)
        /\ DOMAIN Inserted(blocks, insert, is) = DOMAIN blocks
        /\ \A c \in DOMAIN blocks :
             /\ Inserted(blocks, insert, is)[c].function = blocks[c].function
             /\ Inserted(blocks, insert, is)[c].code
                  = IF c = insert THEN blocks[c].code \o is ELSE blocks[c].code
    BY <2>1, InsertedCode
  <2> QED
    BY <2>2
<1> HIDE DEF bs
<1>7. /\ blocks' \in Seq(BlockSet) /\ Len(blocks') = Len(blocks) + 2
      /\ DOMAIN blocks' = DOMAIN blocks \cup {fail, cont}
      /\ \A k \in DOMAIN blocks : blocks'[k] = bs[k]
      /\ blocks'[fail] = x /\ blocks'[cont] = y
  <2>1. bs \in Seq(BlockSet) /\ x \in BlockSet /\ y \in BlockSet
    BY <1>5, <1>6
  <2>2. /\ bs \o <<x, y>> \in Seq(BlockSet) /\ Len(bs \o <<x, y>>) = Len(bs) + 2
        /\ DOMAIN (bs \o <<x, y>>) = DOMAIN bs \cup {Len(bs) + 1, Len(bs) + 2}
        /\ \A k \in DOMAIN bs : (bs \o <<x, y>>)[k] = bs[k]
        /\ (bs \o <<x, y>>)[Len(bs) + 1] = x /\ (bs \o <<x, y>>)[Len(bs) + 2] = y
    BY <2>1, JoinedTwo
  <2> QED
    BY <1>4, <1>6, <2>2
<1>8. \A b \in DOMAIN blocks : blocks[b].code \o <<>> = blocks[b].code
  BY <1>1, ConcatEmptySeq
<1>9. /\ \A b \in DOMAIN blocks : ext[b] = IF b = insert THEN is ELSE <<>>
      /\ <<>> \in Seq(Instructions)
  OBVIOUS
<1> HIDE DEF ext
<1>10. /\ \A b \in DOMAIN blocks : b < fail
       /\ fail < cont /\ exit \notin {fail, cont}
       /\ \A b \in DOMAIN blocks' : b \in Nat /\ ~ (fail < b /\ b < cont) /\ b <= cont
       /\ cont \in 0..Len(blocks') /\ exit \in 0..Len(blocks') /\ Len(blocks) <= Len(blocks')
  <2> DEFINE n == Len(blocks)
             m == Len(blocks')
  <2>1. /\ n \in Nat /\ fail = n + 1 /\ cont = n + 2 /\ m = n + 2 /\ exit \in 0..n
        /\ \A b \in DOMAIN blocks : b \in 1..n
        /\ \A b \in DOMAIN blocks' : b \in 1..n \/ b \in {fail, cont}
    BY <1>1, <1>7
  <2> HIDE DEF n, m
  <2>2. /\ \A b \in DOMAIN blocks : b < fail
        /\ fail < cont /\ exit \notin {fail, cont}
    BY <2>1
  <2>3. ASSUME NEW b \in DOMAIN blocks'
        PROVE  b \in Nat /\ ~ (fail < b /\ b < cont) /\ b <= cont
    <3>1. b \in 1..n \/ b = n + 1 \/ b = n + 2
      BY <2>1
    <3>2. n \in Nat /\ fail = n + 1 /\ cont = n + 2
      BY <2>1
    <3> QED
      BY <3>1, <3>2
  <2>4. cont \in 0..m /\ exit \in 0..m /\ n <= m
    BY <2>1
  <2> QED
    BY <2>2, <2>3, <2>4 DEF n, m
<1>11. Writes(ext)
  <2>1. \A b \in DOMAIN blocks : /\ blocks'[b].function = blocks[b].function
                                 /\ ext[b] \in Seq(Instructions)
                                 /\ blocks'[b].code = blocks[b].code \o ext[b]
    <3>1. ASSUME NEW b \in DOMAIN blocks
          PROVE  /\ blocks'[b].function = blocks[b].function
                 /\ ext[b] \in Seq(Instructions)
                 /\ blocks'[b].code = blocks[b].code \o ext[b]
      <4>1. blocks'[b] = bs[b] /\ bs[b].function = blocks[b].function
        BY <1>6, <1>7
      <4>2. CASE b = insert
        <5>1. ext[b] = is /\ bs[b].code = blocks[b].code \o is
          BY <1>6, <1>9, <4>2
        <5> QED
          BY <1>5, <4>1, <5>1
      <4>3. CASE b # insert
        <5>1. ext[b] = <<>> /\ bs[b].code = blocks[b].code
          BY <1>6, <1>9, <4>3
        <5>2. blocks[b].code \o <<>> = blocks[b].code
          BY <1>8
        <5> QED
          BY <1>9, <4>1, <5>1, <5>2
      <4> QED
        BY <4>2, <4>3
    <3> QED
      BY <3>1
  <2>2. functions' \in Seq(FunctionSet) /\ Len(functions) <= Len(functions')
    BY <1>1
  <2> QED
    BY <1>7, <1>10, <2>1, <2>2 DEF Writes
<1>12. Ends(blocks'[insert].code)
  <2>1. blocks[insert].code \in Seq(Instructions)
    BY <1>1
  <2>2. Ends(blocks[insert].code \o is)
    BY <1>3, <1>5, <2>1, EndsLonger DEF is
  <2> QED
    BY <1>1, <1>6, <1>7, <2>2
<1>13. /\ \A b \in DOMAIN blocks : b # insert => ext[b] = <<>>
       /\ ext[insert] = is
  BY <1>1, <1>9
<1>14. /\ ext[insert] # <<>> /\ ~ Overrun(ext[insert]) /\ Ends(ext[insert])
       /\ \A m \in DOMAIN ext[insert] : ext[insert][m].op = "br" /\ ext[insert][m].arg = {fail, cont}
  BY <1>2, <1>3, <1>13 DEF is
<1>15. Asserts(fail, cont, ext)
  <2>1. /\ fail \in Nat /\ cont \in Nat /\ fail < cont
        /\ insert \in DOMAIN blocks /\ \A b \in DOMAIN blocks : b < fail
        /\ \A b \in DOMAIN blocks' : b \in Nat /\ ~ (fail < b /\ b < cont) /\ b <= cont
        /\ exit \in 0..Len(blocks) /\ exit \notin {fail, cont}
        /\ Len(blocks) <= Len(blocks') /\ cont \in 0..Len(blocks') /\ exit \in 0..Len(blocks')
    BY <1>1, <1>10
  <2>2. /\ DOMAIN blocks' = DOMAIN blocks \cup {fail, cont}
        /\ blocks[insert].function \in DOMAIN functions
    BY <1>1, <1>7
  <2>3. /\ Ends(blocks'[fail].code) /\ blocks'[fail].function = f
        /\ ~ Overrun(blocks'[fail].code)
        /\ \A k \in DOMAIN blocks'[fail].code :
             LET i == blocks'[fail].code[k] IN i.op = "other" \/ (i.op = "br" /\ i.arg = {cont})
        /\ blocks'[cont].function = f /\ blocks'[cont].code = <<>>
    <3>1. blocks'[fail] = x /\ blocks'[cont] = y
      BY <1>7
    <3>2. blocks'[fail].code = x.code /\ blocks'[fail].function = x.function
      BY <3>1
    <3>3. blocks'[cont].code = y.code /\ blocks'[cont].function = y.function
      BY <3>1
    <3>4. Ends(blocks'[fail].code) /\ blocks'[fail].function = f /\ ~ Overrun(blocks'[fail].code)
      BY <1>5, <3>2
    <3>5. \A k \in DOMAIN blocks'[fail].code :
             LET i == blocks'[fail].code[k] IN i.op = "other" \/ (i.op = "br" /\ i.arg = {cont})
      BY <1>5, <3>2
    <3>6. y.function = f /\ y.code = <<>>
      BY <1>5
    <3>7. blocks'[cont].function = f /\ blocks'[cont].code = <<>>
      BY <3>3, <3>6
    <3> QED
      BY <3>4, <3>5, <3>7
  <2> QED
    BY <1>11, <1>12, <1>13, <1>14, <2>1, <2>2, <2>3 DEF Asserts
<1> QED
  BY <1>15

LEMMA AssertCoded ==
  ASSUME Typed, Coded, NEW fail, NEW cont, NEW ext, Asserts(fail, cont, ext),
         functions' = functions, insert' = cont, exit' = exit,
         InsideFunction' = InsideFunction
  PROVE  Quiet /\ Coded'
<1> DEFINE f == blocks[insert].function
<1>1. /\ fail \in Nat /\ cont \in Nat /\ fail < cont
      /\ insert \in DOMAIN blocks /\ \A b \in DOMAIN blocks : b < fail
      /\ insert \in Nat /\ insert # 0
      /\ exit \in 0..Len(blocks) /\ exit \notin {fail, cont} /\ Len(blocks) \in Nat
      /\ DOMAIN blocks = 1..Len(blocks)
      /\ f \in DOMAIN functions /\ fail \notin DOMAIN blocks /\ cont \notin DOMAIN blocks
      /\ Len(functions') = Len(functions)
  <2>1. /\ fail \in Nat /\ cont \in Nat /\ fail < cont
        /\ insert \in DOMAIN blocks /\ \A b \in DOMAIN blocks : b < fail
        /\ exit \in 0..Len(blocks) /\ exit \notin {fail, cont}
        /\ f \in DOMAIN functions
    BY DEF Asserts
  <2>2. /\ DOMAIN blocks = 1..Len(blocks) /\ Len(blocks) \in Nat
        /\ \A b \in DOMAIN blocks : b \in Nat
    BY CodeNumbers
  <2>3. insert \in Nat /\ insert # 0
    BY <2>1, <2>2
  <2>4. fail \notin DOMAIN blocks /\ cont \notin DOMAIN blocks
    BY <2>1, <2>2
  <2> QED
    BY <2>1, <2>2, <2>3, <2>4
<1>2. /\ Writes(ext) /\ Grown
      /\ DOMAIN blocks' = DOMAIN blocks \cup {fail, cont}
      /\ \A b \in DOMAIN blocks' : b \in Nat /\ ~ (fail < b /\ b < cont) /\ b <= cont
      /\ cont \in 0..Len(blocks') /\ exit \in 0..Len(blocks')
      /\ \A b \in DOMAIN blocks : b # insert => ext[b] = <<>>
      /\ ext[insert] # <<>>
      /\ \A m \in DOMAIN ext[insert] :
           ext[insert][m].op = "br" /\ ext[insert][m].arg = {fail, cont}
  BY WritesGrow DEF Asserts
<1>3. /\ Ends(blocks'[insert].code) /\ Ends(blocks'[fail].code)
      /\ blocks'[fail].function = f
      /\ \A k \in DOMAIN blocks'[fail].code :
           LET i == blocks'[fail].code[k] IN i.op = "other" \/ (i.op = "br" /\ i.arg = {cont})
      /\ blocks'[cont].function = f /\ blocks'[cont].code = <<>>
      /\ DOMAIN <<>> = {}
  BY DEF Asserts
<1>4. /\ \A b \in DOMAIN blocks : blocks'[b].function = blocks[b].function
      /\ \A b \in DOMAIN blocks : b # insert => blocks'[b].code = blocks[b].code
  BY <1>2, WritesGrow DEF Writes
<1>5. \A b \in DOMAIN blocks : \A m \in DOMAIN ext[b] :
        b = insert /\ ext[b][m].op = "br" /\ ext[b][m].arg = {fail, cont}
  BY <1>2, <1>3
<1> HIDE DEF f
<1>10. WritesQuietly(ext) /\ Quiet
  <2>1. \A b \in DOMAIN blocks : Without(ext[b], "malloc")
    BY <1>5 DEF Without
  <2>2. \A b \in DOMAIN blocks' : b \notin DOMAIN blocks => Without(blocks'[b].code, "malloc")
    BY <1>2, <1>3 DEF Without
  <2> QED
    BY <1>2, <2>1, <2>2, WritesGrow DEF WritesQuietly
<1>11. Placed'
  <2>1. \A b \in DOMAIN blocks : \A m \in DOMAIN ext[b] : ext[b][m].op = "br" =>
          \A c \in ext[b][m].arg : c \in DOMAIN blocks' /\ blocks'[c].function = blocks[b].function
    <3>1. \A c \in {fail, cont} : c \in DOMAIN blocks' /\ blocks'[c].function = blocks[insert].function
      BY <1>2, <1>3 DEF f
    <3> QED
      BY <1>5, <3>1
  <2>2. /\ insert' \in 0..Len(blocks') /\ exit' \in 0..Len(blocks')
        /\ (exit' # 0) = InsideFunction'
    BY <1>2 DEF Coded, Placed
  <2>3. ASSUME NEW b \in DOMAIN blocks', b \notin DOMAIN blocks
        PROVE  /\ blocks'[b].function \in DOMAIN functions'
               /\ functions'[blocks'[b].function].entry <= b
               /\ \A k \in DOMAIN blocks'[b].code : blocks'[b].code[k].op = "br" =>
                    \A c \in blocks'[b].code[k].arg :
                      c \in DOMAIN blocks' /\ blocks'[c].function = blocks'[b].function
    <3>1. b = fail \/ b = cont
      BY <1>2, <2>3
    <3>2. blocks'[b].function = f
      BY <1>3, <3>1
    <3>3. functions[f].entry <= b
      <4>1. functions[f].entry <= insert /\ functions[f].entry \in Nat
        BY <1>1, CodeNumbers DEF Coded, Placed, f
      <4>2. insert < b /\ b \in Nat
        BY <1>1, <3>1
      <4> QED
        BY <1>1, <4>1, <4>2
    <3>4. \A k \in DOMAIN blocks'[b].code : blocks'[b].code[k].op = "br" =>
             blocks'[b].code[k].arg = {cont}
      BY <1>3, <3>1
    <3>5. cont \in DOMAIN blocks' /\ blocks'[cont].function = f
      BY <1>2, <1>3
    <3> QED
      BY <1>1, <3>2, <3>3, <3>4, <3>5
  <2> QED
    BY <1>2, <2>1, <2>2, <2>3, PlacedKept DEF Coded
<1>12. Generating'
  <2>1. CASE exit = 0
    BY <2>1 DEF Generating
  <2>2. CASE exit # 0
    <3>1. /\ exit \in DOMAIN blocks /\ insert # exit /\ f = Len(functions)
          /\ IsFunc(Len(functions)) /\ functions # <<>>
          /\ exit = functions[Len(functions)].entry + 1
          /\ blocks[exit].function = Len(functions) /\ blocks[exit].code = <<>>
      BY <2>2, ToExit DEF Coded, Generating, f
    <3>2. blocks'[exit].function = Len(functions) /\ blocks'[exit].code = <<>>
      BY <1>4, <3>1
    <3>3. cont # 0 /\ cont # exit /\ blocks'[cont].function = Len(functions)
      BY <1>1, <1>3, <3>1
    <3>4. ASSUME NEW b \in DOMAIN blocks', b >= functions[Len(functions)].entry
          PROVE  /\ blocks'[b].function = Len(functions)
                 /\ b <= cont
                 /\ b \notin {cont, exit} => HasTerminator(b)'
      <4>1. CASE b = fail
        BY <1>2, <1>3, <3>1, <4>1 DEF HasTerminator, Ends
      <4>2. CASE b = cont
        BY <1>2, <1>3, <3>1, <4>2
      <4>3. CASE b = insert
        BY <1>1, <1>2, <1>3, <1>4, <3>1, <4>3 DEF HasTerminator, Ends, f
      <4>4. CASE b \in DOMAIN blocks /\ b # insert
        <5>1. blocks'[b].code = blocks[b].code /\ blocks'[b].function = blocks[b].function
          BY <1>4, <4>4
        <5>2. /\ blocks[b].function = Len(functions)
              /\ b \notin {insert, exit} => HasTerminator(b)
          BY <2>2, <3>4, <4>4 DEF Coded, Generating
        <5> QED
          BY <1>2, <4>4, <5>1, <5>2 DEF HasTerminator
      <4> QED
        BY <1>2, <4>1, <4>2, <4>3, <4>4
    <3> QED
      BY <3>1, <3>2, <3>3, <3>4 DEF Generating, IsFunc
  <2> QED
    BY <2>1, <2>2
<1>13. Rested'
  <2>1. CASE exit # 0
    BY <2>1 DEF Rested
  <2>2. CASE exit = 0 /\ ~ Broken'
    <3>1. ~ IsFunc(f)
      BY <1>1, <1>2, <2>2, WhereCode DEF f
    <3> QED
      BY <1>3, <3>1 DEF Rested, Refused, IsFunc
  <2>3. CASE Broken'
    BY <2>3 DEF Rested, Refused
  <2> QED
    BY <2>1, <2>2, <2>3
<1>14. ASSUME ~ Broken' PROVE (Allocated /\ Cleaned)'
  <2>1. /\ ~ Broken /\ ~ IsExit(insert)
        /\ \A k \in DOMAIN blocks[insert].code : blocks[insert].code[k].op \notin Terminators
        /\ exit = 0 => ~ IsFunc(f)
    BY <1>1, <1>2, <1>14, WhereCode DEF f
  <2>2. Allocated /\ Cleaned
    BY <2>1 DEF Coded, Sound
  <2>3. ~ IsExit(fail)' /\ ~ IsExit(cont)'
    <3>1. IsFunc(f) => functions[f].entry + 1 = exit
      <4>1. exit # 0 => f = Len(functions) /\ exit = functions[Len(functions)].entry + 1
        BY ToExit DEF Coded, Generating, f
      <4> QED
        BY <2>1, <4>1
    <3> QED
      BY <1>1, <1>3, <3>1 DEF IsExit, IsFunc
  <2>4. ASSUME NEW d \in DOMAIN blocks', blocks'[d].function = f, d > insert
        PROVE  Mallocs(d)' = {}
    <3>1. CASE d \in DOMAIN blocks
      <4>1. d \in BlocksOf(f) /\ Mallocs(d)' = Mallocs(d)
        BY <1>4, <1>10, <2>4, <3>1 DEF BlocksOf, Quiet
      <4>2. CASE exit = 0
        BY <2>1, <2>2, <4>1, <4>2, NoMemory DEF Coded
      <4>3. CASE exit # 0
        BY <2>4, <4>1, <4>3, ToExit DEF f
      <4> QED
        BY <4>2, <4>3
    <3>2. CASE d \notin DOMAIN blocks
      BY <1>10, <2>4, <3>2 DEF Quiet
    <3> QED
      BY <3>1, <3>2
  <2>5. ASSUME NEW b, NEW c, b = insert, c \in {fail, cont} PROVE Follows(b, c)'
    <3>1. blocks'[b].function = f /\ b < c /\ ~ IsExit(c)' /\ b \in Nat
      BY <1>1, <1>4, <2>3, <2>5 DEF f
    <3>2. \A d \in BlocksOf(blocks[b].function)' : b < d /\ d < c => Mallocs(d)' = {}
      <4>1. ASSUME NEW d \in DOMAIN blocks', blocks'[d].function = f, b < d PROVE Mallocs(d)' = {}
        <5>1. d > insert
          BY <1>1, <1>2, <2>5, <4>1
        <5> QED
          BY <2>4, <4>1, <5>1
      <4> QED
        BY <3>1, <4>1 DEF BlocksOf
    <3> QED
      BY <3>1, <3>2 DEF Follows
  <2>6. Follows(fail, cont)'
    <3>1. \A d \in BlocksOf(blocks[fail].function)' : ~ (fail < d /\ d < cont)
      BY <1>2 DEF BlocksOf
    <3> QED
      BY <1>1, <2>3, <3>1 DEF Follows
  <2>7. \A b \in DOMAIN blocks : IsExit(b) /\ ext[b] # <<>> => CleansUp(b)'
    BY <1>2, <2>1
  <2>8. ASSUME NEW b \in DOMAIN blocks, NEW i, \E m \in DOMAIN ext[b] : i = ext[b][m]
        PROVE  Allowed(b, i)'
    <3>1. b = insert /\ i.op = "br" /\ i.arg = {fail, cont}
      BY <1>5, <2>8
    <3>2. \A c \in {fail, cont} : Follows(b, c)' /\ c # exit'
      BY <1>1, <2>5, <3>1
    <3> QED
      BY <3>1, <3>2 DEF Allowed
  <2>9. ASSUME NEW b \in DOMAIN blocks', b \notin DOMAIN blocks
        PROVE  /\ IsExit(b)' => blocks'[b].code = <<>>
               /\ \A i : (\E k \in DOMAIN blocks'[b].code : i = blocks'[b].code[k])
                           => Allowed(b, i)'
    <3>1. b = fail \/ b = cont
      BY <1>2, <2>9
    <3>2. ~ IsExit(b)'
      BY <2>3, <3>1
    <3>3. ASSUME NEW i, \E k \in DOMAIN blocks'[b].code : i = blocks'[b].code[k]
          PROVE  Allowed(b, i)'
      <4>1. b = fail /\ (i.op = "other" \/ (i.op = "br" /\ i.arg = {cont}))
        BY <1>3, <3>1, <3>3
      <4>2. cont # exit'
        BY <1>1
      <4> QED
        BY <2>6, <4>1, <4>2 DEF Allowed
    <3> QED
      BY <3>2, <3>3
  <2>10. \A b \in DOMAIN blocks : \A k \in DOMAIN blocks[b].code :
          /\ blocks[b].code[k].op = "br" /\ exit' \in blocks[b].code[k].arg => b = insert'
          /\ blocks[b].code[k].op = "ret" => exit' = 0 \/ blocks[b].function # Len(functions')
    <3>1. \A b \in DOMAIN blocks : \A k \in DOMAIN blocks[b].code :
          /\ blocks[b].code[k].op = "br" /\ exit \in blocks[b].code[k].arg => b = insert
          /\ blocks[b].code[k].op = "ret" => exit = 0 \/ blocks[b].function # Len(functions)
      BY <2>2 DEF Allocated, Allowed
    <3> QED
      BY <2>1, <3>1 DEF Terminators
  <2> QED
    BY <1>10, <1>14, <2>7, <2>8, <2>9, <2>10, SoundKept
<1> QED
  BY <1>10, <1>11, <1>12, <1>13, <1>14 DEF Coded, Sound

(* A function or a test is created, with blocks of its own.                *)
LEMMA CreatedFunction ==
  ASSUME Typed, NEW name \in FunctionNames \cup TestNames, NEW entry \in Nat,
         Create(name, entry)
  PROVE  /\ functions' \in Seq(FunctionSet) /\ Len(functions') = Len(functions) + 1
         /\ DOMAIN functions' = DOMAIN functions \cup {Len(functions')}
         /\ Len(functions') \notin DOMAIN functions /\ functions' # <<>>
         /\ \A f \in DOMAIN functions : functions'[f] = functions[f]
         /\ functions'[Len(functions')].name[1] = name
         /\ functions'[Len(functions')].entry = entry
<1> DEFINE e == [name |-> <<name, Cardinality(Named(name))>>, entry |-> entry]
<1>1. functions \in Seq(FunctionSet) /\ Len(functions) \in Nat /\ DOMAIN functions = 1..Len(functions)
  BY CodeNumbers DEF Typed
<1>2. Cardinality(Named(name)) \in Nat
  <2>1. IsFiniteSet(1..Len(functions))
    BY <1>1, FS_Interval
  <2>2. Named(name) \in SUBSET (1..Len(functions))
    BY <1>1 DEF Named
  <2>3. IsFiniteSet(Named(name))
    BY <2>1, <2>2, FS_Subset
  <2> QED
    BY <2>3, FS_CardinalityType
<1>3. e \in FunctionSet /\ e.name[1] = name /\ e.entry = entry
  BY <1>2 DEF FunctionSet
<1>4. functions' = Append(functions, e)
  BY DEF Create
<1> HIDE DEF e
<1>5. /\ functions' \in Seq(FunctionSet) /\ Len(functions') = Len(functions) + 1
      /\ DOMAIN functions' = 1..(Len(functions) + 1)
      /\ \A k \in 1..Len(functions) : functions'[k] = functions[k]
      /\ functions'[Len(functions) + 1] = e
  BY <1>1, <1>3, <1>4, Added
<1>6. /\ 1..(Len(functions) + 1) = (1..Len(functions)) \cup {Len(functions) + 1}
      /\ Len(functions) + 1 \notin 1..Len(functions)
  <2> DEFINE n == Len(functions)
  <2>1. n \in Nat
    BY <1>1
  <2> HIDE DEF n
  <2>2. 1..(n + 1) = (1..n) \cup {n + 1} /\ n + 1 \notin 1..n
    BY <2>1
  <2> QED
    BY <2>2 DEF n
<1>7. functions' # <<>>
  <2>1. Len(functions') # 0
    BY <1>1, <1>5
  <2> QED
    BY <1>5, <2>1, Elements
<1> QED
  BY <1>1, <1>3, <1>5, <1>6, <1>7

Creates(f, ext) ==
  /\ Writes(ext) /\ \A b \in DOMAIN blocks : ext[b] = <<>>
  /\ f = Len(functions') /\ f \notin DOMAIN functions /\ DOMAIN functions' = DOMAIN functions \cup {f}
  /\ functions'[f].entry \in DOMAIN blocks' /\ functions'[f].entry \notin DOMAIN blocks
  /\ \A b \in DOMAIN blocks' : b \notin DOMAIN blocks =>
       /\ blocks'[b].function = f /\ functions'[f].entry <= b
       /\ \A k \in DOMAIN blocks'[b].code : blocks'[b].code[k].op \in {"call", "ret"}

LEMMA CreatedCoded ==
  ASSUME Typed, Coded, NEW f, NEW ext, Creates(f, ext),
         insert' \in 0..Len(blocks'), exit' \in 0..Len(blocks'), (exit' # 0) = InsideFunction',
         exit' \notin DOMAIN blocks,
         \A b \in DOMAIN blocks' : b \notin DOMAIN blocks =>
           /\ IsExit(b)' => blocks'[b].code = <<>>
           /\ exit' = 0 \/ blocks'[b].code = <<>>
  PROVE  Quiet /\ Placed' /\ Sound'
<1>1. /\ Writes(ext) /\ \A b \in DOMAIN blocks : ext[b] = <<>>
      /\ f = Len(functions') /\ f \notin DOMAIN functions /\ DOMAIN functions' = DOMAIN functions \cup {f}
      /\ functions'[f].entry \in DOMAIN blocks' /\ functions'[f].entry \notin DOMAIN blocks
      /\ \A b \in DOMAIN blocks' : b \notin DOMAIN blocks =>
           /\ blocks'[b].function = f /\ functions'[f].entry <= b
           /\ \A k \in DOMAIN blocks'[b].code : blocks'[b].code[k].op \in {"call", "ret"}
      /\ DOMAIN <<>> = {}
  BY DEF Creates
<1>2. WritesQuietly(ext) /\ Quiet
  <2>1. \A b \in DOMAIN blocks : Without(ext[b], "malloc")
    BY <1>1 DEF Without
  <2>2. \A b \in DOMAIN blocks' : b \notin DOMAIN blocks => Without(blocks'[b].code, "malloc")
    BY <1>1 DEF Without
  <2> QED
    BY <1>1, <2>1, <2>2, WritesGrow DEF WritesQuietly
<1>3. Placed'
  <2>1. \A b \in DOMAIN blocks : \A m \in DOMAIN ext[b] : ext[b][m].op # "br"
    BY <1>1
  <2>2. \A b \in DOMAIN blocks' : b \notin DOMAIN blocks =>
          \A k \in DOMAIN blocks'[b].code : blocks'[b].code[k].op # "br"
    BY <1>1
  <2>3. \A b \in DOMAIN blocks' : b \notin DOMAIN blocks =>
          /\ blocks'[b].function \in DOMAIN functions'
          /\ functions'[blocks'[b].function].entry <= b
    BY <1>1
  <2>4. \A g \in DOMAIN functions' : g \notin DOMAIN functions =>
          functions'[g].entry \in DOMAIN blocks' /\ blocks'[functions'[g].entry].function = g
    BY <1>1
  <2> QED
    BY <1>1, <2>1, <2>2, <2>3, <2>4, PlacedKept DEF Coded
<1>4. ASSUME ~ Broken' PROVE (Allocated /\ Cleaned)'
  <2>1. ~ Broken /\ Placed /\ Allocated
    BY <1>2, <1>4, GrownKeeps DEF Coded, Sound, Quiet
  <2>2. \A b \in DOMAIN blocks : IsExit(b) /\ ext[b] # <<>> => CleansUp(b)'
    BY <1>1
  <2>3. \A b \in DOMAIN blocks : \A i :
           (\E m \in DOMAIN ext[b] : i = ext[b][m]) => Allowed(b, i)'
    BY <1>1
  <2>4. ASSUME NEW b \in DOMAIN blocks', b \notin DOMAIN blocks, NEW i,
               \E k \in DOMAIN blocks'[b].code : i = blocks'[b].code[k]
        PROVE  Allowed(b, i)'
    <3>1. i.op \in {"call", "ret"} /\ exit' = 0 /\ blocks'[b].function = f
      BY <1>1, <2>4
    <3>2. Memory(f)' = {}
      BY <1>1, <1>2, <2>1, QuietMemory
    <3>3. Memory(blocks[b].function)' = {}
      BY <3>1, <3>2
    <3> QED
      BY <3>1, <3>3 DEF Allowed
  <2>5. ASSUME NEW b \in DOMAIN blocks, NEW k \in DOMAIN blocks[b].code
        PROVE  /\ blocks[b].code[k].op = "br" /\ exit' \in blocks[b].code[k].arg => b = insert'
               /\ blocks[b].code[k].op = "ret" => exit' = 0 \/ blocks[b].function # Len(functions')
    <3>1. blocks[b].code[k].op = "br" => exit' \notin blocks[b].code[k].arg
      BY <2>1 DEF Placed
    <3>2. blocks[b].function # Len(functions')
      BY <1>1, <2>1 DEF Placed
    <3> QED
      BY <3>1, <3>2
  <2> QED
    BY <1>2, <1>4, <2>2, <2>3, <2>4, <2>5, SoundKept
<1> QED
  BY <1>2, <1>3, <1>4 DEF Sound

LEMMA FunctionCoded ==
  ASSUME Typed, Coded, NEW name \in FunctionNames, NEW f, NEW entry,
         f = Len(functions) + 1, entry = Len(blocks) + 1, Create(name, entry),
         blocks' = blocks \o <<NewBlock(f), NewBlock(f)>>,
         insert' = entry, exit' = entry + 1, InsideFunction' = TRUE
  PROVE  Quiet /\ Coded' /\ exit' # 0 /\ Memory(Len(functions))' = {}
<1> DEFINE ext == [b \in DOMAIN blocks |-> <<>>]
           y == NewBlock(f)
<1>1. /\ Len(blocks) \in Nat /\ DOMAIN blocks = 1..Len(blocks) /\ Len(functions) \in Nat
      /\ \A b \in DOMAIN blocks : b \in Nat /\ blocks[b].code \in Seq(Instructions)
      /\ blocks \in Seq(BlockSet)
  BY CodeNumbers DEF Typed
<1>2. f \in Nat /\ entry \in Nat /\ entry # 0 /\ entry + 1 # 0 /\ entry # entry + 1
  BY <1>1
<1>3. y \in BlockSet /\ y.function = f /\ y.code = <<>>
  BY <1>2, AssertBlocks
<1>4. /\ functions' \in Seq(FunctionSet) /\ Len(functions') = f
      /\ DOMAIN functions' = DOMAIN functions \cup {f}
      /\ f \notin DOMAIN functions /\ functions' # <<>>
      /\ \A g \in DOMAIN functions : functions'[g] = functions[g]
      /\ functions'[f].name[1] = name /\ functions'[f].entry = entry
  BY <1>2, CreatedFunction
<1>5. blocks' = blocks \o <<y, y>>
  OBVIOUS
<1> HIDE DEF y
<1>6. /\ blocks' \in Seq(BlockSet) /\ Len(blocks') = Len(blocks) + 2
      /\ DOMAIN blocks' = DOMAIN blocks \cup {entry, entry + 1}
      /\ \A k \in DOMAIN blocks : blocks'[k] = blocks[k]
      /\ blocks'[entry] = y /\ blocks'[entry + 1] = y
  <2>1. blocks \in Seq(BlockSet) /\ y \in BlockSet
    BY <1>1, <1>3
  <2>2. /\ blocks \o <<y, y>> \in Seq(BlockSet) /\ Len(blocks \o <<y, y>>) = Len(blocks) + 2
        /\ DOMAIN (blocks \o <<y, y>>) = DOMAIN blocks \cup {Len(blocks) + 1, Len(blocks) + 2}
        /\ \A k \in DOMAIN blocks : (blocks \o <<y, y>>)[k] = blocks[k]
        /\ (blocks \o <<y, y>>)[Len(blocks) + 1] = y /\ (blocks \o <<y, y>>)[Len(blocks) + 2] = y
    BY <2>1, JoinedTwo
  <2>3. Len(blocks) + 2 = entry + 1
    BY <1>1
  <2> QED
    BY <1>5, <2>2, <2>3
<1>7. /\ entry \notin DOMAIN blocks /\ entry + 1 \notin DOMAIN blocks
      /\ entry \in 0..Len(blocks') /\ entry + 1 \in 0..Len(blocks')
      /\ Len(blocks) <= Len(blocks') /\ Len(functions) <= Len(functions')
      /\ \A b \in DOMAIN blocks : ~ (b >= entry)
  <2> DEFINE n == Len(blocks)
             m == Len(blocks')
  <2>1. n \in Nat /\ entry = n + 1 /\ m = n + 2 /\ DOMAIN blocks = 1..n
    BY <1>1, <1>6
  <2> HIDE DEF n, m
  <2>2. /\ entry \notin 1..n /\ entry + 1 \notin 1..n
        /\ entry \in 0..m /\ entry + 1 \in 0..m /\ n <= m
        /\ \A b \in 1..n : ~ (b >= entry)
    BY <2>1
  <2>3. Len(functions) <= Len(functions')
    BY <1>1, <1>4
  <2> QED
    BY <2>1, <2>2, <2>3 DEF n, m
<1>8. Writes(ext) /\ \A b \in DOMAIN blocks : ext[b] = <<>>
  <2>1. \A b \in DOMAIN blocks : ext[b] = <<>> /\ <<>> \in Seq(Instructions)
    OBVIOUS
  <2>2. \A b \in DOMAIN blocks : blocks[b].code \o <<>> = blocks[b].code
    BY <1>1, ConcatEmptySeq
  <2> HIDE DEF ext
  <2> QED
    BY <1>4, <1>6, <1>7, <2>1, <2>2 DEF Writes
<1> HIDE DEF ext
<1>9. \A b \in DOMAIN blocks' : b \notin DOMAIN blocks =>
        /\ b = entry \/ b = entry + 1
        /\ blocks'[b].function = f /\ blocks'[b].code = <<>> /\ entry <= b
  BY <1>2, <1>3, <1>6
<1>10. Creates(f, ext)
  <2>1. DOMAIN <<>> = {}
    OBVIOUS
  <2> QED
    BY <1>4, <1>6, <1>7, <1>8, <1>9, <2>1 DEF Creates
<1>11. Quiet /\ Placed' /\ Sound'
  <2>1. /\ insert' \in 0..Len(blocks') /\ exit' \in 0..Len(blocks')
        /\ (exit' # 0) = InsideFunction' /\ exit' \notin DOMAIN blocks
    BY <1>2, <1>7
  <2> QED
    BY <1>9, <1>10, <2>1, CreatedCoded
<1>12. Generating'
  <2>1. /\ functions' # <<>> /\ IsFunc(Len(functions))'
        /\ exit' = functions'[Len(functions')].entry + 1
        /\ blocks'[exit'].function = Len(functions') /\ blocks'[exit'].code = <<>>
        /\ insert' # 0 /\ insert' # exit' /\ blocks'[insert'].function = Len(functions')
    BY <1>2, <1>3, <1>4, <1>6 DEF IsFunc
  <2>2. \A b \in DOMAIN blocks' : b >= functions'[Len(functions')].entry =>
          /\ blocks'[b].function = Len(functions') /\ (b <= insert' \/ b = exit')
          /\ b \in {insert', exit'}
    BY <1>2, <1>3, <1>4, <1>6, <1>7
  <2> QED
    BY <2>1, <2>2 DEF Generating
<1>13. Rested'
  BY <1>2 DEF Rested
<1>14. Memory(f)' = {}
  BY <1>4, <1>11, QuietMemory DEF Coded
<1>15. Memory(Len(functions))' = {}
  BY <1>4, <1>14
<1>16. exit' # 0
  BY <1>2
<1> QED
  BY <1>11, <1>12, <1>13, <1>15, <1>16 DEF Coded

(* One block.                                                              *)
LEMMA CreatedBlock ==
  ASSUME Typed, Coded, NEW f, NEW entry, NEW y \in BlockSet, NEW name \in FunctionNames \cup TestNames,
         f = Len(functions) + 1, entry = Len(blocks) + 1, Create(name, entry),
         y.function = f, \A k \in DOMAIN y.code : y.code[k].op \in {"call", "ret"},
         blocks' = Append(blocks, y),
         insert' = entry, exit' = exit, InsideFunction' = InsideFunction, exit = 0
  PROVE  /\ Quiet /\ Placed' /\ Generating' /\ Sound'
         /\ blocks'[insert'] = y /\ functions'[f].name[1] = name
         /\ Len(functions') = f /\ entry \in Nat
<1> DEFINE ext == [b \in DOMAIN blocks |-> <<>>]
<1>1. /\ Len(blocks) \in Nat /\ DOMAIN blocks = 1..Len(blocks) /\ Len(functions) \in Nat
      /\ \A b \in DOMAIN blocks : b \in Nat /\ blocks[b].code \in Seq(Instructions)
      /\ blocks \in Seq(BlockSet)
  BY CodeNumbers DEF Typed
<1>2. f \in Nat /\ entry \in Nat /\ entry # 0 /\ entry # entry + 1
  BY <1>1
<1>4. /\ functions' \in Seq(FunctionSet) /\ Len(functions') = f
      /\ DOMAIN functions' = DOMAIN functions \cup {f}
      /\ f \notin DOMAIN functions /\ functions' # <<>>
      /\ \A g \in DOMAIN functions : functions'[g] = functions[g]
      /\ functions'[f].name[1] = name /\ functions'[f].entry = entry
  BY <1>2, CreatedFunction
<1>6. /\ blocks' \in Seq(BlockSet) /\ Len(blocks') = entry
      /\ DOMAIN blocks' = 1..(Len(blocks) + 1)
      /\ \A k \in 1..Len(blocks) : blocks'[k] = blocks[k]
      /\ blocks'[entry] = y
  BY <1>1, Added
<1>7. /\ entry \notin DOMAIN blocks
      /\ DOMAIN blocks' = DOMAIN blocks \cup {entry}
      /\ entry \in 0..Len(blocks') /\ 0 \in 0..Len(blocks') /\ 0 \notin DOMAIN blocks
      /\ Len(blocks) <= Len(blocks') /\ Len(functions) <= Len(functions')
  <2> DEFINE n == Len(blocks)
             m == Len(blocks')
  <2>1. n \in Nat /\ entry = n + 1 /\ m = entry /\ DOMAIN blocks = 1..n /\ DOMAIN blocks' = 1..(n + 1)
    BY <1>1, <1>6
  <2> HIDE DEF n, m
  <2>2. /\ entry \notin 1..n /\ 1..(n + 1) = 1..n \cup {entry}
        /\ entry \in 0..m /\ 0 \in 0..m /\ n <= m /\ 0 \notin 1..n
    BY <2>1
  <2>3. Len(functions) <= Len(functions')
    BY <1>1, <1>4
  <2> QED
    BY <2>1, <2>2, <2>3 DEF n, m
<1>8. Writes(ext) /\ \A b \in DOMAIN blocks : ext[b] = <<>>
  <2>1. \A b \in DOMAIN blocks : ext[b] = <<>> /\ <<>> \in Seq(Instructions)
    OBVIOUS
  <2>2. \A b \in DOMAIN blocks : blocks[b].code \o <<>> = blocks[b].code
    BY <1>1, ConcatEmptySeq
  <2>3. \A b \in DOMAIN blocks : blocks'[b] = blocks[b]
    BY <1>1, <1>6
  <2> HIDE DEF ext
  <2> QED
    BY <1>4, <1>6, <1>7, <2>1, <2>2, <2>3 DEF Writes
<1> HIDE DEF ext
<1>9. \A b \in DOMAIN blocks' : b \notin DOMAIN blocks =>
        /\ b = entry /\ blocks'[b] = y /\ blocks'[b].function = f /\ entry <= b
  BY <1>2, <1>6, <1>7
<1>10. Creates(f, ext)
  BY <1>4, <1>6, <1>7, <1>8, <1>9 DEF Creates
<1>11. Quiet /\ Placed' /\ Sound'
  <2>1. /\ insert' \in 0..Len(blocks') /\ exit' \in 0..Len(blocks')
        /\ (exit' # 0) = InsideFunction' /\ exit' \notin DOMAIN blocks /\ exit' = 0
    BY <1>7 DEF Coded, Placed
  <2>2. ASSUME NEW b \in DOMAIN blocks', b \notin DOMAIN blocks PROVE ~ IsExit(b)'
    BY <1>2, <1>4, <1>9, <2>2 DEF IsExit
  <2> QED
    BY <1>10, <2>1, <2>2, CreatedCoded
<1>12. Generating'
  BY DEF Generating
<1> QED
  BY <1>2, <1>4, <1>6, <1>11, <1>12

LEMMA TestCoded ==
  ASSUME Typed, Coded, NEW f, NEW entry, NEW name \in TestNames,
         f = Len(functions) + 1, entry = Len(blocks) + 1, Create(name, entry),
         blocks' = Append(blocks, NewBlock(f)),
         insert' = entry, exit' = exit, InsideFunction' = InsideFunction, exit = 0
  PROVE  Quiet /\ Coded'
<1>1. f \in Nat
  <2>1. Len(functions) \in Nat
    BY CodeNumbers
  <2> QED
    BY <2>1
<1>2. /\ NewBlock(f) \in BlockSet /\ NewBlock(f).function = f
      /\ \A k \in DOMAIN NewBlock(f).code : NewBlock(f).code[k].op \in {"call", "ret"}
  <2>1. NewBlock(f) \in BlockSet /\ NewBlock(f).function = f /\ NewBlock(f).code = <<>>
    BY <1>1, AssertBlocks
  <2>2. DOMAIN <<>> = {}
    OBVIOUS
  <2> QED
    BY <2>1, <2>2
<1>3. /\ Quiet /\ Placed' /\ Generating' /\ Sound'
      /\ blocks'[insert'] = NewBlock(f) /\ functions'[f].name[1] = name
  <2>1. PICK y : y = NewBlock(f)
    OBVIOUS
  <2>2. /\ y \in BlockSet /\ y.function = f
        /\ \A k \in DOMAIN y.code : y.code[k].op \in {"call", "ret"}
        /\ blocks' = Append(blocks, y)
    BY <1>2, <2>1
  <2> QED
    BY <2>1, <2>2, CreatedBlock
<1>4. Rested'
  <2>1. functions'[f].name[1] \notin FunctionNames
    BY <1>3, KindsAssumption
  <2> QED
    BY <1>2, <1>3, <2>1 DEF Rested, Refused, IsFunc
<1> QED
  BY <1>3, <1>4 DEF Coded

(* The entry point of the tests.                                           *)
LEMMA JoinedSequence ==
  ASSUME NEW T, NEW base \in Seq(T), NEW S, NEW s \in Seq(S), NEW g,
         \A k \in 1..Len(s) : g[s[k]] \in Seq(T)
  PROVE  JoinAll(g, base, s) \in Seq(T)
<1>1. PICK acc : /\ Joins(acc, g, base, s)
                 /\ JoinAll(g, base, s) = acc[Len(s)]
  BY FoldJoins
<1> DEFINE bad == {k \in 0..Len(s) : acc[k] \notin Seq(T)}
<1>2. bad = {}
  <2> SUFFICES ASSUME bad # {} PROVE FALSE
    OBVIOUS
  <2>1. PICK m \in bad : \A k \in bad : m <= k
    <3>1. bad \in SUBSET Nat
      OBVIOUS
    <3> HIDE DEF bad
    <3> QED
      BY <3>1, Least
  <2>2. m # 0
    BY <1>1, <2>1 DEF Joins
  <2>3. Len(s) \in Nat
    BY Elements
  <2>4. m \in 1..Len(s) /\ m - 1 \in 0..Len(s) /\ ~ (m <= m - 1)
    BY <2>1, <2>2, <2>3
  <2>5. acc[m - 1] \in Seq(T) /\ g[s[m]] \in Seq(T)
    BY <2>1, <2>4
  <2>6. acc[m] = acc[m - 1] \o g[s[m]]
    BY <1>1, <2>4 DEF Joins
  <2>7. acc[m - 1] \o g[s[m]] \in Seq(T)
    BY <2>5, Joined
  <2> QED
    BY <2>1, <2>6, <2>7
<1>3. Len(s) \in 0..Len(s)
  <2>1. Len(s) \in Nat
    BY Elements
  <2> QED
    BY <2>1
<1> QED
  BY <1>1, <1>2, <1>3

LEMMA EntrypointCode ==
  ASSUME Typed
  PROVE  /\ Entrypoint(testNames) \in Seq(Instructions) /\ Ends(Entrypoint(testNames))
         /\ ~ Overrun(Entrypoint(testNames))
         /\ \A k \in DOMAIN Entrypoint(testNames) :
              Entrypoint(testNames)[k].op \in {"call", "ret"}
<1> DEFINE s == [f \in DOMAIN functions |-> f]
<1>1. s \in Seq(Nat) /\ \A k \in 1..Len(s) : s[k] \in DOMAIN functions
  <2>1. Len(functions) \in Nat /\ DOMAIN functions = 1..Len(functions)
    BY CodeNumbers
  <2> DEFINE n == Len(functions)
  <2>2. s = [f \in 1..n |-> f] /\ n \in Nat
    BY <2>1
  <2> HIDE DEF n
  <2>3. [f \in 1..n |-> f] \in Seq(Nat) /\ Len([f \in 1..n |-> f]) = n
    BY <2>2
  <2>4. s \in Seq(Nat) /\ Len(s) = n /\ \A k \in 1..n : s[k] = k
    BY <2>2, <2>3
  <2> QED
    BY <2>1, <2>4 DEF n
<1>2. \A f \in DOMAIN functions : AsTest[f] \in Seq(Nat)
  <2>1. \A f \in DOMAIN functions : <<f>> \in Seq(Nat) /\ <<>> \in Seq(Nat)
    BY CodeNumbers
  <2>2. \A f \in DOMAIN functions : AsTest[f] = IF IsTest(f) THEN <<f>> ELSE <<>>
    BY DEF AsTest
  <2> QED
    BY <2>1, <2>2
<1> HIDE DEF s
<1>3. Tests \in Seq(Nat)
  <2>1. <<>> \in Seq(Nat) /\ \A k \in 1..Len(s) : AsTest[s[k]] \in Seq(Nat)
    BY <1>1, <1>2
  <2>2. JoinAll(AsTest, <<>>, s) \in Seq(Nat)
    BY <1>1, <2>1, JoinedSequence
  <2> QED
    BY <2>2 DEF Tests, JoinAll, s
<1> DEFINE n == Len(Tests)
           calls == [k \in DOMAIN testNames |-> Call(testNames[k])]
<1>4. n \in Nat /\ DOMAIN testNames = 1..n
  BY <1>3, Elements DEF testNames
<1>5. \A name : Call(name) \in Instructions /\ Call(name).op = "call"
  <2>1. \A name : getFunction(name) \in SUBSET Nat
    BY CodeNumbers DEF getFunction, Named
  <2> QED
    BY <2>1 DEF Call, Instruction, Instructions, Operations
<1> HIDE DEF n
<1>6. calls \in Seq(Instructions) /\ Len(calls) = n /\ \A k \in 1..n : calls[k].op = "call"
  <2>1. calls = [k \in 1..n |-> Call(testNames[k])]
    BY <1>4
  <2>2. \A k \in 1..n : Call(testNames[k]) \in Instructions
    BY <1>5
  <2>3. [k \in 1..n |-> Call(testNames[k])] \in Seq(Instructions)
    BY <1>4, <2>2, IsASeq
  <2>4. calls \in Seq(Instructions) /\ DOMAIN calls = 1..n
    BY <2>1, <2>3
  <2>5. Len(calls) = n
    BY <1>4, <2>4, LenProperties
  <2> QED
    BY <1>5, <2>1, <2>4, <2>5
<1>7. Entrypoint(testNames) = Append(calls, Ret) /\ Ret \in Instructions /\ Ret.op = "ret"
  BY DEF Entrypoint, Ret, Instruction, Instructions, Operations
<1> HIDE DEF calls
<1>8. /\ Append(calls, Ret) \in Seq(Instructions) /\ Len(Append(calls, Ret)) = n + 1
      /\ DOMAIN Append(calls, Ret) = 1..(n + 1)
      /\ \A k \in 1..n : Append(calls, Ret)[k] = calls[k]
      /\ Append(calls, Ret)[n + 1] = Ret
  BY <1>6, <1>7, Added
<1>9. Append(calls, Ret) # <<>>
  <2>1. Append(calls, Ret) = <<>> <=> Len(Append(calls, Ret)) = 0
    BY <1>8, Elements
  <2> QED
    BY <1>4, <1>8, <2>1
<1>10. Ends(Append(calls, Ret))
  BY <1>7, <1>8, <1>9 DEF Ends, Last, Terminators
<1>11. \A k \in 1..(n + 1) : Append(calls, Ret)[k].op \in {"call", "ret"}
  <2>1. \A k \in 1..(n + 1) : k \in 1..n \/ k = n + 1
    BY <1>4
  <2> QED
    BY <1>6, <1>7, <1>8, <2>1
<1>12. ~ Overrun(Append(calls, Ret))
  <2>1. \A k \in 1..(n + 1) : k \in 1..n \/ k = n + 1
    BY <1>4
  <2> QED
    BY <1>6, <1>8, <2>1 DEF Overrun, Terminators
<1> QED
  BY <1>7, <1>8, <1>10, <1>11, <1>12

LEMMA EntryCoded ==
  ASSUME Typed, Coded, NEW f, NEW entry,
         f = Len(functions) + 1, entry = Len(blocks) + 1, Create("main", entry),
         blocks' = Append(blocks, [NewBlock(f) EXCEPT !.code = Entrypoint(testNames)]),
         insert' = entry, exit' = exit, InsideFunction' = InsideFunction, exit = 0
  PROVE  Quiet /\ Coded'
<1>1. f \in Nat
  <2>1. Len(functions) \in Nat
    BY CodeNumbers
  <2> QED
    BY <2>1
<1>2. PICK y : y = [NewBlock(f) EXCEPT !.code = Entrypoint(testNames)]
  OBVIOUS
<1>3. PICK is : is = Entrypoint(testNames)
  OBVIOUS
<1>4. /\ is \in Seq(Instructions) /\ Ends(is)
      /\ \A k \in DOMAIN is : is[k].op \in {"call", "ret"}
  BY <1>3, EntrypointCode
<1>5. y = [function |-> f, code |-> is]
  BY <1>2, <1>3 DEF NewBlock
<1>6. /\ y \in BlockSet /\ y.function = f /\ y.code = is
      /\ blocks' = Append(blocks, y)
  BY <1>1, <1>2, <1>4, <1>5 DEF BlockSet
<1>7. /\ Quiet /\ Placed' /\ Generating' /\ Sound'
      /\ blocks'[insert'] = y
  BY <1>4, <1>6, CreatedBlock DEF FunctionNames
<1>8. Rested'
  BY <1>4, <1>6, <1>7 DEF Rested, Refused, HasTerminator, Ends
<1> QED
  BY <1>7, <1>8 DEF Coded

(* The end of a test.                                                      *)
LEMMA TestEnds ==
  ASSUME Typed, Coded, exit = 0, NEW j \in 0..Len(blocks), Refused(j),
         blocks' = Inserted(blocks, insert, <<Ret>>), functions' = functions,
         insert' = j, exit' = exit, InsideFunction' = InsideFunction
  PROVE  Quiet /\ Coded'
<1>1. PICK is : is = <<Ret>>
  OBVIOUS
<1>2. /\ is \in Seq(Instructions) /\ is # <<>>
      /\ \A m \in DOMAIN is : is[m].op = "ret"
  <2>1. Ret \in Instructions /\ Ret.op = "ret"
    BY DEF Ret, Instruction, Instructions, Operations
  <2> QED
    BY <1>1, <2>1
<1>3. PICK ext : /\ Writes(ext) /\ DOMAIN blocks' = DOMAIN blocks /\ Len(blocks') = Len(blocks)
                 /\ \A b \in DOMAIN blocks : ext[b] = IF b = insert THEN is ELSE <<>>
  BY <1>1, <1>2, Emission
<1>4. /\ DOMAIN blocks = 1..Len(blocks) /\ Len(blocks) \in Nat
      /\ insert \in 0..Len(blocks) /\ 0 \notin DOMAIN blocks
      /\ insert # 0 => insert \in DOMAIN blocks
      /\ DOMAIN <<>> = {}
  BY CodeNumbers DEF Coded, Placed
<1>5. \A b \in DOMAIN blocks : \A m \in DOMAIN ext[b] : b = insert /\ ext[b][m].op = "ret"
  BY <1>2, <1>3, <1>4
<1>6. WritesQuietly(ext) /\ Quiet /\ Grown
  <2>1. \A b \in DOMAIN blocks : Without(ext[b], "malloc")
    BY <1>5 DEF Without
  <2> QED
    BY <1>3, <2>1, WritesGrow DEF WritesQuietly
<1>7. Placed'
  <2>1. \A b \in DOMAIN blocks : \A m \in DOMAIN ext[b] : ext[b][m].op # "br"
    BY <1>5
  <2>2. /\ insert' \in 0..Len(blocks') /\ exit' \in 0..Len(blocks')
        /\ (exit' # 0) = InsideFunction'
    BY <1>3 DEF Coded, Placed
  <2> QED
    BY <1>3, <2>1, <2>2, PlacedKept DEF Coded
<1>8. Generating'
  BY DEF Generating
<1>9. Rested'
  <2>1. Refused(j)'
    BY <1>6, GrownKeeps DEF Coded
  <2> QED
    BY <2>1 DEF Rested
<1>10. ASSUME ~ Broken' PROVE (Allocated /\ Cleaned)'
  <2>1. insert # 0 => ~ IsExit(insert) /\ ~ IsFunc(blocks[insert].function)
    <3>1. insert # 0 => ext[insert] # <<>>
      BY <1>2, <1>3, <1>4
    <3> QED
      BY <1>3, <1>10, <3>1, WhereCode
  <2>2. ~ Broken /\ Allocated /\ Placed
    BY <1>6, <1>10, GrownKeeps DEF Coded, Sound
  <2>3. \A b \in DOMAIN blocks : IsExit(b) /\ ext[b] # <<>> => CleansUp(b)'
    BY <1>3, <1>4, <2>1
  <2>4. ASSUME NEW b \in DOMAIN blocks, NEW i, \E m \in DOMAIN ext[b] : i = ext[b][m]
        PROVE  Allowed(b, i)'
    <3>1. b = insert /\ i.op = "ret"
      BY <1>5, <2>4
    <3>2. PICK f : f = blocks[b].function
      OBVIOUS
    <3>3. f \in DOMAIN functions /\ ~ IsFunc(f) /\ blocks'[b].function = f
      BY <1>3, <1>4, <2>1, <2>2, <3>1, <3>2 DEF Placed, Writes
    <3>4. Memory(f)' = {}
      BY <1>6, <2>2, <3>3, NoMemory, QuietMemory
    <3>5. Memory(blocks[b].function)' = {}
      BY <3>3, <3>4
    <3> QED
      BY <3>1, <3>5 DEF Allowed
  <2>5. \A b \in DOMAIN blocks : \A k \in DOMAIN blocks[b].code :
          /\ blocks[b].code[k].op = "br" /\ exit' \in blocks[b].code[k].arg => b = insert'
          /\ blocks[b].code[k].op = "ret" => exit' = 0 \/ blocks[b].function # Len(functions')
    BY <1>4, <2>2 DEF Placed
  <2> QED
    BY <1>3, <1>6, <1>10, <2>3, <2>4, <2>5, SoundKept
<1> QED
  BY <1>6, <1>7, <1>8, <1>9, <1>10 DEF Coded, Sound

(* The end of a function: the code of its exit block.                      *)
LEMMA ExitCode ==
  ASSUME NEW c, FreesOnly(c)
  PROVE  LET r == Append(c, Ret) IN
         /\ r \in Seq(Instructions) /\ Ends(r) /\ Freeing(r)
         /\ \A k \in DOMAIN r : r[k].op \in {"free", "ret"}
         /\ \E k \in DOMAIN r : r[k].op = "ret"
         /\ Made(r, "free") = Made(c, "free")
<1> DEFINE r == Append(c, Ret)
<1>1. /\ c \in Seq(Instructions) /\ Len(c) \in Nat /\ DOMAIN c = 1..Len(c)
      /\ \A k \in DOMAIN c : c[k].op = "free"
  BY Elements DEF FreesOnly
<1>2. Ret \in Instructions /\ Ret.op = "ret"
  BY DEF Ret, Instruction, Instructions, Operations
<1>3. /\ r \in Seq(Instructions) /\ Len(r) = Len(c) + 1
      /\ DOMAIN r = 1..(Len(c) + 1)
      /\ \A k \in 1..Len(c) : r[k] = c[k]
      /\ r[Len(c) + 1] = Ret
  BY <1>1, <1>2, Added
<1> HIDE DEF r
<1>4. /\ \A k \in DOMAIN r : k \in DOMAIN c \/ k = Len(c) + 1
      /\ DOMAIN c \in SUBSET DOMAIN r /\ Len(c) + 1 \in DOMAIN r
      /\ Len(r) # 0
  <2> DEFINE n == Len(c)
  <2>1. n \in Nat /\ DOMAIN r = 1..(n + 1) /\ DOMAIN c = 1..n /\ Len(r) = n + 1
    BY <1>1, <1>3
  <2> HIDE DEF n
  <2>2. /\ \A k \in 1..(n + 1) : k \in 1..n \/ k = n + 1
        /\ 1..n \in SUBSET (1..(n + 1)) /\ n + 1 \in 1..(n + 1) /\ n + 1 # 0
    BY <2>1
  <2> QED
    BY <2>1, <2>2 DEF n
<1>5. \A k \in DOMAIN r : IF k \in DOMAIN c THEN r[k] = c[k] /\ r[k].op = "free"
                          ELSE r[k] = Ret /\ r[k].op = "ret"
  BY <1>1, <1>2, <1>3, <1>4
<1>6. Ends(r)
  <2>1. r # <<>>
    BY <1>3, <1>4, Elements
  <2> QED
    BY <1>2, <1>3, <2>1 DEF Ends, Last, Terminators
<1>7. Freeing(r)
  <2>1. ASSUME NEW k \in DOMAIN r, r[k].op = "free" PROVE k \in DOMAIN c /\ r[k] = c[k]
    BY <1>2, <1>5, <2>1
  <2>2. Freeing(c)
    BY DEF FreesOnly
  <2> QED
    BY <2>1, <2>2 DEF Freeing
<1>8. Made(r, "free") = Made(c, "free")
  <2>1. ASSUME NEW k \in DOMAIN r, r[k].op = "free" PROVE k \in DOMAIN c /\ r[k] = c[k]
    BY <1>2, <1>5, <2>1
  <2>2. ASSUME NEW k \in DOMAIN c PROVE k \in DOMAIN r /\ r[k] = c[k]
    BY <1>4, <1>5
  <2> QED
    BY <2>1, <2>2 DEF Made
<1>9. /\ \A k \in DOMAIN r : r[k].op \in {"free", "ret"}
      /\ \E k \in DOMAIN r : r[k].op = "ret"
  BY <1>2, <1>3, <1>4, <1>5
<1> QED
  BY <1>3, <1>6, <1>7, <1>8, <1>9 DEF r

LEMMA ExitWrites ==
  ASSUME Typed, Coded, exit # 0, NEW r \in Seq(Instructions),
         blocks' = Inserted(FallThrough, exit, r), functions' = functions
  PROVE  \E ext : /\ Writes(ext) /\ DOMAIN blocks' = DOMAIN blocks
                  /\ Len(blocks') = Len(blocks)
                  /\ ext[exit] = r
                  /\ HasTerminator(insert) => ext[insert] = <<>>
                  /\ ~ HasTerminator(insert) => ext[insert] = <<Br(exit)>>
                  /\ \A b \in DOMAIN blocks : b \notin {exit, insert} => ext[b] = <<>>
<1> DEFINE fall == IF HasTerminator(insert) THEN <<>> ELSE <<Br(exit)>>
           ext == [b \in DOMAIN blocks |-> IF b = exit THEN r ELSE IF b = insert THEN fall ELSE <<>>]
<1>1. /\ exit \in DOMAIN blocks /\ insert \in DOMAIN blocks /\ insert # exit
      /\ blocks \in Seq(BlockSet) /\ exit \in Nat /\ functions \in Seq(FunctionSet)
      /\ Len(blocks) \in Nat /\ Len(functions) \in Nat
      /\ \A b \in DOMAIN blocks : blocks[b].code \in Seq(Instructions)
  BY ToExit, CodeNumbers DEF Typed
<1>2. fall \in Seq(Instructions) /\ <<>> \in Seq(Instructions)
  <2>1. Br(exit) \in Instructions
    BY <1>1 DEF Br, Instruction, Instructions, Operations
  <2>2. <<Br(exit)>> \in Seq(Instructions) /\ <<>> \in Seq(Instructions)
    BY <2>1
  <2> QED
    BY <2>2
<1>3. \A b \in DOMAIN blocks : blocks[b].code \o <<>> = blocks[b].code
  BY <1>1, ConcatEmptySeq
<1>4. /\ FallThrough \in Seq(BlockSet) /\ Len(FallThrough) = Len(blocks)
      /\ DOMAIN FallThrough = DOMAIN blocks
      /\ \A b \in DOMAIN blocks :
           /\ FallThrough[b].function = blocks[b].function
           /\ FallThrough[b].code = IF b = insert THEN blocks[b].code \o fall ELSE blocks[b].code
  <2>1. CASE HasTerminator(insert)
    BY <1>1, <1>3, <2>1 DEF FallThrough
  <2>2. CASE ~ HasTerminator(insert)
    <3>1. FallThrough = Inserted(blocks, insert, fall)
      BY <2>2 DEF FallThrough
    <3> HIDE DEF fall, ext
    <3>2. blocks \in Seq(BlockSet) /\ insert \in DOMAIN blocks /\ fall \in Seq(Instructions)
      BY <1>1, <1>2
    <3> DEFINE bs == Inserted(blocks, insert, fall)
    <3>3. /\ bs \in Seq(BlockSet) /\ Len(bs) = Len(blocks) /\ DOMAIN bs = DOMAIN blocks
          /\ \A b \in DOMAIN blocks :
               /\ bs[b].function = blocks[b].function
               /\ bs[b].code = IF b = insert THEN blocks[b].code \o fall ELSE blocks[b].code
      BY <3>2, InsertedCode
    <3> HIDE DEF bs
    <3>4. FallThrough = bs
      BY <3>1 DEF bs
    <3> QED
      BY <3>3, <3>4
  <2> QED
    BY <2>1, <2>2
<1> DEFINE bs == FallThrough
<1> HIDE DEF fall, bs
<1>5. /\ bs \in Seq(BlockSet) /\ exit \in DOMAIN bs /\ blocks' = Inserted(bs, exit, r)
  BY <1>1, <1>4 DEF bs
<1>6. /\ blocks' \in Seq(BlockSet) /\ Len(blocks') = Len(bs) /\ DOMAIN blocks' = DOMAIN bs
      /\ \A b \in DOMAIN bs :
           /\ blocks'[b].function = bs[b].function
           /\ blocks'[b].code = IF b = exit THEN bs[b].code \o r ELSE bs[b].code
  BY <1>5, InsertedCode
<1>7. \A b \in DOMAIN blocks : ext[b] = IF b = exit THEN r ELSE IF b = insert THEN fall ELSE <<>>
  OBVIOUS
<1> HIDE DEF ext
<1>8. ASSUME NEW b \in DOMAIN blocks
      PROVE  /\ blocks'[b].function = blocks[b].function
             /\ ext[b] \in Seq(Instructions) /\ blocks'[b].code = blocks[b].code \o ext[b]
  <2>1. /\ blocks'[b].function = blocks[b].function
        /\ bs[b].code = IF b = insert THEN blocks[b].code \o fall ELSE blocks[b].code
        /\ blocks'[b].code = IF b = exit THEN bs[b].code \o r ELSE bs[b].code
    BY <1>4, <1>6 DEF bs
  <2>2. CASE b = exit
    BY <1>1, <1>7, <2>1, <2>2
  <2>3. CASE b = insert
    BY <1>1, <1>2, <1>7, <2>1, <2>3
  <2>4. CASE b # exit /\ b # insert
    BY <1>2, <1>3, <1>7, <2>1, <2>4
  <2> QED
    BY <2>2, <2>3, <2>4
<1>9. Writes(ext)
  <2>1. Len(blocks) <= Len(blocks') /\ Len(functions) <= Len(functions')
    BY <1>1, <1>4, <1>6 DEF bs
  <2> QED
    BY <1>1, <1>6, <1>8, <2>1 DEF Writes
<1> QED
  BY <1>1, <1>4, <1>6, <1>7, <1>9 DEF bs, fall

LEMMA FunctionEnds ==
  ASSUME Typed, Coded, exit # 0, NEW c, FreesOnly(c),
         Made(c, "free") = Memory(Len(functions)),
         blocks' = Inserted(FallThrough, exit, Append(c, Ret)), functions' = functions,
         insert' = exit, exit' = 0, InsideFunction' = FALSE
  PROVE  Quiet /\ Coded'
<1>1. PICK r : r = Append(c, Ret)
  OBVIOUS
<1>2. /\ r \in Seq(Instructions) /\ Ends(r) /\ Freeing(r)
      /\ \A k \in DOMAIN r : r[k].op \in {"free", "ret"}
      /\ \E k \in DOMAIN r : r[k].op = "ret"
      /\ Made(r, "free") = Memory(Len(functions))
  BY <1>1, ExitCode
<1>3. PICK ext : /\ Writes(ext) /\ DOMAIN blocks' = DOMAIN blocks
                 /\ Len(blocks') = Len(blocks)
                 /\ ext[exit] = r
                 /\ HasTerminator(insert) => ext[insert] = <<>>
                 /\ ~ HasTerminator(insert) => ext[insert] = <<Br(exit)>>
                 /\ \A b \in DOMAIN blocks : b \notin {exit, insert} => ext[b] = <<>>
  BY <1>1, <1>2, ExitWrites
<1>4. /\ exit \in DOMAIN blocks /\ insert \in DOMAIN blocks /\ insert # exit
      /\ IsExit(exit) /\ ~ IsExit(insert)
      /\ blocks[exit].function = Len(functions) /\ blocks[insert].function = Len(functions)
      /\ Len(functions) \in DOMAIN functions /\ Follows(insert, exit)
      /\ DOMAIN blocks = 1..Len(blocks) /\ Len(blocks) \in Nat /\ 0 \notin DOMAIN blocks
      /\ blocks[exit].code = <<>>
  BY ToExit, CodeNumbers DEF Coded, Generating
<1>5. \A b \in DOMAIN blocks : \A i : (\E m \in DOMAIN ext[b] : i = ext[b][m]) =>
        \/ b = exit /\ i.op \in {"free", "ret"}
        \/ b = insert /\ i.op = "br" /\ i.arg = {exit}
  <2>1. /\ DOMAIN <<>> = {} /\ DOMAIN <<Br(exit)>> = {1} /\ <<Br(exit)>>[1] = Br(exit)
        /\ Br(exit).op = "br" /\ Br(exit).arg = {exit}
    BY DEF Br, Instruction
  <2>2. ASSUME NEW b \in DOMAIN blocks, NEW m \in DOMAIN ext[b]
        PROVE  \/ b = exit /\ ext[b][m].op \in {"free", "ret"}
               \/ b = insert /\ ext[b][m].op = "br" /\ ext[b][m].arg = {exit}
    <3>1. CASE b = exit
      BY <1>2, <1>3, <3>1
    <3>2. CASE b = insert
      <4>1. ext[b] = <<Br(exit)>>
        BY <1>3, <2>1, <3>2
      <4>2. ext[b][m] = Br(exit)
        BY <2>1, <4>1
      <4> QED
        BY <2>1, <3>2, <4>2
    <3>3. CASE b \notin {exit, insert}
      BY <1>3, <2>1, <3>3
    <3> QED
      BY <3>1, <3>2, <3>3
  <2> QED
    BY <2>2
<1>6. WritesQuietly(ext) /\ Quiet /\ Grown
  <2>1. \A b \in DOMAIN blocks : Without(ext[b], "malloc")
    BY <1>5 DEF Without
  <2> QED
    BY <1>3, <2>1, WritesGrow DEF WritesQuietly
<1>7. blocks'[exit].code = r
  <2>1. blocks'[exit].code = <<>> \o r
    BY <1>3, <1>4 DEF Writes
  <2>2. <<>> \o r = r
    BY <1>2, ConcatEmptySeq
  <2> QED
    BY <2>1, <2>2
<1>8. Placed'
  <2>1. ASSUME NEW b \in DOMAIN blocks, NEW m \in DOMAIN ext[b], ext[b][m].op = "br",
               NEW d \in ext[b][m].arg
        PROVE  d \in DOMAIN blocks' /\ blocks'[d].function = blocks[b].function
    <3>1. b = insert /\ d = exit
      BY <1>5, <2>1
    <3>2. blocks'[exit].function = blocks[exit].function
      BY <1>3, <1>4 DEF Writes
    <3> QED
      BY <1>3, <1>4, <3>1, <3>2
  <2>2. /\ insert' \in 0..Len(blocks') /\ exit' \in 0..Len(blocks')
        /\ (exit' # 0) = InsideFunction'
    <3>1. exit \in 0..Len(blocks) /\ 0 \in 0..Len(blocks) /\ Len(blocks') = Len(blocks)
      BY <1>3, <1>4
    <3>2. insert' \in 0..Len(blocks') /\ exit' \in 0..Len(blocks')
      BY <3>1
    <3>3. (exit' # 0) = FALSE
      OBVIOUS
    <3> QED
      BY <3>2, <3>3
  <2> QED
    BY <1>3, <2>1, <2>2, PlacedKept DEF Coded
<1>9. Generating'
  BY DEF Generating
<1>10. Rested'
  BY <1>2, <1>7 DEF Rested, Refused, HasTerminator, Ends
<1>11. ASSUME ~ Broken' PROVE (Allocated /\ Cleaned)'
  <2>1. ~ Broken /\ Placed /\ Allocated
    BY <1>6, <1>11, GrownKeeps DEF Coded, Sound
  <2>3. ASSUME NEW x, x = exit PROVE CleansUp(x)'
    <3>1. PICK f : f = Len(functions)
      OBVIOUS
    <3>2. Memory(f)' = Memory(f) /\ blocks'[x].function = f
      BY <1>3, <1>4, <1>6, <2>1, <2>3, <3>1, QuietMemory DEF Writes
    <3>3. Memory(blocks[x].function)' = Made(r, "free")
      BY <1>2, <3>1, <3>2
    <3>4. blocks'[x].code = r
      BY <1>7, <2>3
    <3> QED
      BY <1>2, <3>3, <3>4 DEF CleansUp
  <2>4. ASSUME NEW b \in DOMAIN blocks, IsExit(b) /\ ext[b] # <<>> PROVE CleansUp(b)'
    <3>1. b = exit
      BY <1>3, <1>4, <2>4
    <3> QED
      BY <2>3, <3>1
  <2>5. ASSUME NEW b \in DOMAIN blocks, NEW i, \E m \in DOMAIN ext[b] : i = ext[b][m]
        PROVE  Allowed(b, i)'
    <3>1. CASE b = exit /\ i.op \in {"free", "ret"}
      <4>1. IsExit(b)'
        BY <1>4, <1>6, <2>1, <3>1, GrownKeeps
      <4> QED
        BY <3>1, <4>1 DEF Allowed
    <3>2. CASE b = insert /\ i.op = "br" /\ i.arg = {exit}
      <4>1. ASSUME NEW d \in i.arg PROVE Follows(b, d)' /\ d # exit'
        <5>1. d \in DOMAIN blocks /\ Follows(b, d) /\ d # 0
          BY <1>4, <3>2
        <5> QED
          BY <1>6, <2>1, <5>1, QuietMemory
      <4> QED
        BY <3>2, <4>1 DEF Allowed
    <3> QED
      BY <1>5, <2>5, <3>1, <3>2
  <2>6. \A b \in DOMAIN blocks : \A k \in DOMAIN blocks[b].code :
          /\ blocks[b].code[k].op = "br" /\ exit' \in blocks[b].code[k].arg => b = insert'
          /\ blocks[b].code[k].op = "ret" => exit' = 0 \/ blocks[b].function # Len(functions')
    BY <1>4, <2>1 DEF Placed
  <2> QED
    BY <1>3, <1>6, <1>11, <2>4, <2>5, <2>6, SoundKept
<1> QED
  BY <1>6, <1>8, <1>9, <1>10, <1>11 DEF Coded, Sound

-----------------------------------------------------------------------------
(***************************************************************************)
(* Scopes: entering them adds a chain of tables below the current one.     *)
(***************************************************************************)
Nests(n) ==
  /\ tables' \in Seq(TableSet) /\ Len(tables') = Len(tables) + n
  /\ currentSymbols' = Len(tables) + n
  /\ \A t \in DOMAIN tables :
       /\ tables'[t].resources = tables[t].resources
       /\ tables'[t].children = IF t = currentSymbols
                                THEN Append(tables[t].children, Len(tables) + 1)
                                ELSE tables[t].children
  /\ \A t \in (Len(tables) + 1)..(Len(tables) + n) :
       /\ tables'[t].resources = <<>>
       /\ tables'[t].children = IF t = Len(tables) + n THEN <<>> ELSE <<t + 1>>

LEMMA EntersTables ==
  ASSUME Typed, Forest, NEW n \in {1, 2}, EnterScopes(n)
  PROVE  Nests(n)
<1> DEFINE first == Len(tables) + 1
           chain == [k \in 1..n |-> IF k = n THEN NewTable
                                    ELSE [NewTable EXCEPT !.children = <<first + k>>]]
           e == [tables[currentSymbols] EXCEPT !.children = Append(@, first)]
           base == [tables EXCEPT ![currentSymbols] = e]
<1>1. /\ Len(tables) \in Nat /\ DOMAIN tables = 1..Len(tables) /\ tables \in Seq(TableSet)
      /\ currentSymbols \in DOMAIN tables /\ tables[currentSymbols] \in TableSet
      /\ tables[currentSymbols].children \in Seq(Nat)
      /\ tables[currentSymbols].resources \in Seq(Nat) /\ first \in Nat
  BY TableNumbers DEF Typed, Forest
<1>2. Append(tables[currentSymbols].children, first) \in Seq(Nat)
  BY <1>1, Added
<1>3. /\ e \in TableSet /\ e.children = Append(tables[currentSymbols].children, first)
      /\ e.resources = tables[currentSymbols].resources
  BY <1>1, <1>2 DEF TableSet
<1>4. /\ NewTable.children = <<>> /\ NewTable.resources = <<>> /\ NewTable \in TableSet
      /\ \A x \in Nat : /\ [NewTable EXCEPT !.children = <<x>>] \in TableSet
                        /\ [NewTable EXCEPT !.children = <<x>>].children = <<x>>
                        /\ [NewTable EXCEPT !.children = <<x>>].resources = <<>>
  <2>1. /\ NewTable.children = <<>> /\ NewTable.resources = <<>>
        /\ \A x : [NewTable EXCEPT !.children = <<x>>] = [children |-> <<x>>, resources |-> <<>>]
    BY DEF NewTable
  <2>2. <<>> \in Seq(Nat) /\ \A x \in Nat : <<x>> \in Seq(Nat)
    OBVIOUS
  <2>3. NewTable \in TableSet
    BY <2>2 DEF NewTable, TableSet
  <2>4. \A x \in Nat : [NewTable EXCEPT !.children = <<x>>] \in TableSet
    BY <2>1, <2>2 DEF TableSet
  <2> QED
    BY <2>1, <2>3, <2>4
<1>5. /\ chain \in Seq(TableSet) /\ Len(chain) = n /\ n \in Nat
      /\ \A k \in 1..n : /\ chain[k].resources = <<>>
                         /\ chain[k].children = IF k = n THEN <<>> ELSE <<first + k>>
  <2>1. n \in Nat /\ \A k \in 1..n : first + k \in Nat
    BY <1>1
  <2> HIDE DEF first
  <2>2. \A k \in 1..n : chain[k] \in TableSet
    BY <1>4, <2>1
  <2>3. chain \in [1..n -> TableSet]
    BY <2>2
  <2>4. chain \in Seq(TableSet) /\ Len(chain) = n
    <3>1. chain = [k \in 1..n |-> chain[k]] /\ DOMAIN chain = 1..n
      OBVIOUS
    <3> HIDE DEF chain
    <3>2. [k \in 1..n |-> chain[k]] \in Seq(TableSet)
      BY <2>1, <2>2, IsASeq
    <3>3. chain \in Seq(TableSet)
      BY <3>1, <3>2
    <3> QED
      BY <2>1, <3>1, <3>3, LenProperties
  <2>5. \A k \in 1..n : /\ chain[k].resources = <<>>
                        /\ chain[k].children = IF k = n THEN <<>> ELSE <<first + k>>
    BY <1>4, <2>1
  <2> QED
    BY <2>1, <2>4, <2>5
<1>6. tables' = base \o chain /\ currentSymbols' = Len(tables) + n
  BY Zenon DEF EnterScopes
<1> HIDE DEF chain, e
<1>7. /\ base \in Seq(TableSet) /\ Len(base) = Len(tables)
      /\ \A t \in DOMAIN tables : base[t] = IF t = currentSymbols THEN e ELSE tables[t]
  BY <1>1, <1>3, Replaced
<1> HIDE DEF base
<1>8. /\ base \o chain \in Seq(TableSet) /\ Len(base \o chain) = Len(tables) + n
      /\ \A k \in 1..Len(tables) : (base \o chain)[k] = base[k]
      /\ \A k \in 1..n : (base \o chain)[Len(tables) + k] = chain[k]
  <2>1. base \in Seq(TableSet) /\ chain \in Seq(TableSet)
    BY <1>5, <1>7
  <2>2. /\ base \o chain \in Seq(TableSet) /\ Len(base \o chain) = Len(base) + Len(chain)
        /\ \A k \in 1..Len(base) : (base \o chain)[k] = base[k]
        /\ \A k \in 1..Len(chain) : (base \o chain)[Len(base) + k] = chain[k]
    BY <2>1, Joined
  <2> QED
    BY <1>5, <1>7, <2>2
<1>9. ASSUME NEW t \in DOMAIN tables
      PROVE  /\ tables'[t].resources = tables[t].resources
             /\ tables'[t].children = IF t = currentSymbols
                                      THEN Append(tables[t].children, Len(tables) + 1)
                                      ELSE tables[t].children
  BY <1>1, <1>3, <1>6, <1>7, <1>8
<1>10. ASSUME NEW t \in (Len(tables) + 1)..(Len(tables) + n)
       PROVE  /\ tables'[t].resources = <<>>
              /\ tables'[t].children = IF t = Len(tables) + n THEN <<>> ELSE <<t + 1>>
  <2>1. PICK k \in 1..n : t = Len(tables) + k
    <3>1. t - Len(tables) \in 1..n /\ t = Len(tables) + (t - Len(tables))
      BY <1>1, <1>5
    <3> QED
      BY <3>1
  <2>2. tables'[t] = chain[k]
    BY <1>6, <1>8, <2>1
  <2>3. (k = n) = (t = Len(tables) + n) /\ first + k = t + 1
    BY <1>1, <1>5, <2>1
  <2> QED
    BY <1>5, <2>2, <2>3
<1> QED
  BY <1>6, <1>8, <1>9, <1>10 DEF Nests

(* The children of the tables after that.                                  *)
LEMMA NestedChildren ==
  ASSUME Typed, Forest, NEW n \in {1, 2}, Nests(n)
  PROVE  /\ DOMAIN tables' = 1..(Len(tables) + n) /\ DOMAIN tables \in SUBSET DOMAIN tables'
         /\ \A p \in DOMAIN tables' : \A k \in DOMAIN tables'[p].children :
              LET c == tables'[p].children[k] IN
              \/ /\ p \in DOMAIN tables /\ k \in DOMAIN tables[p].children
                 /\ c = tables[p].children[k]
              \/ /\ p = currentSymbols /\ k = Len(tables[p].children) + 1
                 /\ c = Len(tables) + 1
              \/ p > Len(tables) /\ p < Len(tables) + n /\ k = 1 /\ c = p + 1
         /\ \A p \in DOMAIN tables : ToSet(tables[p].children) \in SUBSET ToSet(tables'[p].children)
         /\ Len(tables) + 1 \in ToSet(tables'[currentSymbols].children)
         /\ \A p \in (Len(tables) + 1)..(Len(tables) + n) :
              p # Len(tables) + n => p + 1 \in ToSet(tables'[p].children)
<1>1. /\ Len(tables) \in Nat /\ DOMAIN tables = 1..Len(tables)
      /\ n \in Nat /\ currentSymbols \in DOMAIN tables
      /\ \A p \in DOMAIN tables : /\ tables[p].children \in Seq(Nat)
                                  /\ DOMAIN tables[p].children = 1..Len(tables[p].children)
                                  /\ Len(tables[p].children) \in Nat
  BY TableNumbers DEF Forest
<1>2. DOMAIN tables' = 1..(Len(tables) + n) /\ DOMAIN tables \in SUBSET DOMAIN tables'
  <2>1. DOMAIN tables' = 1..Len(tables')
    BY Elements DEF Nests
  <2> QED
    BY <1>1, <2>1 DEF Nests
<1>3. \A p \in DOMAIN tables : p # currentSymbols => tables'[p].children = tables[p].children
  BY DEF Nests
<1> DEFINE old == tables[currentSymbols].children
           new == tables'[currentSymbols].children
<1>4. /\ DOMAIN new = 1..(Len(old) + 1) /\ \A k \in DOMAIN old : new[k] = old[k]
      /\ new[Len(old) + 1] = Len(tables) + 1
      /\ DOMAIN old = 1..Len(old) /\ Len(old) \in Nat
  <2>1. new = Append(old, Len(tables) + 1)
    BY <1>1 DEF Nests
  <2>2. old \in Seq(Nat) /\ Len(tables) + 1 \in Nat
    BY <1>1
  <2>3. DOMAIN old = 1..Len(old) /\ Len(old) \in Nat
    BY <1>1
  <2> HIDE DEF old, new
  <2>4. /\ DOMAIN Append(old, Len(tables) + 1) = 1..(Len(old) + 1)
        /\ \A k \in 1..Len(old) : Append(old, Len(tables) + 1)[k] = old[k]
        /\ Append(old, Len(tables) + 1)[Len(old) + 1] = Len(tables) + 1
    BY <2>2, Added
  <2> QED
    BY <2>1, <2>3, <2>4
<1>5. \A p \in (Len(tables) + 1)..(Len(tables) + n) :
        /\ p = Len(tables) + n => DOMAIN tables'[p].children = {}
        /\ p # Len(tables) + n => /\ DOMAIN tables'[p].children = {1}
                                  /\ tables'[p].children[1] = p + 1
  <2>1. DOMAIN <<>> = {} /\ \A x : DOMAIN <<x>> = {1} /\ <<x>>[1] = x
    OBVIOUS
  <2>2. ASSUME NEW p \in (Len(tables) + 1)..(Len(tables) + n)
        PROVE  tables'[p].children = IF p = Len(tables) + n THEN <<>> ELSE <<p + 1>>
    BY <2>2 DEF Nests
  <2>3. ASSUME NEW p \in (Len(tables) + 1)..(Len(tables) + n), p = Len(tables) + n
        PROVE  DOMAIN tables'[p].children = {}
    <3>1. tables'[p].children = <<>>
      BY <2>2, <2>3
    <3> QED
      BY <2>1, <3>1
  <2>4. ASSUME NEW p \in (Len(tables) + 1)..(Len(tables) + n), p # Len(tables) + n
        PROVE  DOMAIN tables'[p].children = {1} /\ tables'[p].children[1] = p + 1
    <3>1. tables'[p].children = <<p + 1>>
      BY <2>2, <2>4
    <3> QED
      BY <2>1, <3>1
  <2> QED
    BY <2>3, <2>4
<1>6. ASSUME NEW p \in DOMAIN tables', NEW k \in DOMAIN tables'[p].children,
             NEW c, c = tables'[p].children[k]
      PROVE  \/ /\ p \in DOMAIN tables /\ k \in DOMAIN tables[p].children
                /\ c = tables[p].children[k]
             \/ /\ p = currentSymbols /\ k = Len(tables[p].children) + 1
                /\ c = Len(tables) + 1
             \/ p > Len(tables) /\ p < Len(tables) + n /\ k = 1 /\ c = p + 1
  <2>1. CASE p = currentSymbols
    <3>1. k \in DOMAIN old \/ k = Len(old) + 1
      BY <1>4, <1>6, <2>1
    <3> QED
      BY <1>1, <1>4, <1>6, <2>1, <3>1
  <2>2. CASE p \in DOMAIN tables /\ p # currentSymbols
    BY <1>3, <1>6, <2>2
  <2>3. CASE p \notin DOMAIN tables
    <3>1. p \in (Len(tables) + 1)..(Len(tables) + n)
      BY <1>1, <1>2, <2>3
    <3> HIDE DEF old, new
    <3>2. p # Len(tables) + n
      BY <1>5, <1>6, <3>1
    <3>3. k = 1 /\ c = p + 1
      BY <1>5, <1>6, <3>1, <3>2
    <3>4. p > Len(tables) /\ p < Len(tables) + n
      BY <1>1, <3>1, <3>2
    <3> QED
      BY <3>3, <3>4
  <2> QED
    BY <2>1, <2>2, <2>3
<1>7. \A p \in DOMAIN tables : ToSet(tables[p].children) \in SUBSET ToSet(tables'[p].children)
  <2>1. ToSet(old) \in SUBSET ToSet(new)
    BY <1>4 DEF ToSet
  <2> QED
    BY <1>3, <2>1
<1>8. Len(tables) + 1 \in ToSet(new)
  BY <1>4 DEF ToSet
<1>9. \A p \in (Len(tables) + 1)..(Len(tables) + n) :
        p # Len(tables) + n => p + 1 \in ToSet(tables'[p].children)
  BY <1>5 DEF ToSet
<1> QED
  BY <1>2, <1>6, <1>7, <1>8, <1>9

Pushed(kind) ==
  LET frame == [kind |-> kind, old |-> currentSymbols, own |-> Len(tables) + 1,
                oldInsert |-> insert]
      l == Len(visits) IN
  /\ visits' \in Seq(FrameSet) /\ DOMAIN visits' = 1..(l + 1) /\ Len(visits') = l + 1
  /\ DOMAIN visits = 1..l /\ l \in Nat
  /\ \A k \in DOMAIN visits : visits'[k] = visits[k]
  /\ visits'[l + 1] = frame
LEMMA OpenPushes ==
  ASSUME Typed, NEW kind \in Bodies, Open(kind)
  PROVE  Pushed(kind)
<1> DEFINE frame == [kind |-> kind, old |-> currentSymbols, own |-> Len(tables) + 1,
                     oldInsert |-> insert]
<1>1. frame \in FrameSet
  <2>1. Len(tables) \in Nat /\ currentSymbols \in Nat /\ insert \in Nat
    BY LenProperties DEF Typed
  <2> QED
    BY <2>1 DEF FrameSet
<1>2. visits \in Seq(FrameSet) /\ visits' = Append(visits, frame)
  BY DEF Typed, Open
<1> HIDE DEF frame
<1>3. DOMAIN visits = 1..Len(visits) /\ Len(visits) \in Nat
  BY <1>2, Elements
<1>4. /\ Append(visits, frame) \in Seq(FrameSet) /\ Len(Append(visits, frame)) = Len(visits) + 1
      /\ DOMAIN Append(visits, frame) = 1..(Len(visits) + 1)
      /\ \A k \in 1..Len(visits) : Append(visits, frame)[k] = visits[k]
      /\ Append(visits, frame)[Len(visits) + 1] = frame
  BY <1>1, <1>2, Added
<1> QED
  BY <1>2, <1>3, <1>4 DEF Pushed, frame

LEMMA ForestNests ==
  ASSUME Typed, Forest, NEW n \in {1, 2}, Nests(n), NEW kind, Pushed(kind)
  PROVE  Forest'
<1> DEFINE l == Len(tables)
<1>1. /\ l \in Nat /\ DOMAIN tables = 1..l /\ n \in Nat /\ n >= 1 /\ l >= 2
      /\ currentSymbols \in DOMAIN tables /\ Len(tables') = l + n /\ currentSymbols' = l + n
  BY TableNumbers DEF Forest, Nests
<1>2. /\ DOMAIN tables' = 1..(l + n) /\ DOMAIN tables \in SUBSET DOMAIN tables'
      /\ \A p \in DOMAIN tables : ToSet(tables[p].children) \in SUBSET ToSet(tables'[p].children)
      /\ l + 1 \in ToSet(tables'[currentSymbols].children)
      /\ \A p \in (l + 1)..(l + n) : p # l + n => p + 1 \in ToSet(tables'[p].children)
  BY NestedChildren
<1> HIDE DEF l
<1>3. ASSUME NEW p \in DOMAIN tables', NEW k \in DOMAIN tables'[p].children,
             NEW c, c = tables'[p].children[k]
      PROVE  \/ /\ p \in DOMAIN tables /\ k \in DOMAIN tables[p].children
                /\ c = tables[p].children[k] /\ c \in (p + 1)..l
             \/ /\ p = currentSymbols /\ k = Len(tables[p].children) + 1
                /\ c = l + 1
             \/ p > l /\ p < l + n /\ k = 1 /\ c = p + 1
  <2>1. \/ /\ p \in DOMAIN tables /\ k \in DOMAIN tables[p].children
           /\ c = tables[p].children[k]
        \/ /\ p = currentSymbols /\ k = Len(tables[p].children) + 1
           /\ c = l + 1
        \/ p > l /\ p < l + n /\ k = 1 /\ c = p + 1
    BY <1>3, NestedChildren DEF l
  <2>2. ASSUME p \in DOMAIN tables, k \in DOMAIN tables[p].children, c = tables[p].children[k]
        PROVE  c \in (p + 1)..l
    BY <2>2 DEF Forest, l
  <2> QED
    BY <2>1, <2>2
<1>4. l + n >= 2 /\ l + n \in 1..(l + n)
  BY <1>1
<1>5. ASSUME NEW p \in DOMAIN tables', NEW k \in DOMAIN tables'[p].children
      PROVE  tables'[p].children[k] \in (p + 1)..(l + n)
  <2>1. PICK c : c = tables'[p].children[k]
    OBVIOUS
  <2>2. p \in 1..(l + n)
    BY <1>2
  <2>3. CASE p \in DOMAIN tables /\ c \in (p + 1)..l
    BY <1>1, <2>1, <2>2, <2>3
  <2>4. CASE p = currentSymbols /\ c = l + 1
    BY <1>1, <2>1, <2>2, <2>4
  <2>5. CASE p > l /\ p < l + n /\ c = p + 1
    BY <1>1, <2>1, <2>2, <2>5
  <2> QED
    BY <1>3, <2>1, <2>3, <2>4, <2>5
<1>6. ASSUME NEW p \in DOMAIN tables', NEW q \in DOMAIN tables',
             NEW k \in DOMAIN tables'[p].children, NEW m \in DOMAIN tables'[q].children,
             tables'[p].children[k] = tables'[q].children[m]
      PROVE  p = q /\ k = m
  <2>1. PICK c : c = tables'[p].children[k] /\ c = tables'[q].children[m]
    BY <1>6
  <2>2. \/ /\ p \in DOMAIN tables /\ k \in DOMAIN tables[p].children
           /\ c = tables[p].children[k] /\ c \in (p + 1)..l
        \/ p = currentSymbols /\ k = Len(tables[p].children) + 1 /\ c = l + 1
        \/ p > l /\ p < l + n /\ k = 1 /\ c = p + 1
    BY <1>3, <2>1
  <2>3. \/ /\ q \in DOMAIN tables /\ m \in DOMAIN tables[q].children
           /\ c = tables[q].children[m] /\ c \in (q + 1)..l
        \/ q = currentSymbols /\ m = Len(tables[q].children) + 1 /\ c = l + 1
        \/ q > l /\ q < l + n /\ m = 1 /\ c = q + 1
    BY <1>3, <2>1
  <2>4. p \in Nat /\ q \in Nat
    BY <1>1, <1>2
  <2>5. CASE /\ p \in DOMAIN tables /\ k \in DOMAIN tables[p].children
             /\ c = tables[p].children[k] /\ c \in (p + 1)..l
    <3>1. /\ q \in DOMAIN tables /\ m \in DOMAIN tables[q].children
          /\ c = tables[q].children[m]
      BY <1>1, <2>3, <2>4, <2>5
    <3>2. tables[p].children[k] = tables[q].children[m]
      BY <2>5, <3>1
    <3> QED
      BY <2>5, <3>1, <3>2 DEF Forest
  <2>6. CASE p = currentSymbols /\ k = Len(tables[p].children) + 1 /\ c = l + 1
    <3>1. q = currentSymbols /\ m = Len(tables[q].children) + 1
      BY <1>1, <2>3, <2>4, <2>6
    <3> QED
      BY <2>6, <3>1
  <2>7. CASE p > l /\ p < l + n /\ k = 1 /\ c = p + 1
    BY <1>1, <2>3, <2>4, <2>7
  <2> QED
    BY <2>2, <2>5, <2>6, <2>7
<1>7. ASSUME NEW t \in 2..(l + n) PROVE \E p \in DOMAIN tables' : t \in ToSet(tables'[p].children)
  <2>1. CASE t \in 2..l
    <3>1. PICK p \in DOMAIN tables : t \in ToSet(tables[p].children)
      BY <2>1 DEF Forest, l
    <3> QED
      BY <1>2, <3>1
  <2>2. CASE t = l + 1
    BY <1>1, <1>2, <2>2
  <2>3. CASE t > l + 1
    <3>1. t - 1 \in (l + 1)..(l + n) /\ t - 1 # l + n /\ (t - 1) + 1 = t /\ t - 1 \in DOMAIN tables'
      BY <1>1, <1>2, <2>3
    <3> QED
      BY <1>2, <3>1
  <2> QED
    BY <1>1, <2>1, <2>2, <2>3
<1>8. ASSUME NEW k \in DOMAIN visits'
      PROVE  /\ visits'[k].old \in DOMAIN tables'
             /\ visits'[k].own \in ToSet(tables'[visits'[k].old].children)
  <2>1. CASE k \in DOMAIN visits
    <3>1. visits'[k] = visits[k]
      BY <2>1 DEF Pushed
    <3>2. PICK o : o = visits[k].old
      OBVIOUS
    <3>3. o \in DOMAIN tables /\ visits[k].own \in ToSet(tables[o].children)
      BY <2>1, <3>2 DEF Forest
    <3>4. o \in DOMAIN tables' /\ visits[k].own \in ToSet(tables'[o].children)
      BY <1>2, <3>3
    <3> QED
      BY <3>1, <3>2, <3>4
  <2>2. CASE k \notin DOMAIN visits
    <3>1. k = Len(visits) + 1
      BY <2>2 DEF Pushed
    <3>2. visits'[k].old = currentSymbols /\ visits'[k].own = l + 1
      BY <3>1 DEF Pushed, l
    <3> QED
      BY <1>1, <1>2, <3>2
  <2> QED
    BY <2>1, <2>2
<1> QED
  BY <1>1, <1>4, <1>5, <1>6, <1>7, <1>8 DEF Forest

LEMMA RegisteredNests ==
  ASSUME Typed, Forest, Registered, NEW n \in {1, 2}, Nests(n),
         Len(program') \in Nat, Len(program) <= Len(program')
  PROVE  Registered'
<1>1. DOMAIN tables' = 1..(Len(tables) + n) /\ DOMAIN tables = 1..Len(tables) /\ Len(tables) \in Nat
  BY NestedChildren, TableNumbers
<1>2. ASSUME NEW t \in DOMAIN tables', NEW k \in DOMAIN tables'[t].resources
      PROVE  /\ t \in DOMAIN tables /\ k \in DOMAIN tables[t].resources
             /\ tables'[t].resources[k] = tables[t].resources[k]
  <2>1. CASE t \in DOMAIN tables
    <3>1. tables'[t].resources = tables[t].resources
      BY <2>1 DEF Nests
    <3> QED
      BY <1>2, <2>1, <3>1
  <2>2. CASE t \notin DOMAIN tables
    <3>1. t \in (Len(tables) + 1)..(Len(tables) + n)
      BY <1>1, <2>2
    <3>2. tables'[t].resources = <<>>
      BY <3>1 DEF Nests
    <3> QED
      BY <1>2, <3>2
  <2> QED
    BY <2>1, <2>2
<1>3. ASSUME NEW t \in DOMAIN tables', NEW k \in DOMAIN tables'[t].resources
      PROVE  tables'[t].resources[k] <= Len(program')
  <2>1. /\ t \in DOMAIN tables /\ k \in DOMAIN tables[t].resources
        /\ tables'[t].resources[k] = tables[t].resources[k]
    BY <1>2
  <2>2. tables[t].resources[k] \in Nat /\ tables[t].resources[k] <= Len(program)
    <3>1. tables[t].resources \in Seq(Nat)
      BY <2>1, TableNumbers
    <3>2. tables[t].resources[k] \in Nat
      BY <2>1, <3>1, Elements
    <3> QED
      BY <2>1, <3>2 DEF Registered
  <2>3. Len(program) \in Nat
    BY LenProperties DEF Typed
  <2> QED
    BY <2>1, <2>2, <2>3
<1>4. ASSUME NEW t \in DOMAIN tables', NEW u \in DOMAIN tables',
             NEW k \in DOMAIN tables'[t].resources, NEW m \in DOMAIN tables'[u].resources,
             tables'[t].resources[k] = tables'[u].resources[m]
      PROVE  t = u /\ k = m
  <2>1. /\ t \in DOMAIN tables /\ k \in DOMAIN tables[t].resources
        /\ tables'[t].resources[k] = tables[t].resources[k]
        /\ u \in DOMAIN tables /\ m \in DOMAIN tables[u].resources
        /\ tables'[u].resources[m] = tables[u].resources[m]
    BY <1>2
  <2>2. tables[t].resources[k] = tables[u].resources[m]
    BY <1>4, <2>1
  <2> QED
    BY <2>1, <2>2 DEF Registered
<1> QED
  BY <1>3, <1>4 DEF Registered

(* The tables of a body stay below it.                                     *)
LEMMA NestedOwn ==
  ASSUME Typed, Forest, NEW own \in DOMAIN tables, NEW n \in {1, 2}, Nests(n),
         currentSymbols > own, tables[own].children = <<own + 1>>,
         \A p \in DOMAIN tables : \A m \in DOMAIN tables[p].children :
           tables[p].children[m] > own + 1 => p > own
  PROVE  /\ currentSymbols' > own /\ tables'[own].children = <<own + 1>>
         /\ \A p \in DOMAIN tables' : \A m \in DOMAIN tables'[p].children :
              tables'[p].children[m] > own + 1 => p > own
         /\ UNION {Resources(t) : t \in (own + 1)..Len(tables)}'
              = UNION {Resources(t) : t \in (own + 1)..Len(tables)}
<1>1. /\ Len(tables) \in Nat /\ DOMAIN tables = 1..Len(tables) /\ own \in Nat
      /\ currentSymbols \in 1..Len(tables) /\ n \in Nat /\ Len(tables') = Len(tables) + n
      /\ currentSymbols' = Len(tables) + n
  BY TableNumbers DEF Forest, Nests
<1>2. currentSymbols' > own
  BY <1>1
<1>3. tables'[own].children = <<own + 1>>
  BY <1>1 DEF Nests
<1>4. ASSUME NEW p \in DOMAIN tables', NEW m \in DOMAIN tables'[p].children,
             tables'[p].children[m] > own + 1
      PROVE  p > own
  <2>1. PICK c : c = tables'[p].children[m]
    OBVIOUS
  <2>2. \/ p \in DOMAIN tables /\ m \in DOMAIN tables[p].children /\ c = tables[p].children[m]
        \/ p = currentSymbols
        \/ p > Len(tables)
    BY <2>1, NestedChildren
  <2>3. p \in Nat
    BY <1>1, NestedChildren
  <2> QED
    BY <1>1, <1>4, <2>1, <2>2, <2>3
<1>5. ASSUME NEW t \in (own + 1)..(Len(tables) + n)
      PROVE  Resources(t)' = IF t \in (own + 1)..Len(tables) THEN Resources(t) ELSE {}
  <2>1. CASE t \in DOMAIN tables
    BY <1>1, <2>1 DEF Resources, Nests
  <2>2. CASE t \notin DOMAIN tables
    <3>1. t \in (Len(tables) + 1)..(Len(tables) + n) /\ t \notin (own + 1)..Len(tables)
      BY <1>1, <2>2
    <3>2. tables'[t].resources = <<>>
      BY <3>1 DEF Nests
    <3>3. ToSet(tables'[t].resources) = {}
      BY <3>2 DEF ToSet
    <3> QED
      BY <3>1, <3>3 DEF Resources
  <2> QED
    BY <2>1, <2>2
<1>6. (own + 1)..Len(tables) \in SUBSET ((own + 1)..(Len(tables) + n))
  BY <1>1
<1>7. UNION {Resources(t) : t \in (own + 1)..Len(tables)}'
        = UNION {Resources(t) : t \in (own + 1)..Len(tables)}
  BY <1>1, <1>5, <1>6
<1> QED
  BY <1>2, <1>3, <1>4, <1>7

(* What the code outside of the scopes has to do with them.                *)
LEMMA BlocksRefused ==
  ASSUME Typed, Coded, Grown
  PROVE  \A b \in 0..Len(blocks) : b \in 0..Len(blocks') /\ (Refused(b) => Refused(b)')
<1>1. Len(blocks) \in Nat /\ Len(blocks') \in Nat /\ Len(blocks) <= Len(blocks')
  BY CodeNumbers, GrownNumbers DEF Grown
<1>2. \A b \in 0..Len(blocks) : Refused(b) => Refused(b)'
  BY GrownKeeps DEF Coded
<1> QED
  BY <1>1, <1>2

LEMMA FramesKept ==
  ASSUME Typed, Coded, Frames, Grown,
         \A k \in DOMAIN visits' : k \in DOMAIN visits /\ visits'[k] = visits[k]
  PROVE  Frames'
<1>1. ASSUME NEW k \in DOMAIN visits'
      PROVE  /\ visits'[k].oldInsert \in 0..Len(blocks')
             /\ visits'[k].kind = "test" => Refused(visits[k].oldInsert)'
  <2>1. PICK o : o = visits'[k].oldInsert
    OBVIOUS
  <2>2. o \in 0..Len(blocks) /\ (visits'[k].kind = "test" => Refused(o))
    BY <2>1 DEF Frames
  <2>3. o \in 0..Len(blocks') /\ (visits'[k].kind = "test" => Refused(o)')
    BY <2>2, BlocksRefused
  <2> QED
    BY <2>1, <2>3
<1> QED
  BY <1>1 DEF Frames

LEMMA RegisteredKept ==
  ASSUME Typed, Forest, Registered, tables' = tables,
         Len(program') \in Nat, Len(program) <= Len(program')
  PROVE  Registered'
<1>1. ASSUME NEW t \in DOMAIN tables, NEW k \in DOMAIN tables[t].resources
      PROVE  tables[t].resources[k] <= Len(program')
  <2>1. tables[t].resources \in Seq(Nat)
    BY TableNumbers
  <2>2. tables[t].resources[k] \in Nat
    BY <2>1, Elements
  <2>3. tables[t].resources[k] <= Len(program) /\ Len(program) \in Nat
    BY LenProperties DEF Typed, Registered
  <2> QED
    BY <2>2, <2>3
<1> QED
  BY <1>1 DEF Registered

LEMMA MemoryKept ==
  ASSUME Typed, Coded, Quiet, functions' = functions, exit # 0
  PROVE  Memory(Len(functions))' = Memory(Len(functions))
<1>1. PICK f : f = Len(functions)
  OBVIOUS
<1>2. Memory(f)' = Memory(f)
  BY <1>1, ToExit, QuietMemory DEF Coded
<1> QED
  BY <1>1, <1>2

LEMMA FramesPushed ==
  ASSUME Typed, Coded, Frames, Grown, NEW kind, Pushed(kind), kind = "test" => exit = 0
  PROVE  Frames'
<1>1. \A b \in 0..Len(blocks) : b \in 0..Len(blocks') /\ (Refused(b) => Refused(b)')
  BY BlocksRefused
<1>2. ASSUME NEW k \in DOMAIN visits', NEW o, o = visits'[k].oldInsert
      PROVE  o \in 0..Len(blocks') /\ (visits'[k].kind = "test" => Refused(o)')
  <2>1. o \in 0..Len(blocks) /\ (visits'[k].kind = "test" => Refused(o))
    <3>1. CASE k \in DOMAIN visits
      <4>1. visits'[k] = visits[k]
        BY <3>1 DEF Pushed
      <4> QED
        BY <1>2, <3>1, <4>1 DEF Frames
    <3>2. CASE k \notin DOMAIN visits
      <4>1. k = Len(visits) + 1
        BY <3>2 DEF Pushed
      <4>2. o = insert /\ visits'[k].kind = kind
        BY <1>2, <4>1 DEF Pushed
      <4> QED
        BY <4>2 DEF Coded, Placed, Rested
    <3> QED
      BY <3>1, <3>2
  <2> QED
    BY <1>1, <2>1
<1>3. ASSUME NEW k \in DOMAIN visits'
      PROVE  /\ visits'[k].oldInsert \in 0..Len(blocks')
             /\ visits'[k].kind = "test" => Refused(visits[k].oldInsert)'
  <2>1. PICK o : o = visits'[k].oldInsert
    OBVIOUS
  <2>2. o \in 0..Len(blocks') /\ (visits'[k].kind = "test" => Refused(o)')
    BY <1>2, <2>1
  <2> QED
    BY <2>1, <2>2
<1> QED
  BY <1>3 DEF Frames

(* Where the tables of an open function are.                               *)
LEMMA OwnTable ==
  ASSUME Typed, Forest, NEW k \in DOMAIN visits
  PROVE  visits[k].own \in DOMAIN tables /\ k \in Nat /\ DOMAIN visits = 1..Len(visits)
<1>1. visits[k].old \in DOMAIN tables /\ visits[k].own \in ToSet(tables[visits[k].old].children)
  BY DEF Forest
<1>2. visits[k].own \in DOMAIN tables
  BY <1>1, TableNumbers
<1>3. DOMAIN visits = 1..Len(visits) /\ Len(visits) \in Nat
  BY Elements DEF Typed
<1> QED
  BY <1>2, <1>3

-----------------------------------------------------------------------------
(***************************************************************************)
(* The steps that leave the scopes alone, that open and that close them.   *)
(***************************************************************************)
LEMMA CodeKept ==
  ASSUME Typed, Coded, functions' = functions, blocks' = blocks, insert' = insert,
         exit' = exit, InsideFunction' = InsideFunction
  PROVE  Quiet /\ Coded'
<1>1. Quiet
  <2>1. \A b \in DOMAIN blocks : /\ <<>> \in Seq(Instructions)
                                 /\ blocks[b].code \o <<>> = blocks[b].code
    BY CodeNumbers, ConcatEmptySeq
  <2>2. Grown
    <3>1. Len(blocks) <= Len(blocks) /\ Len(functions) <= Len(functions)
      BY CodeNumbers
    <3> QED
      BY <2>1, <3>1 DEF Grown, Typed
  <2>3. \A b \in DOMAIN blocks : Mallocs(b)' = Mallocs(b)
    BY DEF Mallocs, Made
  <2> QED
    BY <2>2, <2>3 DEF Quiet
<1>2. /\ \A f : IsFunc(f)' = IsFunc(f) /\ \A b : IsExit(b)' = IsExit(b)
      /\ Broken' = Broken /\ \A b : HasTerminator(b)' = HasTerminator(b)
  BY DEF IsFunc, IsExit, Broken, HasTerminator
<1>3. /\ \A b : Mallocs(b)' = Mallocs(b) /\ \A f : BlocksOf(f)' = BlocksOf(f)
      /\ \A f : Memory(f)' = Memory(f)
  BY DEF Mallocs, Made, BlocksOf, Memory
<1>4. Placed'
  BY DEF Coded, Placed
<1>5. Generating'
  BY <1>2 DEF Coded, Generating
<1>6. Rested'
  BY <1>2 DEF Coded, Rested, Refused
<1>7. ASSUME NEW b, NEW c PROVE Follows(b, c)' = Follows(b, c)
  <2>1. PICK f : f = blocks[b].function
    OBVIOUS
  <2>2. IsExit(c)' = IsExit(c) /\ BlocksOf(f)' = BlocksOf(f) /\ f = blocks'[b].function
    BY <1>2, <1>3, <2>1
  <2>3. Follows(b, c) = IF IsExit(c) THEN \A d \in BlocksOf(f) : d > b => Mallocs(d) = {}
                        ELSE b < c /\ \A d \in BlocksOf(f) : b < d /\ d < c => Mallocs(d) = {}
    BY <2>1 DEF Follows
  <2>4. Follows(b, c)' = IF IsExit(c) THEN \A d \in BlocksOf(f) : d > b => Mallocs(d)' = {}
                         ELSE b < c /\ \A d \in BlocksOf(f) : b < d /\ d < c => Mallocs(d)' = {}
    BY <2>2 DEF Follows
  <2> QED
    BY <1>3, <2>3, <2>4
<1>8. \A b, i : Allowed(b, i)' = Allowed(b, i)
  <2>1. \A b : Memory(blocks[b].function)' = Memory(blocks[b].function)
    BY <1>3
  <2> QED
    BY <1>2, <1>7, <2>1 DEF Allowed
<1>9. \A b : CleansUp(b)' = CleansUp(b)
  <2>1. \A b : Memory(blocks[b].function)' = Memory(blocks[b].function)
    BY <1>3
  <2> QED
    BY <1>2, <2>1 DEF CleansUp
<1>10. Allocated => Allocated'
  <2>1. ASSUME Allocated, NEW b \in DOMAIN blocks, NEW k \in DOMAIN blocks[b].code
        PROVE  Allowed(b, blocks[b].code[k])'
    <3>1. PICK i : i = blocks[b].code[k]
      OBVIOUS
    <3>2. Allowed(b, i)'
      BY <1>8, <2>1, <3>1 DEF Allocated
    <3> QED
      BY <3>1, <3>2
  <2> QED
    BY <2>1 DEF Allocated
<1>11. Cleaned => Cleaned'
  BY <1>9 DEF Cleaned
<1> QED
  BY <1>1, <1>2, <1>4, <1>5, <1>6, <1>10, <1>11 DEF Coded, Sound

(* Nothing is opened or closed, and nothing is allocated.                  *)
LEMMA ScopesKept ==
  ASSUME Typed, Coded, Scoped, Quiet, functions' = functions,
         tables' = tables, currentSymbols' = currentSymbols, visits' = visits, exit' = exit,
         Len(program') \in Nat, Len(program) <= Len(program')
  PROVE  Scoped'
<1>1. Forest'
  BY DEF Scoped, Forest
<1>2. Enclosed' /\ \A k : Opener(k)' = Opener(k)
  BY DEF Scoped, Enclosed, Opener
<1>3. Frames'
  BY FramesKept DEF Scoped, Quiet
<1>4. Registered'
  BY RegisteredKept DEF Scoped
<1>5. Owned'
  <2>1. exit # 0 => Memory(Len(functions))' = Memory(Len(functions))
    BY MemoryKept
  <2>2. \A t : Resources(t)' = Resources(t)
    BY DEF Resources
  <2> QED
    BY <1>2, <2>1, <2>2 DEF Scoped, Owned
<1> QED
  BY <1>1, <1>2, <1>3, <1>4, <1>5 DEF Scoped

(* A block is opened.                                                      *)
LEMMA BlockOpens ==
  ASSUME Typed, Coded, Scoped, Quiet, functions' = functions, exit' = exit,
         Nests(1), Pushed("block"), Len(program') \in Nat, Len(program) <= Len(program')
  PROVE  Scoped'
<1>1. ASSUME NEW k \in DOMAIN visits PROVE Opener(k) => Opener(k)'
  BY DEF Opener, Pushed
<1>2. ASSUME NEW k, Opener(k)' PROVE k \in DOMAIN visits /\ visits'[k] = visits[k] /\ Opener(k)
  <2>1. k \in DOMAIN visits
    BY <1>2 DEF Opener, Pushed
  <2> QED
    BY <1>2, <2>1 DEF Opener, Pushed
<1>3. Enclosed'
  BY <1>1 DEF Scoped, Enclosed, Opener
<1>4. ASSUME exit # 0, NEW k, Opener(k)', NEW own, own = visits'[k].own
      PROVE  /\ currentSymbols' > own /\ tables'[own].children = <<own + 1>>
             /\ \A m \in DOMAIN visits' : m > k => visits'[m].old > own
             /\ \A p \in DOMAIN tables' : \A m \in DOMAIN tables'[p].children :
                  tables'[p].children[m] > own + 1 => p > own
             /\ UNION {Resources(t) : t \in (own + 1)..Len(tables)}'
                  = Memory(Len(functions))'
  <2>1. k \in DOMAIN visits /\ own = visits[k].own /\ Opener(k)
    BY <1>2, <1>4
  <2>2. /\ currentSymbols > own /\ tables[own].children = <<own + 1>>
        /\ \A m \in DOMAIN visits : m > k => visits[m].old > own
        /\ \A p \in DOMAIN tables : \A m \in DOMAIN tables[p].children :
             tables[p].children[m] > own + 1 => p > own
        /\ UNION {Resources(t) : t \in (own + 1)..Len(tables)} = Memory(Len(functions))
    BY <1>4, <2>1 DEF Scoped, Owned
  <2>3. own \in DOMAIN tables
    BY <2>1, OwnTable DEF Scoped
  <2>4. /\ currentSymbols' > own /\ tables'[own].children = <<own + 1>>
        /\ \A p \in DOMAIN tables' : \A m \in DOMAIN tables'[p].children :
             tables'[p].children[m] > own + 1 => p > own
        /\ UNION {Resources(t) : t \in (own + 1)..Len(tables)}'
             = UNION {Resources(t) : t \in (own + 1)..Len(tables)}
    BY <2>2, <2>3, NestedOwn DEF Scoped
  <2>5. Memory(Len(functions))' = Memory(Len(functions))
    BY <1>4, MemoryKept
  <2>6. ASSUME NEW m \in DOMAIN visits', m > k PROVE visits'[m].old > own
    BY <2>2, <2>6 DEF Pushed
  <2> QED
    BY <2>2, <2>4, <2>5, <2>6
<1>5. Owned'
  BY <1>4 DEF Owned
<1>6. Forest' /\ Registered' /\ Frames'
  BY ForestNests, RegisteredNests, FramesPushed DEF Scoped, Quiet
<1> QED
  BY <1>3, <1>5, <1>6 DEF Scoped

(* A function is opened.                                                   *)
LEMMA FunctionOpens ==
  ASSUME Typed, Coded, Scoped, Grown, exit' # 0, Memory(Len(functions))' = {},
         Nests(2), Pushed("func"), Len(program') \in Nat, Len(program) <= Len(program')
  PROVE  Scoped'
<1>1. PICK l : /\ l \in Nat /\ DOMAIN visits' = 1..(l + 1) /\ visits'[l + 1].kind = "func"
               /\ visits'[l + 1].own = Len(tables) + 1
  BY DEF Pushed
<1>2. Opener(l + 1)'
  <2>1. l + 1 \in DOMAIN visits' /\ \A m \in DOMAIN visits' : ~ (m > l + 1)
    BY <1>1
  <2> QED
    BY <1>1, <2>1 DEF Opener
<1>3. ASSUME NEW k, Opener(k)' PROVE k = l + 1
  <2>1. k \in 1..(l + 1) /\ ~ (l + 1 > k)
    BY <1>1, <1>3 DEF Opener
  <2> QED
    BY <1>1, <2>1
<1>4. Enclosed'
  BY <1>1, <1>2 DEF Enclosed
<1>5. /\ Len(tables) \in Nat /\ Len(tables') = Len(tables) + 2
      /\ currentSymbols' = Len(tables) + 2 /\ DOMAIN tables' = 1..(Len(tables) + 2)
      /\ DOMAIN tables = 1..Len(tables)
  BY NestedChildren, TableNumbers DEF Nests, Scoped
<1>6. ASSUME NEW own, own = Len(tables) + 1
      PROVE  /\ currentSymbols' > own /\ tables'[own].children = <<own + 1>>
             /\ \A p \in DOMAIN tables' : \A m \in DOMAIN tables'[p].children :
                  tables'[p].children[m] > own + 1 => p > own
             /\ UNION {Resources(t) : t \in (own + 1)..Len(tables)}' = {}
  <2>1. tables'[own].children = <<own + 1>> /\ tables'[own + 1].resources = <<>>
    <3>1. /\ own \in (Len(tables) + 1)..(Len(tables) + 2) /\ own # Len(tables) + 2
          /\ own + 1 \in (Len(tables) + 1)..(Len(tables) + 2)
      BY <1>5, <1>6
    <3> QED
      BY <3>1 DEF Nests
  <2>2. ASSUME NEW p \in DOMAIN tables', NEW m \in DOMAIN tables'[p].children
        PROVE  ~ (tables'[p].children[m] > own + 1)
    <3>1. tables'[p].children[m] \in (p + 1)..Len(tables')
      BY ForestNests DEF Forest, Scoped
    <3> QED
      BY <1>5, <1>6, <3>1
  <2>3. (own + 1)..Len(tables') = {own + 1}
    BY <1>5, <1>6
  <2>4. ToSet(tables'[own + 1].resources) = {}
    BY <2>1 DEF ToSet
  <2>5. UNION {Resources(t) : t \in (own + 1)..Len(tables)}' = {}
    BY <2>3, <2>4 DEF Resources
  <2> QED
    BY <1>5, <1>6, <2>1, <2>2, <2>5
<1>7. Owned'
  <2>1. ASSUME NEW k, Opener(k)' PROVE visits'[k].own = Len(tables) + 1 /\ k = l + 1
    BY <1>1, <1>3, <2>1
  <2>2. \A m \in DOMAIN visits' : ~ (m > l + 1)
    BY <1>1
  <2> QED
    BY <1>6, <2>1, <2>2 DEF Owned
<1>8. Forest' /\ Registered' /\ Frames'
  BY ForestNests, RegisteredNests, FramesPushed DEF Scoped
<1> QED
  BY <1>4, <1>7, <1>8 DEF Scoped

(* A test is opened, outside of functions.                                 *)
LEMMA TestOpens ==
  ASSUME Typed, Coded, Scoped, Grown, exit = 0, exit' = 0,
         Nests(1), Pushed("test"), Len(program') \in Nat, Len(program) <= Len(program')
  PROVE  Scoped'
<1>1. Forest' /\ Registered' /\ Frames'
  BY ForestNests, RegisteredNests, FramesPushed DEF Scoped
<1> QED
  BY <1>1 DEF Scoped, Enclosed, Owned

Popped(kind) ==
  /\ visits' \in Seq(FrameSet) /\ DOMAIN visits' = 1..(Len(visits) - 1)
  /\ Len(visits) \in DOMAIN visits /\ DOMAIN visits = 1..Len(visits) /\ Len(visits) \in Nat
  /\ \A k \in DOMAIN visits' : visits'[k] = visits[k]
  /\ Node.kind = kind
LEMMA ClosePops ==
  ASSUME Typed, NEW kind, Close(kind)
  PROVE  Popped(kind)
<1> DEFINE l == Len(visits)
<1>1. visits \in Seq(FrameSet) /\ visits # <<>>
  BY DEF Typed, Close
<1>2. DOMAIN visits = 1..l /\ l \in Nat /\ l # 0
  BY <1>1, Elements
<1>3. l \in 1..l /\ l - 1 \in 0..l
  BY <1>2
<1>4. /\ SubSeq(visits, 1, l - 1) \in Seq(FrameSet) /\ Len(SubSeq(visits, 1, l - 1)) = l - 1
      /\ DOMAIN SubSeq(visits, 1, l - 1) = 1..(l - 1)
      /\ \A k \in 1..(l - 1) : SubSeq(visits, 1, l - 1)[k] = visits[k]
  BY <1>1, <1>2, <1>3
<1> QED
  BY <1>2, <1>3, <1>4 DEF Close, Popped

LEMMA FunctionCloses ==
  ASSUME Enclosed, NEW kind, Popped(kind), exit # 0
  PROVE  /\ kind = "func" => Opener(Len(visits))
         /\ kind # "test"
<1>1. PICK k \in DOMAIN visits : Opener(k)
  BY DEF Enclosed
<1>2. k = Len(visits) \/ visits[Len(visits)].kind = "block"
  <2>1. k \in 1..Len(visits) /\ Len(visits) \in DOMAIN visits /\ Len(visits) \in Nat
    BY DEF Popped
  <2> QED
    BY <1>1, <2>1 DEF Opener
<1>3. visits[Len(visits)].kind = kind
  BY DEF Popped, Node
<1> QED
  BY <1>1, <1>2, <1>3 DEF Opener

LEMMA ScopeCloses ==
  ASSUME Typed, Coded, Scoped, Quiet, NEW kind, Popped(kind), functions' = functions,
         tables' = tables, currentSymbols' = Node.old,
         exit' = IF kind = "block" THEN exit ELSE 0,
         Len(program') \in Nat, Len(program) <= Len(program')
  PROVE  Scoped'
<1>1. Forest'
  <2>1. Node.old \in DOMAIN tables /\ DOMAIN visits' \in SUBSET DOMAIN visits
    <3>1. Len(visits) \in DOMAIN visits
      BY DEF Popped
    <3>2. visits[Len(visits)].old \in DOMAIN tables
      BY <3>1 DEF Scoped, Forest
    <3>3. DOMAIN visits' \in SUBSET DOMAIN visits
      BY DEF Popped
    <3> QED
      BY <3>2, <3>3 DEF Node
  <2>2. currentSymbols' \in 1..Len(tables)
    BY <2>1, TableNumbers DEF Scoped
  <2>3. \A k \in DOMAIN visits' : /\ visits'[k].old \in DOMAIN tables
                                  /\ visits'[k].own \in ToSet(tables[visits'[k].old].children)
    BY <2>1 DEF Popped, Scoped, Forest
  <2> QED
    BY <2>2, <2>3 DEF Scoped, Forest
<1>2. Frames'
  <2>1. \A k \in DOMAIN visits' : k \in DOMAIN visits /\ visits'[k] = visits[k]
    BY DEF Popped
  <2> QED
    BY <2>1, FramesKept DEF Scoped, Quiet
<1>3. Registered'
  BY RegisteredKept DEF Scoped
<1>4. CASE kind # "block"
  BY <1>1, <1>2, <1>3, <1>4 DEF Scoped, Enclosed, Owned
<1>5. CASE kind = "block"
  <2>1. /\ DOMAIN visits = 1..Len(visits) /\ DOMAIN visits' = 1..(Len(visits) - 1)
        /\ Len(visits) \in Nat /\ Len(visits) \in DOMAIN visits
        /\ visits[Len(visits)].kind = "block"
        /\ \A k \in DOMAIN visits' : k \in DOMAIN visits /\ visits'[k] = visits[k]
    BY <1>5 DEF Popped, Node
  <2>2. ASSUME NEW k, Opener(k) PROVE k \in DOMAIN visits' /\ Opener(k)'
    <3>1. k \in DOMAIN visits /\ k # Len(visits)
      BY <2>1, <2>2 DEF Opener
    <3>2. k \in DOMAIN visits'
      BY <2>1, <3>1
    <3> QED
      BY <2>1, <2>2, <3>2 DEF Opener
  <2>3. ASSUME NEW k, Opener(k)'
        PROVE  /\ Opener(k) /\ k \in DOMAIN visits /\ visits'[k] = visits[k]
               /\ Len(visits) > k
    <3>1. k \in DOMAIN visits'
      BY <2>3 DEF Opener
    <3>2. \A m \in DOMAIN visits : m = Len(visits) \/ m \in DOMAIN visits'
      BY <2>1
    <3>3. Len(visits) > k
      BY <2>1, <3>1
    <3>4. \A m \in DOMAIN visits : m > k => visits[m].kind = "block"
      BY <2>1, <2>3, <3>2 DEF Opener
    <3> QED
      BY <2>1, <2>3, <3>1, <3>3, <3>4 DEF Opener
  <2>4. Enclosed'
    <3>1. ASSUME exit # 0 PROVE \E k \in DOMAIN visits' : Opener(k)'
      <4>1. PICK k : Opener(k)
        BY <3>1 DEF Scoped, Enclosed
      <4> QED
        BY <2>2, <4>1
    <3> QED
      BY <1>5, <3>1 DEF Enclosed
  <2>5. ASSUME exit # 0, NEW k, Opener(k)', NEW own, own = visits'[k].own
        PROVE  /\ currentSymbols' > own /\ tables[own].children = <<own + 1>>
               /\ \A m \in DOMAIN visits' : m > k => visits'[m].old > own
               /\ \A p \in DOMAIN tables : \A m \in DOMAIN tables[p].children :
                    tables[p].children[m] > own + 1 => p > own
               /\ UNION {Resources(t) : t \in (own + 1)..Len(tables)} = Memory(Len(functions))
    <3>1. /\ k \in DOMAIN visits /\ Opener(k) /\ own = visits[k].own /\ Len(visits) > k
      BY <2>3, <2>5
    <3>2. /\ tables[own].children = <<own + 1>>
          /\ \A m \in DOMAIN visits : m > k => visits[m].old > own
          /\ \A p \in DOMAIN tables : \A m \in DOMAIN tables[p].children :
               tables[p].children[m] > own + 1 => p > own
          /\ UNION {Resources(t) : t \in (own + 1)..Len(tables)} = Memory(Len(functions))
      BY <2>5, <3>1 DEF Scoped, Owned
    <3>3. currentSymbols' > own
      BY <2>1, <3>1, <3>2 DEF Node
    <3>4. \A m \in DOMAIN visits' : m > k => visits'[m].old > own
      BY <2>1, <3>2
    <3> QED
      BY <3>2, <3>3, <3>4
  <2>6. Owned'
    <3>1. exit # 0 => Memory(Len(functions))' = Memory(Len(functions))
      BY MemoryKept
    <3>2. \A t : Resources(t)' = Resources(t)
      BY DEF Resources
    <3>3. ASSUME exit # 0, NEW k \in DOMAIN visits', Opener(k)', NEW own, own = visits'[k].own
          PROVE  /\ currentSymbols' > own /\ tables'[own].children = <<own + 1>>
                 /\ \A m \in DOMAIN visits' : m > k => visits'[m].old > own
                 /\ \A p \in DOMAIN tables' : \A m \in DOMAIN tables'[p].children :
                      tables'[p].children[m] > own + 1 => p > own
                 /\ UNION {Resources(t) : t \in (own + 1)..Len(tables)}' = Memory(Len(functions))'
      <4>1. /\ currentSymbols' > own /\ tables[own].children = <<own + 1>>
            /\ \A m \in DOMAIN visits' : m > k => visits'[m].old > own
            /\ \A p \in DOMAIN tables : \A m \in DOMAIN tables[p].children :
                 tables[p].children[m] > own + 1 => p > own
            /\ UNION {Resources(t) : t \in (own + 1)..Len(tables)} = Memory(Len(functions))
        BY <2>5, <3>3
      <4>2. tables'[own].children = <<own + 1>>
        BY <4>1
      <4>3. \A p \in DOMAIN tables' : \A m \in DOMAIN tables'[p].children :
              tables'[p].children[m] > own + 1 => p > own
        BY <4>1
      <4>4. UNION {Resources(t) : t \in (own + 1)..Len(tables)}' = Memory(Len(functions))'
        <5>1. own' = own
          BY <3>3
        <5>2. UNION {Resources(t) : t \in (own + 1)..Len(tables)}'
                = UNION {Resources(t) : t \in (own + 1)..Len(tables)}
          BY <3>2, <5>1
        <5> QED
          BY <3>1, <3>3, <4>1, <5>2
      <4> QED
        BY <4>1, <4>2, <4>3, <4>4
    <3> QED
      BY <1>5, <3>3 DEF Owned
  <2> QED
    BY <1>1, <1>2, <1>3, <2>4, <2>6 DEF Scoped
<1> QED
  BY <1>4, <1>5

(* A variable is registered in the current table.                          *)
Registering(v) ==
  /\ tables' \in Seq(TableSet) /\ Len(tables') = Len(tables) /\ DOMAIN tables' = DOMAIN tables
  /\ v = Len(program) + 1 /\ v \in Nat
  /\ \A t \in DOMAIN tables :
       /\ tables'[t].children = tables[t].children
       /\ Resources(t)' = IF t = currentSymbols THEN Resources(t) \cup {v} ELSE Resources(t)
       /\ \A k \in DOMAIN tables'[t].resources :
            \/ /\ k \in DOMAIN tables[t].resources
               /\ tables'[t].resources[k] = tables[t].resources[k]
               /\ tables[t].resources[k] \in Nat /\ tables[t].resources[k] < v
            \/ /\ t = currentSymbols /\ k = Len(tables[t].resources) + 1
               /\ tables'[t].resources[k] = v

LEMMA RegistersOne ==
  ASSUME Typed, Scoped, NEW v, v = Len(program) + 1,
         tables' = [tables EXCEPT ![currentSymbols].resources = Append(@, v)]
  PROVE  Registering(v)
<1> DEFINE r == tables[currentSymbols].resources
           e == [tables[currentSymbols] EXCEPT !.resources = Append(@, v)]
<1>1. /\ tables \in Seq(TableSet) /\ currentSymbols \in DOMAIN tables
      /\ DOMAIN tables = 1..Len(tables) /\ Len(tables) \in Nat
      /\ tables[currentSymbols] \in TableSet
      /\ r \in Seq(Nat) /\ v \in Nat /\ Len(program) \in Nat
      /\ DOMAIN r = 1..Len(r) /\ Len(r) \in Nat
  <2>1. /\ tables \in Seq(TableSet) /\ currentSymbols \in DOMAIN tables
        /\ DOMAIN tables = 1..Len(tables) /\ Len(tables) \in Nat
    BY TableNumbers DEF Typed, Scoped, Forest
  <2>2. tables[currentSymbols] \in TableSet /\ r \in Seq(Nat) /\ DOMAIN r = 1..Len(r) /\ Len(r) \in Nat
    BY <2>1, TableNumbers DEF Scoped
  <2>3. Len(program) \in Nat
    BY LenProperties DEF Typed
  <2> QED
    BY <2>1, <2>2, <2>3
<1>2. /\ Append(r, v) \in Seq(Nat) /\ DOMAIN Append(r, v) = 1..(Len(r) + 1)
      /\ \A k \in 1..Len(r) : Append(r, v)[k] = r[k]
      /\ Append(r, v)[Len(r) + 1] = v
  <2>1. r \in Seq(Nat) /\ v \in Nat
    BY <1>1
  <2> HIDE DEF r
  <2> QED
    BY <2>1, Added
<1>3. /\ e \in TableSet /\ e.resources = Append(r, v)
      /\ e.children = tables[currentSymbols].children
  BY <1>1, <1>2 DEF TableSet
<1>4. tables' = [tables EXCEPT ![currentSymbols] = e]
  OBVIOUS
<1> HIDE DEF e
<1>5. /\ tables' \in Seq(TableSet) /\ Len(tables') = Len(tables)
      /\ DOMAIN tables' = DOMAIN tables
      /\ \A t \in DOMAIN tables : tables'[t] = IF t = currentSymbols THEN e ELSE tables[t]
  <2> DEFINE ts == [tables EXCEPT ![currentSymbols] = e]
  <2>1. /\ ts \in Seq(TableSet) /\ Len(ts) = Len(tables) /\ DOMAIN ts = DOMAIN tables
        /\ \A t \in DOMAIN tables : ts[t] = IF t = currentSymbols THEN e ELSE tables[t]
    BY <1>1, <1>3, Replaced
  <2>2. tables' = ts
    BY <1>4
  <2> HIDE DEF ts
  <2> QED
    BY <2>1, <2>2
<1>6. \A t \in DOMAIN tables :
        /\ tables'[t].children = tables[t].children
        /\ t # currentSymbols => tables'[t].resources = tables[t].resources
  BY <1>3, <1>5
<1>7. tables'[currentSymbols].resources = Append(r, v)
  BY <1>1, <1>3, <1>5
<1>8. ASSUME NEW t \in DOMAIN tables, NEW m \in DOMAIN tables[t].resources
      PROVE  tables[t].resources[m] \in Nat /\ tables[t].resources[m] < v
  <2>1. tables[t].resources \in Seq(Nat)
    BY TableNumbers DEF Scoped
  <2>2. tables[t].resources[m] \in Nat
    BY <2>1, Elements
  <2>3. tables[t].resources[m] <= Len(program)
    BY DEF Scoped, Registered
  <2> QED
    BY <1>1, <2>2, <2>3
<1>9. ASSUME NEW t \in DOMAIN tables, NEW k \in DOMAIN tables'[t].resources
      PROVE  \/ /\ k \in DOMAIN tables[t].resources
                /\ tables'[t].resources[k] = tables[t].resources[k]
                /\ tables[t].resources[k] \in Nat /\ tables[t].resources[k] < v
             \/ /\ t = currentSymbols /\ k = Len(tables[t].resources) + 1
                /\ tables'[t].resources[k] = v
  <2>1. CASE t # currentSymbols
    <3>1. tables'[t].resources = tables[t].resources
      BY <1>6, <2>1
    <3> QED
      BY <1>8, <1>9, <3>1
  <2>2. CASE t = currentSymbols
    <3>1. k \in DOMAIN r \/ k = Len(r) + 1
      BY <1>1, <1>2, <1>7, <1>9, <2>2
    <3>2. k \in DOMAIN r => tables'[t].resources[k] = r[k]
      BY <1>1, <1>2, <1>7, <2>2
    <3>3. k = Len(r) + 1 => tables'[t].resources[k] = v
      BY <1>2, <1>7, <2>2
    <3> QED
      BY <1>8, <2>2, <3>1, <3>2, <3>3
  <2> QED
    BY <2>1, <2>2
<1>10. ASSUME NEW t \in DOMAIN tables
       PROVE  Resources(t)' = IF t = currentSymbols THEN Resources(t) \cup {v} ELSE Resources(t)
  <2>1. CASE t # currentSymbols
    BY <1>6, <2>1 DEF Resources
  <2>2. CASE t = currentSymbols
    <3>1. ToSet(Append(r, v)) = ToSet(r) \cup {v}
      <4>1. DOMAIN Append(r, v) = DOMAIN r \cup {Len(r) + 1}
        BY <1>1, <1>2
      <4>2. \A k \in DOMAIN r : Append(r, v)[k] = r[k]
        BY <1>1, <1>2
      <4> HIDE DEF r
      <4> QED
        BY <1>2, <4>1, <4>2 DEF ToSet
    <3> QED
      BY <1>7, <2>2, <3>1 DEF Resources
  <2> QED
    BY <2>1, <2>2
<1> QED
  BY <1>1, <1>5, <1>6, <1>9, <1>10 DEF Registering

LEMMA Registers ==
  ASSUME Typed, Coded, Scoped, exit # 0, Grown, functions' = functions,
         NEW v, Registering(v), Len(program') = v,
         Memory(Len(functions))' = Memory(Len(functions)) \cup {v},
         currentSymbols' = currentSymbols, visits' = visits, exit' = exit
  PROVE  Scoped'
<1>1. /\ Len(tables') = Len(tables) /\ DOMAIN tables' = DOMAIN tables
      /\ DOMAIN tables = 1..Len(tables) /\ Len(tables) \in Nat
      /\ currentSymbols \in DOMAIN tables
      /\ \A t \in DOMAIN tables :
           /\ tables'[t].children = tables[t].children
           /\ Resources(t)' = IF t = currentSymbols THEN Resources(t) \cup {v} ELSE Resources(t)
  BY TableNumbers DEF Registering, Scoped, Forest
<1>2. Forest'
  <2>1. \A t \in DOMAIN tables : ToSet(tables'[t].children) = ToSet(tables[t].children)
    BY <1>1
  <2>2. /\ Len(tables') >= 2 /\ currentSymbols' \in 1..Len(tables')
        /\ \A p \in DOMAIN tables' : \A k \in DOMAIN tables'[p].children :
             tables'[p].children[k] \in (p + 1)..Len(tables')
    BY <1>1 DEF Scoped, Forest
  <2>3. ASSUME NEW p \in DOMAIN tables', NEW q \in DOMAIN tables',
               NEW k \in DOMAIN tables'[p].children, NEW m \in DOMAIN tables'[q].children,
               tables'[p].children[k] = tables'[q].children[m]
        PROVE  p = q /\ k = m
    <3>1. tables'[p].children = tables[p].children /\ tables'[q].children = tables[q].children
      BY <1>1
    <3>2. /\ p \in DOMAIN tables /\ q \in DOMAIN tables
          /\ k \in DOMAIN tables[p].children /\ m \in DOMAIN tables[q].children
          /\ tables[p].children[k] = tables[q].children[m]
      BY <1>1, <2>3, <3>1
    <3>3. \A a, b \in DOMAIN tables :
            \A c \in DOMAIN tables[a].children : \A d \in DOMAIN tables[b].children :
              tables[a].children[c] = tables[b].children[d] => a = b /\ c = d
      BY DEF Scoped, Forest
    <3> QED
      BY <3>2, <3>3
  <2>4. \A t \in 2..Len(tables') : \E p \in DOMAIN tables' : t \in ToSet(tables'[p].children)
    BY <1>1, <2>1 DEF Scoped, Forest
  <2>5. ASSUME NEW k \in DOMAIN visits
        PROVE  /\ visits[k].old \in DOMAIN tables'
               /\ visits[k].own \in ToSet(tables'[visits[k].old].children)
    BY <1>1, <2>1 DEF Scoped, Forest
  <2> QED
    BY <2>2, <2>3, <2>4, <2>5 DEF Forest
<1>3. Enclosed' /\ \A k : Opener(k)' = Opener(k)
  BY DEF Scoped, Enclosed, Opener
<1>4. Frames'
  BY FramesKept DEF Scoped
<1>5. Registered'
  <2>1. ASSUME NEW t \in DOMAIN tables, NEW k \in DOMAIN tables'[t].resources
        PROVE  tables'[t].resources[k] <= Len(program')
    BY <2>1 DEF Registering
  <2>2. ASSUME NEW t \in DOMAIN tables, NEW u \in DOMAIN tables,
               NEW k \in DOMAIN tables'[t].resources, NEW m \in DOMAIN tables'[u].resources,
               tables'[t].resources[k] = tables'[u].resources[m]
        PROVE  t = u /\ k = m
    <3>1. CASE tables'[t].resources[k] = v
      <4>1. t = currentSymbols /\ k = Len(tables[t].resources) + 1
        BY <3>1 DEF Registering
      <4>2. tables'[u].resources[m] = v
        BY <2>2, <3>1
      <4>3. u = currentSymbols /\ m = Len(tables[u].resources) + 1
        BY <4>2 DEF Registering
      <4> QED
        BY <4>1, <4>3
    <3>2. CASE tables'[t].resources[k] # v
      <4>1. /\ m \in DOMAIN tables[u].resources /\ k \in DOMAIN tables[t].resources
            /\ tables'[u].resources[m] = tables[u].resources[m]
            /\ tables'[t].resources[k] = tables[t].resources[k]
        BY <2>2, <3>2 DEF Registering
      <4>2. tables[t].resources[k] = tables[u].resources[m]
        BY <2>2, <4>1
      <4> QED
        BY <4>1, <4>2 DEF Scoped, Registered
    <3> QED
      BY <3>1, <3>2
  <2> QED
    BY <1>1, <2>1, <2>2 DEF Registered
<1>6. ASSUME NEW k, Opener(k), NEW own, own = visits[k].own
      PROVE  /\ currentSymbols > own /\ tables'[own].children = <<own + 1>>
             /\ \A m \in DOMAIN visits : m > k => visits[m].old > own
             /\ \A p \in DOMAIN tables' : \A m \in DOMAIN tables'[p].children :
                  tables'[p].children[m] > own + 1 => p > own
             /\ UNION {Resources(t) : t \in (own + 1)..Len(tables)}' = Memory(Len(functions))'
  <2>1. k \in DOMAIN visits
    BY <1>6 DEF Opener
  <2>2. own \in DOMAIN tables
    BY <1>6, <2>1, OwnTable DEF Scoped
  <2>3. /\ currentSymbols > own /\ tables[own].children = <<own + 1>>
        /\ \A m \in DOMAIN visits : m > k => visits[m].old > own
        /\ \A p \in DOMAIN tables : \A m \in DOMAIN tables[p].children :
             tables[p].children[m] > own + 1 => p > own
        /\ UNION {Resources(t) : t \in (own + 1)..Len(tables)} = Memory(Len(functions))
    BY <1>6, <2>1 DEF Scoped, Owned
  <2>4. UNION {Resources(t) : t \in (own + 1)..Len(tables)}'
          = (UNION {Resources(t) : t \in (own + 1)..Len(tables)}) \cup {v}
    <3>1. /\ \A t \in (own + 1)..Len(tables) : t \in DOMAIN tables
          /\ currentSymbols \in (own + 1)..Len(tables)
      BY <1>1, <2>2, <2>3
    <3> QED
      BY <1>1, <3>1
  <2> QED
    BY <1>1, <2>2, <2>3, <2>4
<1>7. Owned'
  BY <1>3, <1>6 DEF Owned
<1> QED
  BY <1>2, <1>3, <1>4, <1>5, <1>7 DEF Scoped

-----------------------------------------------------------------------------
(***************************************************************************)
(* The steps of the compilation.                                           *)
(***************************************************************************)
LEMMA Compiles ==
  ASSUME Inv, Grown, Coded', Scoped',
         phase # "running", phase' \in {"program", "tests", "entry", "undefined", "threw"},
         program' \in Seq(Kinds), visits' \in Seq(FrameSet), tables' \in Seq(TableSet),
         InsideFunction' \in BOOLEAN, UNCHANGED execution
  PROVE  Inv'
<1>1. blocks' \in Seq(BlockSet) /\ functions' \in Seq(FunctionSet)
  BY DEF Grown
<1>2. insert' \in Nat /\ exit' \in Nat
  <2>1. insert' \in 0..Len(blocks') /\ exit' \in 0..Len(blocks')
    BY DEF Coded, Placed
  <2> QED
    BY <2>1
<1>3. currentSymbols' \in Nat
  <2>1. currentSymbols' \in 1..Len(tables')
    BY DEF Scoped, Forest
  <2> QED
    BY <2>1
<1>4. pc' = pc /\ heap' = heap /\ phase' \in Phases
  BY DEF execution, Phases
<1>5. Typed'
  BY <1>1, <1>2, <1>3, <1>4 DEF Typed, Inv
<1>6. Executing'
  BY <1>4 DEF Executing, Inv
<1> QED
  BY <1>5, <1>6 DEF Inv

LEMMA Visited ==
  ASSUME Inv, NEW kind \in Kinds, Visit(kind)
  PROVE  /\ program' \in Seq(Kinds) /\ Len(program) \in Nat /\ Len(program') = Len(program) + 1
         /\ Len(program') \in Nat /\ Len(program) <= Len(program')
         /\ phase \in {"program", "tests"} /\ phase # "running"
<1>1. program \in Seq(Kinds) /\ program' = Append(program, kind) /\ phase \in {"program", "tests"}
  BY DEF Inv, Typed, Visit
<1>2. /\ Append(program, kind) \in Seq(Kinds) /\ Len(Append(program, kind)) = Len(program) + 1
      /\ Len(program) \in Nat
  <2>1. program \in Seq(Kinds) /\ kind \in Kinds
    BY <1>1
  <2> HIDE DEF Kinds
  <2> QED
    BY <2>1, Added, LenProperties
<1> QED
  BY <1>1, <1>2

LEMMA Shut ==
  ASSUME Inv, phase \in {"program", "tests"}, program' = Append(program, "close")
  PROVE  /\ program' \in Seq(Kinds) /\ Len(program) \in Nat
         /\ Len(program') \in Nat /\ Len(program) <= Len(program') /\ phase # "running"
<1>1. program \in Seq(Kinds) /\ "close" \in Kinds
  BY DEF Inv, Typed, Kinds
<1>2. /\ Append(program, "close") \in Seq(Kinds)
      /\ Len(Append(program, "close")) = Len(program) + 1 /\ Len(program) \in Nat
  BY <1>1, Added, LenProperties
<1> QED
  BY <1>2

(* Instructions that are neither allocations nor jumps.                    *)
LEMMA Emits ==
  ASSUME Inv, NEW kind \in Kinds, Visit(kind),
         NEW is \in Seq(Instructions), is # <<>>,
         \A m \in DOMAIN is :
           is[m].op \in {"other", "store"} \/ (exit # 0 /\ is[m] = Br(exit)),
         Emit(is), UNCHANGED <<visits, phase, scopes, context, execution>>
  PROVE  Inv'
<1>1. Typed /\ Coded /\ Scoped
  BY DEF Inv
<1>2. /\ blocks' = Inserted(blocks, insert, is) /\ functions' = functions /\ insert' = insert
      /\ exit' = exit /\ InsideFunction' = InsideFunction
      /\ tables' = tables /\ currentSymbols' = currentSymbols /\ visits' = visits
      /\ phase' = phase /\ UNCHANGED execution
  BY DEF Emit, scopes, context
<1>3. Quiet /\ Coded'
  BY <1>1, <1>2, EmitCoded
<1>4. /\ program' \in Seq(Kinds) /\ Len(program') \in Nat /\ Len(program) <= Len(program')
      /\ phase \in {"program", "tests"} /\ phase # "running"
  BY Visited
<1>5. Scoped'
  BY <1>1, <1>2, <1>3, <1>4, ScopesKept
<1>6. /\ tables' \in Seq(TableSet) /\ visits' \in Seq(FrameSet) /\ InsideFunction' \in BOOLEAN
      /\ phase' \in {"program", "tests", "entry", "undefined", "threw"} /\ Grown
  BY <1>1, <1>2, <1>3, <1>4 DEF Typed, Quiet
<1> QED
  BY <1>2, <1>3, <1>4, <1>5, <1>6, Compiles

LEMMA OtherOnly ==
  /\ <<Other>> \in Seq(Instructions) /\ <<Other>> # <<>>
  /\ \A m \in DOMAIN <<Other>> : <<Other>>[m].op \in {"other", "store"}
<1>1. Other \in Instructions /\ Other.op = "other"
  BY DEF Other, Instruction, Instructions, Operations
<1>2. <<Other>> \in Seq(Instructions) /\ <<Other>> # <<>> /\ DOMAIN <<Other>> = {1}
      /\ <<Other>>[1] = Other
  BY <1>1
<1> QED
  BY <1>1, <1>2

(* Nothing but the program and the phase change.                           *)
LEMMA Passes ==
  ASSUME Inv, phase # "running", phase' \in {"program", "tests", "entry", "undefined", "threw"},
         program' \in Seq(Kinds), Len(program') \in Nat, Len(program) <= Len(program'),
         UNCHANGED <<visits, scopes, code, context, execution>>
  PROVE  Inv'
<1>1. Typed /\ Coded /\ Scoped
  BY DEF Inv
<1>2. /\ functions' = functions /\ blocks' = blocks /\ insert' = insert
      /\ exit' = exit /\ InsideFunction' = InsideFunction
      /\ tables' = tables /\ currentSymbols' = currentSymbols /\ visits' = visits
      /\ UNCHANGED execution
  BY DEF scopes, code, context
<1>3. Quiet /\ Coded'
  BY <1>1, <1>2, CodeKept
<1>4. Scoped'
  BY <1>1, <1>2, <1>3, ScopesKept
<1>5. /\ tables' \in Seq(TableSet) /\ visits' \in Seq(FrameSet) /\ InsideFunction' \in BOOLEAN
      /\ Grown
  BY <1>1, <1>2, <1>3 DEF Typed, Quiet
<1> QED
  BY <1>2, <1>3, <1>4, <1>5, Compiles

LEMMA LetInv ==
  ASSUME Inv, Let
  PROVE  Inv'
<1>1. "let" \in Kinds /\ Visit("let") /\ UNCHANGED <<visits, phase, scopes, context, execution>>
  BY DEF Let, Kinds, Leaves
<1>2. CASE InsideFunction
  <2>1. Emit(<<Other>>)
    BY <1>2 DEF Let
  <2> QED
    BY <1>1, <2>1, OtherOnly, Emits
<1>3. CASE ~ InsideFunction
  <2>1. UNCHANGED code
    BY <1>3 DEF Let
  <2>2. /\ program' \in Seq(Kinds) /\ Len(program') \in Nat /\ Len(program) <= Len(program')
        /\ phase \in {"program", "tests"} /\ phase # "running" /\ phase' = phase
    BY <1>1, Visited
  <2> QED
    BY <1>1, <2>1, <2>2, Passes
<1> QED
  BY <1>2, <1>3 DEF Inv, Typed

LEMMA LetStringInv ==
  ASSUME Inv, LetString
  PROVE  Inv'
<1>1. /\ "let string" \in Kinds /\ Visit("let string")
      /\ UNCHANGED <<visits, phase, scopes, context, execution>>
  BY DEF LetString, Kinds, Leaves
<1>2. CASE InsideFunction
  <2>1. Emit(<<Other>>)
    BY <1>2 DEF LetString
  <2> QED
    BY <1>1, <2>1, OtherOnly, Emits
<1>3. CASE ~ InsideFunction
  <2>1. UNCHANGED code
    BY <1>3 DEF LetString
  <2>2. /\ program' \in Seq(Kinds) /\ Len(program') \in Nat /\ Len(program) <= Len(program')
        /\ phase \in {"program", "tests"} /\ phase # "running" /\ phase' = phase
    BY <1>1, Visited
  <2> QED
    BY <1>1, <2>1, <2>2, Passes
<1> QED
  BY <1>2, <1>3 DEF Inv, Typed

LEMMA LetCallInv ==
  ASSUME Inv, LetCall
  PROVE  Inv'
<1>1. /\ "let call" \in Kinds /\ Visit("let call") /\ Emit(<<Other>>)
      /\ UNCHANGED <<visits, phase, scopes, context, execution>>
  BY DEF LetCall, Kinds, Leaves
<1> QED
  BY <1>1, OtherOnly, Emits

LEMMA PrintInv ==
  ASSUME Inv, PrintValues
  PROVE  Inv'
<1>1. /\ "print" \in Kinds /\ Visit("print") /\ Emit(<<Other>>)
      /\ UNCHANGED <<visits, phase, scopes, context, execution>>
  BY DEF PrintValues, Kinds, Leaves
<1> QED
  BY <1>1, OtherOnly, Emits

(* What a return may return: allocations are numbers.                     *)
LEMMA ValuesAreSets ==
  ASSUME Inv, NEW value \in Values
  PROVE  value \in SUBSET Nat
<1>1. \A t \in DOMAIN tables : ToSet(tables[t].resources) \in SUBSET Nat
  <2>1. ASSUME NEW t \in DOMAIN tables, NEW k \in DOMAIN tables[t].resources
        PROVE  tables[t].resources[k] \in Nat
    <3>1. tables[t].resources \in Seq(Nat)
      BY TableNumbers DEF Inv, Scoped
    <3> QED
      BY <3>1, Elements
  <2> QED
    BY <2>1 DEF ToSet
<1>2. \A t \in {currentSymbols} \cup {visits[k].old : k \in DOMAIN visits} : t \in DOMAIN tables
  BY TableNumbers DEF Inv, Scoped, Forest
<1>3. Visible \in SUBSET Nat
  BY <1>1, <1>2 DEF Visible
<1> QED
  BY <1>3 DEF Values

LEMMA ReturnInv ==
  ASSUME Inv, Return
  PROVE  Inv'
<1>1. /\ "return" \in Kinds /\ Visit("return") /\ exit # 0
      /\ UNCHANGED <<visits, phase, scopes, context, execution>>
  BY DEF Return, Kinds, Leaves
<1>2. PICK value \in Values : Emit(<<Instruction("store", value), Br(exit)>>)
  BY DEF Return
<1>3. value \in SUBSET Nat
  BY <1>2, ValuesAreSets
<1> DEFINE store == Instruction("store", value)
           is == <<store, Br(exit)>>
<1>4. /\ store \in Instructions /\ store.op = "store" /\ Br(exit) \in Instructions
  BY <1>3 DEF Instruction, Instructions, Operations, Br, Inv, Typed
<1> HIDE DEF store
<1>5. /\ is \in Seq(Instructions) /\ is # <<>> /\ DOMAIN is = {1, 2}
      /\ is[1] = store /\ is[2] = Br(exit)
  BY <1>4
<1>6. Emit(is)
  BY <1>2 DEF store
<1> HIDE DEF is
<1>7. \A m \in DOMAIN is : is[m].op \in {"other", "store"} \/ (exit # 0 /\ is[m] = Br(exit))
  BY <1>1, <1>4, <1>5
<1> QED
  BY <1>1, <1>5, <1>6, <1>7, Emits

LEMMA LetLargeInv ==
  ASSUME Inv, LetLarge
  PROVE  Inv'
<1>1. /\ "let large" \in Kinds /\ Visit("let large")
      /\ visits' = visits /\ phase' = phase /\ currentSymbols' = currentSymbols
      /\ exit' = exit /\ InsideFunction' = InsideFunction /\ UNCHANGED execution
  BY DEF LetLarge, Kinds, Leaves, context
<1>2. /\ program' \in Seq(Kinds) /\ Len(program') \in Nat /\ Len(program) <= Len(program')
      /\ phase \in {"program", "tests"} /\ phase # "running" /\ phase' = phase
      /\ Len(program') = Len(program) + 1 /\ Len(program) \in Nat
  BY <1>1, Visited
<1>3. Typed /\ Coded /\ Scoped
  BY DEF Inv
<1>4. CASE InsideFunction
  <2>1. PICK v : v = Len(program) + 1
    OBVIOUS
  <2>2. /\ Emit(<<Instruction("malloc", {v})>>)
        /\ tables' = [tables EXCEPT ![currentSymbols].resources = Append(@, v)]
    BY <1>4, <2>1 DEF LetLarge
  <2>3. PICK is : is = <<Instruction("malloc", {v})>>
    OBVIOUS
  <2>4. /\ blocks' = Inserted(blocks, insert, is) /\ functions' = functions /\ insert' = insert
       
    BY <2>2, <2>3 DEF Emit
  <2>5. exit # 0 /\ v \in Nat
    BY <1>2, <1>3, <1>4, <2>1 DEF Coded, Placed
  <2>6. Grown /\ Coded' /\ Memory(Len(functions))' = Memory(Len(functions)) \cup {v}
    BY <1>1, <1>3, <2>3, <2>4, <2>5, EmitMalloc DEF Allocating
  <2>7. Registering(v)
    BY <1>3, <2>1, <2>2, RegistersOne
  <2>8. Scoped'
    <3>1. Len(program') = v
      BY <1>2, <2>1
    <3> QED
      BY <1>1, <1>3, <2>4, <2>5, <2>6, <2>7, <3>1, Registers
  <2>9. tables' \in Seq(TableSet)
    BY <2>7 DEF Registering
  <2> QED
    BY <1>1, <1>2, <1>3, <2>4, <2>6, <2>8, <2>9, Compiles DEF Typed
<1>5. CASE ~ InsideFunction
  <2>1. UNCHANGED code /\ tables' = tables
    BY <1>5 DEF LetLarge
  <2> QED
    BY <1>1, <1>2, <2>1, Passes DEF scopes, context
<1> QED
  BY <1>3, <1>4, <1>5 DEF Typed

LEMMA AssertInv ==
  ASSUME Inv, AssertEqual
  PROVE  Inv'
<1>1. /\ "assert" \in Kinds /\ Visit("assert") /\ insert # 0
      /\ visits' = visits /\ phase' = phase /\ tables' = tables
      /\ currentSymbols' = currentSymbols /\ functions' = functions
      /\ exit' = exit /\ InsideFunction' = InsideFunction /\ UNCHANGED execution
  BY DEF AssertEqual, Kinds, Leaves, context, scopes
<1>2. /\ program' \in Seq(Kinds) /\ Len(program') \in Nat /\ Len(program) <= Len(program')
      /\ phase \in {"program", "tests"} /\ phase # "running"
  BY <1>1, Visited
<1>3. Typed /\ Coded /\ Scoped
  BY DEF Inv
<1>4. PICK fail, cont, f :
        fail = Len(blocks) + 1 /\ cont = Len(blocks) + 2 /\ f = blocks[insert].function
  OBVIOUS
<1>5. /\ blocks' = Inserted(blocks, insert, <<Instruction("br", {fail, cont})>>)
                     \o <<Failing(f, cont), NewBlock(f)>>
      /\ insert' = cont
  BY <1>4 DEF AssertEqual, Failing
<1>6. PICK ext : Asserts(fail, cont, ext)
  BY <1>1, <1>3, <1>4, <1>5, AssertWrites DEF AssertBranches
<1>7. Quiet /\ Coded'
  BY <1>1, <1>3, <1>5, <1>6, AssertCoded
<1>8. Scoped'
  BY <1>1, <1>2, <1>3, <1>7, ScopesKept
<1> QED
  BY <1>1, <1>2, <1>3, <1>7, <1>8, Compiles DEF Typed, Quiet

LEMMA AssertOtherInv ==
  ASSUME Inv, AssertOther
  PROVE  Inv'
<1>1. "assert other" \in Kinds /\ Visit("assert other") /\ phase' = "threw"
      /\ UNCHANGED <<visits, scopes, code, context, execution>>
  BY DEF AssertOther, Kinds, Leaves
<1> QED
  BY <1>1, Visited, Passes

LEMMA IfInv ==
  ASSUME Inv, If
  PROVE  Inv'
<1>1. "if" \in Kinds /\ Visit("if")
      /\ UNCHANGED <<visits, phase, scopes, code, context, execution>>
  BY DEF If, Kinds, Leaves
<1>2. /\ program' \in Seq(Kinds) /\ Len(program') \in Nat /\ Len(program) <= Len(program')
      /\ phase \in {"program", "tests"} /\ phase # "running" /\ phase' = phase
  BY <1>1, Visited
<1> QED
  BY <1>1, <1>2, Passes

LEMMA UndefinedInv ==
  ASSUME Inv, Undefined
  PROVE  Inv'
<1>1. phase' = "undefined" /\ UNCHANGED <<visits, scopes, code, context, execution>>
  BY DEF Undefined
<1>2. /\ program' \in Seq(Kinds) /\ Len(program') \in Nat /\ Len(program) <= Len(program')
      /\ phase # "running"
  <2>1. {"let string", "let call", "print", "assert", "return"} \in SUBSET Kinds
    BY DEF Kinds, Leaves
  <2>2. ASSUME NEW kind \in {"let string", "let call", "print", "assert", "return"}, Visit(kind)
        PROVE  /\ program' \in Seq(Kinds) /\ Len(program') \in Nat
               /\ Len(program) <= Len(program') /\ phase # "running"
    BY <2>1, <2>2, Visited
  <2>3. \/ \E kind \in {"let string", "let call", "print", "assert", "return"} : Visit(kind)
        \/ phase \in {"program", "tests"} /\ program' = Append(program, "close")
    BY DEF Undefined
  <2> QED
    BY <2>2, <2>3, Shut
<1> QED
  BY <1>1, <1>2, Passes

LEMMA BeginBlockInv ==
  ASSUME Inv, BeginBlock
  PROVE  Inv'
<1>1. /\ "block" \in Kinds /\ "block" \in Bodies /\ Visit("block") /\ Open("block")
      /\ EnterScopes(1) /\ phase' = phase /\ functions' = functions /\ blocks' = blocks
      /\ insert' = insert
      /\ exit' = exit /\ InsideFunction' = InsideFunction /\ UNCHANGED execution
  BY DEF BeginBlock, Kinds, Bodies, context, code
<1>2. /\ program' \in Seq(Kinds) /\ Len(program') \in Nat /\ Len(program) <= Len(program')
      /\ phase \in {"program", "tests"} /\ phase # "running"
  BY <1>1, Visited
<1>3. Typed /\ Coded /\ Scoped
  BY DEF Inv
<1>4. Quiet /\ Coded'
  BY <1>1, <1>3, CodeKept
<1>5. Nests(1) /\ Pushed("block")
  BY <1>1, <1>3, EntersTables, OpenPushes DEF Scoped
<1>6. Scoped'
  BY <1>1, <1>2, <1>3, <1>4, <1>5, BlockOpens
<1>7. visits' \in Seq(FrameSet) /\ tables' \in Seq(TableSet)
  BY <1>5 DEF Nests, Pushed
<1> QED
  BY <1>1, <1>2, <1>3, <1>4, <1>6, <1>7, Compiles DEF Typed, Quiet

LEMMA EndBlockInv ==
  ASSUME Inv, EndBlock
  PROVE  Inv'
<1>1. /\ Close("block") /\ currentSymbols' = Node.old /\ tables' = tables
      /\ phase' = phase /\ functions' = functions /\ blocks' = blocks
      /\ insert' = insert
      /\ exit' = exit /\ InsideFunction' = InsideFunction /\ UNCHANGED execution
      /\ phase \in {"program", "tests"} /\ program' = Append(program, "close")
  BY DEF EndBlock, Close, context, code
<1>2. /\ program' \in Seq(Kinds) /\ Len(program') \in Nat /\ Len(program) <= Len(program')
      /\ phase # "running"
  BY <1>1, Shut
<1>3. Typed /\ Coded /\ Scoped
  BY DEF Inv
<1>4. Quiet /\ Coded'
  BY <1>1, <1>3, CodeKept
<1>5. Popped("block")
  BY <1>1, <1>3, ClosePops
<1>6. Scoped'
  <2>1. PICK kind : kind = "block"
    OBVIOUS
  <2>2. Popped(kind) /\ exit' = IF kind = "block" THEN exit ELSE 0
    BY <1>1, <1>5, <2>1
  <2> QED
    BY <1>1, <1>2, <1>3, <1>4, <2>2, ScopeCloses
<1>7. visits' \in Seq(FrameSet)
  BY <1>5 DEF Popped
<1> QED
  BY <1>1, <1>2, <1>3, <1>4, <1>6, <1>7, Compiles DEF Typed, Quiet

LEMMA BeginFunctionInv ==
  ASSUME Inv, BeginFunction
  PROVE  Inv'
<1>1. /\ "func" \in Kinds /\ "func" \in Bodies /\ Visit("func") /\ Open("func")
      /\ EnterScopes(2) /\ phase' = phase
      /\ InsideFunction' = TRUE /\ UNCHANGED execution
  BY DEF BeginFunction, Kinds, Bodies
<1>2. /\ program' \in Seq(Kinds) /\ Len(program') \in Nat /\ Len(program) <= Len(program')
      /\ phase \in {"program", "tests"} /\ phase # "running"
  BY <1>1, Visited
<1>3. Typed /\ Coded /\ Scoped
  BY DEF Inv
<1>4. PICK f, entry : f = Len(functions) + 1 /\ entry = Len(blocks) + 1
  OBVIOUS
<1>5. PICK name \in FunctionNames : Create(name, entry)
  BY <1>4 DEF BeginFunction
<1>6. /\ blocks' = blocks \o <<NewBlock(f), NewBlock(f)>>
      /\ insert' = entry /\ exit' = entry + 1
  BY <1>4 DEF BeginFunction
<1>7. Quiet /\ Coded' /\ exit' # 0 /\ Memory(Len(functions))' = {}
  BY <1>1, <1>3, <1>4, <1>5, <1>6, FunctionCoded
<1>8. Nests(2) /\ Pushed("func")
  BY <1>1, <1>3, EntersTables, OpenPushes DEF Scoped
<1>9. Scoped'
  BY <1>2, <1>3, <1>7, <1>8, FunctionOpens DEF Quiet
<1>10. visits' \in Seq(FrameSet) /\ tables' \in Seq(TableSet)
  BY <1>8 DEF Nests, Pushed
<1>11. Grown
  BY <1>7 DEF Quiet
<1>12. InsideFunction' \in BOOLEAN
  BY <1>1, <1>3 DEF Typed
<1> QED
  BY <1>1, <1>2, <1>7, <1>9, <1>10, <1>11, <1>12, Compiles

LEMMA EndFunctionInv ==
  ASSUME Inv, EndFunction
  PROVE  Inv'
<1>1. /\ Close("func") /\ currentSymbols' = Node.old /\ tables' = tables /\ exit # 0
      /\ phase' = phase /\ functions' = functions
      /\ insert' = exit /\ exit' = 0 /\ InsideFunction' = FALSE /\ UNCHANGED execution
      /\ phase \in {"program", "tests"} /\ program' = Append(program, "close")
  BY DEF EndFunction, Close
<1>2. /\ program' \in Seq(Kinds) /\ Len(program') \in Nat /\ Len(program) <= Len(program')
      /\ phase # "running"
  BY <1>1, Shut
<1>3. Typed /\ Coded /\ Scoped
  BY DEF Inv
<1>4. Popped("func")
  BY <1>1, <1>3, ClosePops
<1>5. PICK k : k = Len(visits)
  OBVIOUS
<1>6. Opener(k)
  BY <1>1, <1>3, <1>4, <1>5, FunctionCloses DEF Scoped
<1>7. PICK c : c = Cleaning(visits[k].own)
  OBVIOUS
<1>8. FreesOnly(c) /\ Made(c, "free") = Memory(Len(functions))
  BY <1>1, <1>3, <1>6, <1>7, CleanupOfFunction DEF Scoped
<1>9. blocks' = Inserted(FallThrough, exit, Append(c, Ret))
  BY <1>5, <1>7 DEF EndFunction, Cleaning, JoinAll, Node
<1>10. Quiet /\ Coded'
  BY <1>1, <1>3, <1>8, <1>9, FunctionEnds
<1>11. Scoped'
  <2>1. PICK kind : kind = "func"
    OBVIOUS
  <2>2. Popped(kind) /\ exit' = IF kind = "block" THEN exit ELSE 0
    BY <1>1, <1>4, <2>1
  <2> QED
    BY <1>1, <1>2, <1>3, <1>10, <2>2, ScopeCloses
<1>12. visits' \in Seq(FrameSet)
  BY <1>4 DEF Popped
<1>13. Grown /\ tables' \in Seq(TableSet) /\ InsideFunction' \in BOOLEAN
  BY <1>1, <1>3, <1>10 DEF Typed, Quiet
<1> QED
  BY <1>1, <1>2, <1>10, <1>11, <1>12, <1>13, Compiles

(* Tests are outside of functions.                                         *)
LEMMA NothingOpen ==
  ASSUME Inv, visits = <<>>
  PROVE  exit = 0
<1>1. DOMAIN visits = {}
  OBVIOUS
<1> QED
  BY <1>1 DEF Inv, Scoped, Enclosed

LEMMA BeginTestInv ==
  ASSUME Inv, BeginTest
  PROVE  Inv'
<1>1. /\ "test" \in Kinds /\ "test" \in Bodies /\ Visit("test") /\ Open("test")
      /\ EnterScopes(1) /\ phase' = phase
      /\ exit' = exit /\ InsideFunction' = InsideFunction /\ UNCHANGED execution
  BY DEF BeginTest, Kinds, Bodies, context
<1>2. /\ program' \in Seq(Kinds) /\ Len(program') \in Nat /\ Len(program) <= Len(program')
      /\ phase \in {"program", "tests"} /\ phase # "running"
  BY <1>1, Visited
<1>3. Typed /\ Coded /\ Scoped
  BY DEF Inv
<1>4. exit = 0
  <2>1. visits = <<>>
    BY <1>1, <1>2 DEF Visit
  <2> QED
    BY <2>1, NothingOpen
<1>5. PICK f, entry : f = Len(functions) + 1 /\ entry = Len(blocks) + 1
  OBVIOUS
<1>6. PICK name \in TestNames : Create(name, entry)
  BY <1>5 DEF BeginTest
<1>7. blocks' = Append(blocks, NewBlock(f)) /\ insert' = entry
  BY <1>5 DEF BeginTest
<1>8. Quiet /\ Coded'
  BY <1>1, <1>3, <1>4, <1>5, <1>6, <1>7, TestCoded
<1>9. Nests(1) /\ Pushed("test")
  BY <1>1, <1>3, EntersTables, OpenPushes DEF Scoped
<1>10. Scoped'
  BY <1>1, <1>2, <1>3, <1>4, <1>8, <1>9, TestOpens DEF Quiet
<1>11. visits' \in Seq(FrameSet) /\ tables' \in Seq(TableSet)
  BY <1>9 DEF Nests, Pushed
<1>12. Grown /\ InsideFunction' \in BOOLEAN
  BY <1>1, <1>3, <1>8 DEF Typed, Quiet
<1> QED
  BY <1>1, <1>2, <1>8, <1>10, <1>11, <1>12, Compiles

LEMMA EndTestInv ==
  ASSUME Inv, EndTest
  PROVE  Inv'
<1>1. /\ Close("test") /\ currentSymbols' = Node.old /\ tables' = tables
      /\ phase' = phase /\ functions' = functions
      /\ blocks' = Inserted(blocks, insert, <<Ret>>)
      /\ insert' = IF Node.oldInsert # 0 THEN Node.oldInsert ELSE insert
      /\ exit' = exit /\ InsideFunction' = InsideFunction /\ UNCHANGED execution
      /\ phase \in {"program", "tests"} /\ program' = Append(program, "close")
  BY DEF EndTest, Close, context
<1>2. /\ program' \in Seq(Kinds) /\ Len(program') \in Nat /\ Len(program) <= Len(program')
      /\ phase # "running"
  BY <1>1, Shut
<1>3. Typed /\ Coded /\ Scoped
  BY DEF Inv
<1>4. Popped("test")
  BY <1>1, <1>3, ClosePops
<1>5. exit = 0
  BY <1>3, <1>4, FunctionCloses DEF Scoped
<1>6. PICK j : j = IF Node.oldInsert # 0 THEN Node.oldInsert ELSE insert
  OBVIOUS
<1>7. j \in 0..Len(blocks) /\ Refused(j)
  <2>1. Node.oldInsert \in 0..Len(blocks) /\ Refused(Node.oldInsert)
    BY <1>3, <1>4 DEF Popped, Node, Scoped, Frames
  <2>2. insert \in 0..Len(blocks) /\ Refused(insert)
    BY <1>3, <1>5 DEF Coded, Placed, Rested
  <2> QED
    BY <1>6, <2>1, <2>2
<1>8. Quiet /\ Coded'
  BY <1>1, <1>3, <1>5, <1>6, <1>7, TestEnds
<1>9. Scoped'
  <2>1. PICK kind : kind = "test"
    OBVIOUS
  <2>2. Popped(kind) /\ exit' = IF kind = "block" THEN exit ELSE 0
    BY <1>1, <1>4, <1>5, <2>1
  <2> QED
    BY <1>1, <1>2, <1>3, <1>8, <2>2, ScopeCloses
<1>10. visits' \in Seq(FrameSet)
  BY <1>4 DEF Popped
<1>11. /\ Grown /\ tables' \in Seq(TableSet)
       /\ InsideFunction' \in BOOLEAN
  BY <1>1, <1>3, <1>8 DEF Typed, Quiet
<1> QED
  BY <1>1, <1>2, <1>8, <1>9, <1>10, <1>11, Compiles

LEMMA StartTestsInv ==
  ASSUME Inv, StartTests
  PROVE  Inv'
<1>1. /\ program' = program /\ visits' = visits /\ visits = <<>> /\ phase = "program"
      /\ phase' = "tests" /\ currentSymbols' = 1 /\ tables' = tables
      /\ functions' = functions /\ blocks' = blocks /\ insert' = insert
      /\ exit' = exit /\ InsideFunction' = InsideFunction /\ UNCHANGED execution
  BY DEF StartTests, tree, code, context
<1>2. Typed /\ Coded /\ Scoped /\ exit = 0
  BY <1>1, NothingOpen DEF Inv
<1>3. Quiet /\ Coded'
  BY <1>1, <1>2, CodeKept
<1>4. Scoped'
  <2>1. Forest'
    <3>1. currentSymbols' \in 1..Len(tables')
      BY <1>1, <1>2, TableNumbers DEF Scoped, Forest
    <3> QED
      BY <1>1, <1>2, <3>1 DEF Scoped, Forest
  <2>2. Frames'
    BY <1>1, <1>2, <1>3, FramesKept DEF Scoped, Quiet
  <2>3. Registered'
    BY <1>1, <1>2 DEF Scoped, Registered
  <2> QED
    BY <1>1, <1>2, <2>1, <2>2, <2>3 DEF Scoped, Enclosed, Owned
<1>5. /\ Grown /\ tables' \in Seq(TableSet)
      /\ InsideFunction' \in BOOLEAN /\ program' \in Seq(Kinds) /\ visits' \in Seq(FrameSet)
  BY <1>1, <1>2, <1>3 DEF Typed, Quiet
<1> QED
  BY <1>1, <1>3, <1>4, <1>5, Compiles

LEMMA FinishTestsInv ==
  ASSUME Inv, FinishTests
  PROVE  Inv'
<1>1. /\ program' = program /\ visits' = visits /\ visits = <<>> /\ phase = "tests"
      /\ phase' = "entry" /\ currentSymbols' = currentSymbols /\ tables' = tables
     
      /\ exit' = exit /\ InsideFunction' = InsideFunction /\ UNCHANGED execution
  BY DEF FinishTests, tree, scopes, context
<1>2. Typed /\ Coded /\ Scoped /\ exit = 0
  BY <1>1, NothingOpen DEF Inv
<1>3. PICK f, entry : f = Len(functions) + 1 /\ entry = Len(blocks) + 1
  OBVIOUS
<1>4. /\ Create("main", entry) /\ insert' = entry
      /\ blocks' = Append(blocks, [NewBlock(f) EXCEPT !.code = Entrypoint(testNames)])
  BY <1>3 DEF FinishTests
<1>5. Quiet /\ Coded'
  BY <1>1, <1>2, <1>3, <1>4, EntryCoded
<1>6. Scoped'
  <2>1. Forest'
    BY <1>1, <1>2 DEF Scoped, Forest
  <2>2. Frames'
    BY <1>1, <1>2, <1>5, FramesKept DEF Scoped, Quiet
  <2>3. Registered'
    BY <1>1, <1>2 DEF Scoped, Registered
  <2> QED
    BY <1>1, <1>2, <2>1, <2>2, <2>3 DEF Scoped, Enclosed, Owned
<1>7. /\ Grown /\ tables' \in Seq(TableSet)
      /\ InsideFunction' \in BOOLEAN /\ program' \in Seq(Kinds) /\ visits' \in Seq(FrameSet)
  BY <1>1, <1>2, <1>5 DEF Typed, Quiet
<1> QED
  BY <1>1, <1>5, <1>6, <1>7, Compiles

-----------------------------------------------------------------------------
(***************************************************************************)
(* The verifier, and the execution of what it passes.                      *)
(***************************************************************************)
(* Everything but the phase and the execution stays.                       *)
LEMMA Stays ==
  ASSUME Inv, UNCHANGED <<tree, scopes, code, context>>,
         phase' \in Phases, pc' \in [block : Nat, next : Nat],
         heap' \in [live : SUBSET Nat, freed : SUBSET Nat]
  PROVE  Typed' /\ Coded' /\ Scoped'
<1>1. Typed /\ Coded /\ Scoped
  BY DEF Inv
<1>2. /\ functions' = functions /\ blocks' = blocks /\ insert' = insert
      /\ exit' = exit /\ InsideFunction' = InsideFunction
      /\ tables' = tables /\ currentSymbols' = currentSymbols /\ visits' = visits
      /\ program' = program
  BY DEF tree, scopes, code, context
<1>3. Quiet /\ Coded'
  BY <1>1, <1>2, CodeKept
<1>4. Len(program') \in Nat /\ Len(program) <= Len(program')
  <2>1. Len(program) \in Nat
    BY <1>1, LenProperties DEF Typed
  <2> QED
    BY <1>2, <2>1
<1>5. Scoped'
  BY <1>1, <1>2, <1>3, <1>4, ScopesKept
<1>6. Typed'
  BY <1>1, <1>2 DEF Typed
<1> QED
  BY <1>3, <1>5, <1>6

(* A function whose exit block is still empty is refused.                  *)
LEMMA VerifyInv ==
  ASSUME Inv, phase # "running", verifyModule, UNCHANGED <<tree, scopes, code, context, execution>>
  PROVE  Inv'
<1>1. Typed /\ Coded /\ Scoped /\ Executing
  BY DEF Inv
<1>2. /\ phase' \in {"verified", "malformed"} /\ pc' = pc /\ heap' = heap
      /\ blocks' = blocks /\ exit' = exit
      /\ phase' = "verified" => \A b \in DOMAIN blocks : WellFormed(b)
  BY DEF verifyModule, execution, code, context
<1>3. Typed' /\ Coded' /\ Scoped'
  <2>1. UNCHANGED <<tree, scopes, code, context>>
    OBVIOUS
  <2>2. /\ phase' \in Phases /\ pc' \in [block : Nat, next : Nat]
        /\ heap' \in [live : SUBSET Nat, freed : SUBSET Nat]
    BY <1>1, <1>2 DEF Typed, Phases
  <2> QED
    BY <2>1, <2>2, Stays
<1>4. ASSUME phase' = "verified" PROVE exit = 0
  <2>1. ASSUME exit # 0 PROVE FALSE
    <3>1. exit \in DOMAIN blocks
      BY <1>1, <2>1, ToExit
    <3>2. blocks[exit].code = <<>>
      BY <1>1, <2>1 DEF Coded, Generating
    <3> QED
      BY <1>2, <1>4, <3>1, <3>2 DEF WellFormed, HasTerminator
  <2> QED
    BY <2>1
<1>5. \A b : WellFormed(b)' = WellFormed(b)
  BY <1>2 DEF WellFormed, HasTerminator
<1>6. Executing'
  BY <1>1, <1>2, <1>4, <1>5 DEF Executing
<1> QED
  BY <1>3, <1>6 DEF Inv

LEMMA FinishProgramInv ==
  ASSUME Inv, FinishProgram
  PROVE  Inv'
BY VerifyInv DEF FinishProgram

LEMMA VerifyTestsInv ==
  ASSUME Inv, VerifyTests
  PROVE  Inv'
BY VerifyInv DEF VerifyTests

(* What the verifier has passed has no code after a terminator.            *)
LEMMA Verified ==
  ASSUME Inv, phase \in {"verified", "running", "returned"}
  PROVE  /\ Typed /\ Coded /\ Placed /\ Allocated /\ Cleaned /\ exit = 0
         /\ \A b \in DOMAIN blocks :
              /\ Len(blocks[b].code) \in DOMAIN blocks[b].code /\ Len(blocks[b].code) \in Nat
              /\ DOMAIN blocks[b].code = 1..Len(blocks[b].code)
              /\ \A k \in DOMAIN blocks[b].code :
                   blocks[b].code[k].op \in Terminators <=> k = Len(blocks[b].code)
<1>1. Typed /\ Coded /\ Placed /\ exit = 0 /\ \A b \in DOMAIN blocks : WellFormed(b)
  BY DEF Inv, Coded, Executing
<1>2. ASSUME NEW b \in DOMAIN blocks
      PROVE  /\ Len(blocks[b].code) \in DOMAIN blocks[b].code /\ Len(blocks[b].code) \in Nat
             /\ DOMAIN blocks[b].code = 1..Len(blocks[b].code)
             /\ \A k \in DOMAIN blocks[b].code :
                  blocks[b].code[k].op \in Terminators <=> k = Len(blocks[b].code)
  <2>1. PICK is : is = blocks[b].code
    OBVIOUS
  <2>2. is \in Seq(Instructions) /\ Len(is) \in Nat /\ DOMAIN is = 1..Len(is)
    BY <1>1, <2>1, CodeNumbers
  <2>3. is # <<>> /\ Last(is).op \in Terminators
    BY <1>1, <2>1 DEF WellFormed, HasTerminator
  <2>4. Len(is) \in DOMAIN is /\ is[Len(is)].op \in Terminators
    BY <2>2, <2>3, EmptySeq DEF Last
  <2>5. \A k \in 1..(Len(is) - 1) : is[k].op \notin Terminators
    BY <1>1, <2>1 DEF WellFormed
  <2>6. \A k \in DOMAIN is : k # Len(is) => k \in 1..(Len(is) - 1)
    BY <2>2
  <2> QED
    BY <2>1, <2>2, <2>4, <2>5, <2>6
<1>3. ~ Broken
  BY <1>2 DEF Broken, Overrun
<1> QED
  BY <1>1, <1>2, <1>3 DEF Coded, Sound

(* Where a function is entered, nothing is held.                           *)
LEMMA EntryHolds ==
  ASSUME Typed, Placed, NEW f \in DOMAIN functions, NEW b, b = functions[f].entry
  PROVE  b \in DOMAIN blocks /\ b \in Nat /\ Held(b, 1) = {}
<1>1. /\ b \in DOMAIN blocks /\ blocks[b].function = f /\ b \in Nat
      /\ DOMAIN blocks[b].code = 1..Len(blocks[b].code)
  BY CodeNumbers DEF Placed
<1>2. ~ IsExit(b)
  BY <1>1 DEF IsExit
<1>3. \A c \in BlocksOf(f) : ~ (c < b)
  <2>1. ASSUME NEW c \in BlocksOf(f) PROVE ~ (c < b)
    <3>1. c \in DOMAIN blocks /\ c \in Nat /\ blocks[c].function = f
      BY CodeNumbers DEF BlocksOf
    <3>2. b <= c
      BY <3>1 DEF Placed
    <3> QED
      BY <1>1, <3>1, <3>2
  <2> QED
    BY <2>1
<1>4. Before(blocks[b].code, "malloc", 1) = {}
  <2>1. \A m \in DOMAIN blocks[b].code : ~ (m < 1)
    BY <1>1
  <2> QED
    BY <2>1 DEF Before
<1> QED
  BY <1>1, <1>2, <1>3, <1>4 DEF Held

LEMMA CodeStays ==
  ASSUME blocks' = blocks, functions' = functions
  PROVE  /\ \A c : WellFormed(c)' = WellFormed(c)
         /\ \A c, n : Held(c, n)' = Held(c, n)
<1>1. \A c : WellFormed(c)' = WellFormed(c)
  BY DEF WellFormed, HasTerminator
<1>2. /\ \A c : IsExit(c)' = IsExit(c) /\ \A g : BlocksOf(g)' = BlocksOf(g)
      /\ \A c : Mallocs(c)' = Mallocs(c)
  BY DEF IsExit, IsFunc, BlocksOf, Mallocs, Made
<1>3. \A g : Memory(g)' = Memory(g)
  BY <1>2 DEF Memory
<1>4. ASSUME NEW c, NEW n PROVE Held(c, n)' = Held(c, n)
  <2>1. PICK f : f = blocks[c].function /\ f = blocks'[c].function
    OBVIOUS
  <2>2. /\ IsExit(c)' = IsExit(c) /\ Memory(f)' = Memory(f) /\ BlocksOf(f)' = BlocksOf(f)
        /\ \A d : Mallocs(d)' = Mallocs(d)
        /\ \A op : Before(blocks'[c].code, op, n) = Before(blocks[c].code, op, n)
    BY <1>2, <1>3
  <2>3. Held(c, n) =
          IF IsExit(c) THEN Memory(f) \ Before(blocks[c].code, "free", n)
          ELSE (UNION {Mallocs(d) : d \in {e \in BlocksOf(f) : e < c}})
                 \cup Before(blocks[c].code, "malloc", n)
    BY <2>1 DEF Held
  <2>4. Held(c, n)' =
          IF IsExit(c) THEN Memory(f) \ Before(blocks[c].code, "free", n)
          ELSE (UNION {Mallocs(d) : d \in {e \in BlocksOf(f) : e < c}})
                 \cup Before(blocks[c].code, "malloc", n)
    <3>1. Held(c, n)' =
            IF IsExit(c)' THEN Memory(f)' \ Before(blocks'[c].code, "free", n)
            ELSE (UNION {Mallocs(d)' : d \in {e \in BlocksOf(f)' : e < c}})
                   \cup Before(blocks'[c].code, "malloc", n)
      BY <2>1 DEF Held
    <3> QED
      BY <2>2, <3>1
  <2> QED
    BY <2>3, <2>4
<1> QED
  BY <1>1, <1>4

LEMMA ExecuteInv ==
  ASSUME Inv, Execute
  PROVE  Inv'
<1>1. /\ phase = "verified" /\ phase' = "running" /\ heap' = heap
      /\ UNCHANGED <<tree, scopes, code, context>>
  BY DEF Execute
<1>2. PICK f \in DOMAIN functions : pc' = [block |-> functions[f].entry, next |-> 1]
  BY DEF Execute
<1>3. PICK b : b = functions[f].entry
  OBVIOUS
<1>4. /\ Typed /\ Placed /\ exit = 0
      /\ \A c \in DOMAIN blocks : Len(blocks[c].code) \in DOMAIN blocks[c].code
                                  /\ DOMAIN blocks[c].code = 1..Len(blocks[c].code)
                                  /\ Len(blocks[c].code) \in Nat
      /\ \A c \in DOMAIN blocks : WellFormed(c)
      /\ heap.live = {}
  BY <1>1, Verified DEF Inv, Executing
<1>5. b \in DOMAIN blocks /\ b \in Nat /\ Held(b, 1) = {}
  BY <1>3, <1>4, EntryHolds
<1>6. pc' \in [block : Nat, next : Nat] /\ pc'.block = b /\ pc'.next = 1
  BY <1>2, <1>3, <1>5
<1>7. Typed' /\ Coded' /\ Scoped'
  <2>1. phase' \in Phases /\ heap' \in [live : SUBSET Nat, freed : SUBSET Nat]
    BY <1>1, <1>4 DEF Typed, Phases
  <2> QED
    BY <1>1, <1>6, <2>1, Stays
<1>8. /\ blocks' = blocks /\ exit' = exit
      /\ \A c : WellFormed(c)' = WellFormed(c)
      /\ \A c, n : Held(c, n)' = Held(c, n)
  <2>1. blocks' = blocks /\ functions' = functions /\ exit' = exit
    BY <1>1 DEF code, context
  <2> QED
    BY <2>1, CodeStays
<1>9. Executing'
  <2>1. pc'.next \in DOMAIN blocks'[pc'.block].code
    <3>1. 1 \in DOMAIN blocks[b].code
      BY <1>4, <1>5
    <3> QED
      BY <1>6, <1>8, <3>1
  <2>2. heap'.live = Held(pc.block, pc.next)'
    <3>1. Held(b, 1)' = {}
      BY <1>5, <1>8
    <3> QED
      BY <1>1, <1>4, <1>6, <3>1 DEF Held
  <2> QED
    BY <1>1, <1>4, <1>5, <1>6, <1>8, <2>1, <2>2 DEF Executing
<1> QED
  BY <1>7, <1>9 DEF Inv

LEMMA BeforeNext ==
  ASSUME NEW is \in Seq(Instructions), NEW n \in DOMAIN is, NEW op
  PROVE  /\ Before(is, op, n + 1) = Before(is, op, n) \cup IF is[n].op = op THEN is[n].arg ELSE {}
         /\ n = Len(is) /\ is[n].op # op => Before(is, op, n) = Made(is, op)
<1>1. DOMAIN is = 1..Len(is) /\ Len(is) \in Nat /\ n \in Nat
  BY Elements
<1>2. \A m \in DOMAIN is : m < n + 1 <=> m < n \/ m = n
  BY <1>1
<1>3. Before(is, op, n + 1) = Before(is, op, n) \cup IF is[n].op = op THEN is[n].arg ELSE {}
  <2>1. CASE is[n].op = op
    BY <1>2, <2>1 DEF Before
  <2>2. CASE is[n].op # op
    BY <1>2, <2>2 DEF Before
  <2> QED
    BY <2>1, <2>2
<1>4. ASSUME n = Len(is), is[n].op # op PROVE Before(is, op, n) = Made(is, op)
  <2>1. \A m \in DOMAIN is : m < n \/ m = n
    BY <1>1, <1>4
  <2> QED
    BY <1>4, <2>1 DEF Before, Made
<1> QED
  BY <1>3, <1>4

(* What is held after an instruction that goes on to the next.             *)
LEMMA Advances ==
  ASSUME Inv, phase = "running", NEW b, b = pc.block, NEW n, n = pc.next,
         NEW i, i = blocks[b].code[n], i.op \notin Terminators
  PROVE  /\ n + 1 \in DOMAIN blocks[b].code
         /\ Held(b, n + 1) = CASE i.op = "malloc" -> heap.live \cup i.arg
                               [] i.op = "free" -> heap.live \ i.arg
                               [] OTHER -> heap.live
<1>1. /\ Typed /\ Placed /\ Allocated /\ b \in DOMAIN blocks /\ n \in DOMAIN blocks[b].code
      /\ heap.live = Held(b, n)
  BY Verified DEF Inv, Executing
<1>2. PICK is : is = blocks[b].code
  OBVIOUS
<1>3. /\ is \in Seq(Instructions) /\ DOMAIN is = 1..Len(is) /\ Len(is) \in Nat
      /\ n \in DOMAIN is /\ i = is[n] /\ n # Len(is)
  <2>1. is \in Seq(Instructions) /\ DOMAIN is = 1..Len(is) /\ Len(is) \in Nat
    BY <1>1, <1>2, CodeNumbers
  <2>2. n # Len(is)
    <3>1. blocks[b].code[n].op \in Terminators <=> n = Len(blocks[b].code)
      BY <1>1, Verified
    <3> QED
      BY <1>2, <3>1
  <2> QED
    BY <1>1, <1>2, <2>1, <2>2
<1>4. n + 1 \in DOMAIN is
  BY <1>3
<1>5. /\ Before(is, "free", n + 1) = Before(is, "free", n) \cup IF i.op = "free" THEN i.arg ELSE {}
      /\ Before(is, "malloc", n + 1)
           = Before(is, "malloc", n) \cup IF i.op = "malloc" THEN i.arg ELSE {}
  BY <1>3, BeforeNext
<1>6. Allowed(b, i)
  BY <1>1, <1>2, <1>3 DEF Allocated
<1>7. CASE IsExit(b)
  <2>1. i.op # "malloc"
    BY <1>6, <1>7 DEF Allowed
  <2>2. \A m : Held(b, m) = Memory(blocks[b].function) \ Before(is, "free", m)
    BY <1>2, <1>7 DEF Held
  <2>3. CASE i.op = "free"
    <3>1. Held(b, n + 1) = Held(b, n) \ i.arg
      BY <1>5, <2>2, <2>3
    <3> QED
      BY <1>1, <1>2, <1>4, <2>3, <3>1
  <2>4. CASE i.op # "free"
    <3>1. Held(b, n + 1) = Held(b, n)
      BY <1>5, <2>2, <2>4
    <3> QED
      BY <1>1, <1>2, <1>4, <2>1, <2>4, <3>1
  <2> QED
    BY <2>3, <2>4
<1>8. CASE ~ IsExit(b)
  <2>1. i.op # "free"
    BY <1>6, <1>8 DEF Allowed
  <2> DEFINE above == UNION {Mallocs(d) : d \in {c \in BlocksOf(blocks[b].function) : c < b}}
  <2>2. \A m : Held(b, m) = above \cup Before(is, "malloc", m)
    BY <1>2, <1>8 DEF Held
  <2> HIDE DEF above
  <2>3. CASE i.op = "malloc"
    <3>1. Held(b, n + 1) = Held(b, n) \cup i.arg
      BY <1>5, <2>2, <2>3
    <3> QED
      BY <1>1, <1>2, <1>4, <2>3, <3>1
  <2>4. CASE i.op # "malloc"
    <3>1. Held(b, n + 1) = Held(b, n)
      BY <1>5, <2>2, <2>4
    <3> QED
      BY <1>1, <1>2, <1>4, <2>1, <2>4, <3>1
  <2> QED
    BY <2>3, <2>4
<1> QED
  BY <1>7, <1>8

(* The memory held where a block ends.                                     *)
LEMMA HeldAtEnd ==
  ASSUME Inv, phase = "running", NEW b, b = pc.block, NEW n, n = pc.next,
         NEW i, i = blocks[b].code[n], i.op \in Terminators
  PROVE  IF IsExit(b) THEN i.op = "ret" /\ heap.live = {}
         ELSE heap.live = UNION {Mallocs(d) : d \in {c \in BlocksOf(blocks[b].function) : c <= b}}
<1>1. /\ Typed /\ Placed /\ Allocated /\ Cleaned
      /\ b \in DOMAIN blocks /\ n \in DOMAIN blocks[b].code
      /\ heap.live = Held(b, n)
  BY Verified DEF Inv, Executing
<1>2. PICK is : is = blocks[b].code
  OBVIOUS
<1>3. /\ is \in Seq(Instructions) /\ DOMAIN is = 1..Len(is) /\ Len(is) \in Nat
      /\ n \in DOMAIN is /\ i = is[n] /\ n = Len(is)
      /\ \A k \in DOMAIN is : is[k].op \in Terminators <=> k = Len(is)
  <2>1. is \in Seq(Instructions) /\ DOMAIN is = 1..Len(is) /\ Len(is) \in Nat
    BY <1>1, <1>2, CodeNumbers
  <2>2. \A k \in DOMAIN is : is[k].op \in Terminators <=> k = Len(is)
    BY <1>1, <1>2, Verified
  <2> QED
    BY <1>1, <1>2, <2>1, <2>2
<1>4. i.op # "free" /\ i.op # "malloc"
  BY DEF Terminators
<1>5. /\ Before(is, "free", n) = Made(is, "free")
      /\ Before(is, "malloc", n) = Made(is, "malloc")
  BY <1>3, <1>4, BeforeNext
<1>6. CASE IsExit(b)
  <2>1. /\ \E k \in DOMAIN is : is[k].op = "ret"
        /\ Made(is, "free") = Memory(blocks[b].function)
    <3>1. is # <<>>
      BY <1>3
    <3> QED
      BY <1>1, <1>2, <1>6, <3>1 DEF Cleaned, CleansUp
  <2>2. i.op = "ret"
    <3>1. PICK k \in DOMAIN is : is[k].op = "ret"
      BY <2>1
    <3>2. k = n
      BY <1>3, <3>1 DEF Terminators
    <3> QED
      BY <1>3, <3>1, <3>2
  <2>3. Held(b, n) = {}
    BY <1>2, <1>5, <1>6, <2>1 DEF Held
  <2> QED
    BY <1>1, <1>6, <2>2, <2>3
<1>7. CASE ~ IsExit(b)
  <2>1. PICK f : f = blocks[b].function
    OBVIOUS
  <2>2. Held(b, n) = (UNION {Mallocs(d) : d \in {c \in BlocksOf(f) : c < b}}) \cup Mallocs(b)
    BY <1>2, <1>5, <1>7, <2>1 DEF Held, Mallocs
  <2>3. \A c \in BlocksOf(f) : c <= b <=> c < b \/ c = b
    <3>1. \A c \in BlocksOf(f) : c \in Nat
      BY <1>1, CodeNumbers DEF BlocksOf
    <3>2. b \in Nat
      BY <1>1, CodeNumbers
    <3> QED
      BY <3>1, <3>2
  <2>4. b \in BlocksOf(f)
    BY <1>1, <2>1 DEF BlocksOf
  <2>5. Held(b, n) = UNION {Mallocs(d) : d \in {c \in BlocksOf(f) : c <= b}}
    BY <2>2, <2>3, <2>4
  <2> QED
    BY <1>1, <1>7, <2>1, <2>5
<1> QED
  BY <1>6, <1>7

LEMMA Branches ==
  ASSUME Inv, phase = "running", NEW b, b = pc.block, NEW n, n = pc.next,
         NEW i, i = blocks[b].code[n], i.op = "br", NEW c \in i.arg
  PROVE  c \in DOMAIN blocks /\ c \in Nat /\ 1 \in DOMAIN blocks[c].code /\ Held(c, 1) = heap.live
<1>1. /\ Typed /\ Placed /\ Allocated
      /\ b \in DOMAIN blocks /\ n \in DOMAIN blocks[b].code
  BY Verified DEF Inv, Executing
<1>2. c \in DOMAIN blocks /\ blocks[c].function = blocks[b].function
  BY <1>1 DEF Placed
<1>3. PICK f : f = blocks[b].function
  OBVIOUS
<1>4. c \in Nat /\ b \in Nat /\ \A d \in BlocksOf(f) : d \in Nat
  BY <1>1, <1>2, CodeNumbers DEF BlocksOf
<1>5. DOMAIN blocks[c].code = 1..Len(blocks[c].code) /\ Len(blocks[c].code) \in DOMAIN blocks[c].code
  BY <1>2, Verified
<1>6. ~ IsExit(b) /\ heap.live = UNION {Mallocs(d) : d \in {e \in BlocksOf(f) : e <= b}}
  BY <1>3, HeldAtEnd DEF Terminators
<1>7. Follows(b, c)
  BY <1>1 DEF Allocated, Allowed
<1>8. \A op : Before(blocks[c].code, op, 1) = {}
  <2>1. \A m \in DOMAIN blocks[c].code : ~ (m < 1)
    BY <1>5
  <2> QED
    BY <2>1 DEF Before
<1>9. Held(c, 1) = heap.live
  <2>1. CASE IsExit(c)
    <3>1. Held(c, 1) = UNION {Mallocs(d) : d \in BlocksOf(f)}
      BY <1>2, <1>3, <1>8, <2>1 DEF Held, Memory
    <3>2. \A d \in BlocksOf(f) : ~ (d <= b) => Mallocs(d) = {}
      BY <1>3, <1>4, <1>7, <2>1 DEF Follows
    <3> QED
      BY <1>6, <3>1, <3>2
  <2>2. CASE ~ IsExit(c)
    <3>1. Held(c, 1) = UNION {Mallocs(d) : d \in {e \in BlocksOf(f) : e < c}}
      BY <1>2, <1>3, <1>8, <2>2 DEF Held
    <3>2. /\ b < c
          /\ \A d \in BlocksOf(f) : b < d /\ d < c => Mallocs(d) = {}
      BY <1>3, <1>7, <2>2 DEF Follows
    <3>3. \A d \in BlocksOf(f) : /\ d <= b => d < c
                                 /\ d < c /\ ~ (d <= b) => Mallocs(d) = {}
      BY <1>4, <3>2
    <3> QED
      BY <1>6, <3>1, <3>3
  <2> QED
    BY <2>1, <2>2
<1> QED
  BY <1>2, <1>4, <1>5, <1>9

LEMMA Returns ==
  ASSUME Inv, phase = "running", NEW b, b = pc.block, NEW n, n = pc.next,
         NEW i, i = blocks[b].code[n], i.op = "ret"
  PROVE  heap.live = {}
<1>1. /\ Typed /\ Placed /\ Allocated
      /\ b \in DOMAIN blocks /\ n \in DOMAIN blocks[b].code
  BY Verified DEF Inv, Executing
<1>2. CASE IsExit(b)
  BY <1>2, HeldAtEnd DEF Terminators
<1>3. CASE ~ IsExit(b)
  <2>1. heap.live = UNION {Mallocs(d) : d \in {c \in BlocksOf(blocks[b].function) : c <= b}}
    BY <1>3, HeldAtEnd DEF Terminators
  <2>2. Memory(blocks[b].function) = {}
    BY <1>1, <1>3 DEF Allocated, Allowed
  <2> QED
    BY <2>1, <2>2 DEF Memory
<1> QED
  BY <1>2, <1>3

LEMMA StepInv ==
  ASSUME Inv, Step
  PROVE  Inv'
<1>1. PICK b, n, i : b = pc.block /\ n = pc.next /\ i = blocks[b].code[n]
  OBVIOUS
<1>2. ExecuteNext = i
  BY <1>1 DEF ExecuteNext
<1>3. /\ phase = "running" /\ UNCHANGED <<tree, scopes, code, context>>
      /\ heap' = CASE i.op = "malloc" -> [heap EXCEPT !.live = @ \cup i.arg]
                   [] i.op = "free" -> [live |-> heap.live \ i.arg,
                                        freed |-> heap.freed \cup i.arg]
                   [] OTHER -> heap
      /\ phase' = IF i.op = "ret" THEN "returned" ELSE phase
      /\ \/ i.op = "br" /\ \E c \in i.arg : pc' = [block |-> c, next |-> 1]
         \/ i.op # "br" /\ pc' = [pc EXCEPT !.next = @ + 1]
  BY <1>2, Zenon DEF Step
<1>4. /\ Typed /\ Placed /\ Allocated /\ exit = 0
      /\ b \in DOMAIN blocks /\ n \in DOMAIN blocks[b].code /\ b \in Nat /\ n \in Nat
      /\ blocks[b].code \in Seq(Instructions)
      /\ pc \in [block : Nat, next : Nat] /\ heap \in [live : SUBSET Nat, freed : SUBSET Nat]
      /\ \A c \in DOMAIN blocks : WellFormed(c)
  <2>1. /\ Typed /\ Placed /\ Allocated /\ exit = 0
        /\ b \in DOMAIN blocks /\ n \in DOMAIN blocks[b].code
        /\ \A c \in DOMAIN blocks : WellFormed(c)
    BY <1>1, <1>3, Verified DEF Inv, Executing
  <2> QED
    BY <1>1, <2>1, CodeNumbers DEF Typed
<1>5. i \in Instructions /\ i.arg \in SUBSET Nat
  <2>1. i \in Instructions
    BY <1>1, <1>4, Elements
  <2> QED
    BY <2>1 DEF Instructions
<1>6. /\ heap' \in [live : SUBSET Nat, freed : SUBSET Nat]
      /\ heap'.live = CASE i.op = "malloc" -> heap.live \cup i.arg
                        [] i.op = "free" -> heap.live \ i.arg
                        [] OTHER -> heap.live
  <2>1. CASE i.op = "malloc"
    <3>1. heap' = [heap EXCEPT !.live = @ \cup i.arg]
      BY <1>3, <2>1
    <3> QED
      BY <1>4, <1>5, <2>1, <3>1
  <2>2. CASE i.op = "free"
    <3>1. heap' = [live |-> heap.live \ i.arg, freed |-> heap.freed \cup i.arg]
      BY <1>3, <2>2
    <3> QED
      BY <1>4, <1>5, <2>2, <3>1
  <2>3. CASE i.op # "malloc" /\ i.op # "free"
    <3>1. heap' = heap
      BY <1>3, <2>3
    <3> QED
      BY <1>4, <2>3, <3>1
  <2> QED
    BY <2>1, <2>2, <2>3
<1>7. /\ pc' \in [block : Nat, next : Nat] /\ pc'.block \in DOMAIN blocks
      /\ i.op # "ret" => /\ pc'.next \in DOMAIN blocks[pc'.block].code
                         /\ heap'.live = Held(pc'.block, pc'.next)
      /\ i.op = "ret" => heap'.live = {}
  <2>1. CASE i.op = "br"
    <3>1. PICK c \in i.arg : pc' = [block |-> c, next |-> 1]
      BY <1>3, <2>1
    <3>2. c \in DOMAIN blocks /\ c \in Nat /\ 1 \in DOMAIN blocks[c].code /\ Held(c, 1) = heap.live
      BY <1>1, <1>3, <2>1, Branches
    <3>3. heap'.live = heap.live
      BY <1>6, <2>1
    <3> QED
      BY <2>1, <3>1, <3>2, <3>3
  <2>2. CASE i.op # "br"
    <3>1. pc' = [pc EXCEPT !.next = @ + 1]
      BY <1>3, <2>2
    <3>2. pc' \in [block : Nat, next : Nat] /\ pc'.block = b /\ pc'.next = n + 1
      BY <1>1, <1>4, <3>1
    <3>3. CASE i.op = "ret"
      <4>1. heap.live = {}
        BY <1>1, <1>3, <3>3, Returns
      <4> QED
        BY <1>4, <1>6, <3>2, <3>3, <4>1
    <3>4. CASE i.op # "ret"
      <4>1. i.op \notin Terminators
        BY <2>2, <3>4 DEF Terminators
      <4>2. /\ n + 1 \in DOMAIN blocks[b].code
            /\ Held(b, n + 1) = CASE i.op = "malloc" -> heap.live \cup i.arg
                                  [] i.op = "free" -> heap.live \ i.arg
                                  [] OTHER -> heap.live
        <5>1. phase = "running"
          BY <1>3
        <5>2. b = pc.block /\ n = pc.next /\ i = blocks[b].code[n]
          BY <1>1
        <5> QED
          BY <4>1, <5>1, <5>2, Advances
      <4>3. heap'.live = Held(b, n + 1)
        <5>1. CASE i.op = "malloc"
          <6>1. Held(b, n + 1) = heap.live \cup i.arg
            BY <4>2, <5>1
          <6> QED
            BY <1>6, <5>1, <6>1
        <5>2. CASE i.op = "free"
          <6>1. Held(b, n + 1) = heap.live \ i.arg
            BY <4>2, <5>2
          <6> QED
            BY <1>6, <5>2, <6>1
        <5>3. CASE i.op # "malloc" /\ i.op # "free"
          <6>1. Held(b, n + 1) = heap.live
            BY <4>2, <5>3
          <6> QED
            BY <1>6, <5>3, <6>1
        <5> QED
          BY <5>1, <5>2, <5>3
      <4> QED
        BY <1>4, <3>2, <3>4, <4>2, <4>3
    <3> QED
      BY <3>3, <3>4
  <2> QED
    BY <2>1, <2>2
<1>8. Typed' /\ Coded' /\ Scoped'
  <2>1. phase' \in Phases
    BY <1>3 DEF Phases
  <2> QED
    BY <1>3, <1>6, <1>7, <2>1, Stays
<1>9. /\ blocks' = blocks /\ functions' = functions /\ exit' = exit
      /\ \A c : WellFormed(c)' = WellFormed(c)
      /\ \A c, m : Held(c, m)' = Held(c, m)
  <2>1. blocks' = blocks /\ functions' = functions /\ exit' = exit
    BY <1>3 DEF code, context
  <2> QED
    BY <2>1, CodeStays
<1>10. Executing'
  <2>1. PICK c, m : c = pc'.block /\ m = pc'.next
    OBVIOUS
  <2>2. Held(pc.block, pc.next)' = Held(c, m)
    <3>1. Held(c, m)' = Held(c, m)
      BY <1>9
    <3> QED
      BY <2>1, <3>1 DEF Held
  <2>3. CASE i.op = "ret"
    <3>1. phase' = "returned"
      BY <1>3, <2>3
    <3> QED
      BY <1>4, <1>7, <1>9, <2>3, <3>1 DEF Executing
  <2>4. CASE i.op # "ret"
    <3>1. phase' = "running"
      BY <1>3, <2>4
    <3> QED
      BY <1>4, <1>7, <1>9, <2>1, <2>2, <2>4, <3>1 DEF Executing
  <2> QED
    BY <2>3, <2>4
<1> QED
  BY <1>8, <1>10 DEF Inv

-----------------------------------------------------------------------------
(***************************************************************************)
(* The invariant, and what follows from it.                                *)
(***************************************************************************)
LEMMA InitInv ==
  ASSUME Init
  PROVE  Inv
<1>1. /\ program = <<>> /\ visits = <<>> /\ phase = "program" /\ currentSymbols = 2
      /\ functions = <<>> /\ blocks = <<>> /\ insert = 0
      /\ InsideFunction = FALSE /\ exit = 0
      /\ pc = [block |-> 0, next |-> 1] /\ heap = [live |-> {}, freed |-> {}]
  BY DEF Init
<1>2. PICK root, main : root = [NewTable EXCEPT !.children = <<2>>] /\ main = NewTable
  OBVIOUS
<1>3. /\ root.children = <<2>> /\ root.resources = <<>>
      /\ main.children = <<>> /\ main.resources = <<>>
      /\ root \in TableSet /\ main \in TableSet
  <2>1. <<>> \in Seq(Nat) /\ <<2>> \in Seq(Nat)
    OBVIOUS
  <2>2. root = [children |-> <<2>>, resources |-> <<>>] /\ main = [children |-> <<>>, resources |-> <<>>]
    BY <1>2 DEF NewTable
  <2> QED
    BY <2>1, <2>2 DEF TableSet
<1>4. tables = <<root, main>>
  BY <1>2 DEF Init
<1>5. /\ tables \in Seq(TableSet) /\ Len(tables) = 2 /\ DOMAIN tables = {1, 2}
      /\ tables[1] = root /\ tables[2] = main
  <2>1. /\ <<root, main>> \in Seq(TableSet) /\ Len(<<root, main>>) = 2
        /\ DOMAIN <<root, main>> = {1, 2}
        /\ <<root, main>>[1] = root /\ <<root, main>>[2] = main
    BY <1>3
  <2> QED
    BY <1>4, <2>1
<1>6. Typed
  <2>1. \A S : <<>> \in Seq(S)
    OBVIOUS
  <2> QED
    BY <1>1, <1>5, <2>1 DEF Typed, Phases
<1>7. /\ DOMAIN <<2>> = {1} /\ <<2>>[1] = 2 /\ DOMAIN <<>> = {} /\ Len(<<>>) = 0
  OBVIOUS
<1>8. Forest
  <2>1. ASSUME NEW p \in DOMAIN tables, NEW k \in DOMAIN tables[p].children
        PROVE  p = 1 /\ k = 1 /\ tables[p].children[k] = 2
    BY <1>3, <1>5, <1>7
  <2>2. 2 \in ToSet(tables[1].children)
    BY <1>3, <1>5, <1>7 DEF ToSet
  <2>3. 2 \in 1..2 /\ 2 >= 2 /\ 2 \in (1 + 1)..2 /\ \A t \in 2..2 : t = 2
    OBVIOUS
  <2>4. DOMAIN visits = {}
    BY <1>1, <1>7
  <2>5. Len(tables) >= 2 /\ currentSymbols \in 1..Len(tables)
    BY <1>1, <1>5, <2>3
  <2>6. \A p \in DOMAIN tables : \A k \in DOMAIN tables[p].children :
          tables[p].children[k] \in (p + 1)..Len(tables)
    BY <1>5, <2>1, <2>3
  <2>7. \A p, q \in DOMAIN tables :
          \A k \in DOMAIN tables[p].children : \A m \in DOMAIN tables[q].children :
            tables[p].children[k] = tables[q].children[m] => p = q /\ k = m
    BY <2>1
  <2>8. \A t \in 2..Len(tables) : \E p \in DOMAIN tables : t \in ToSet(tables[p].children)
    BY <1>5, <2>2, <2>3
  <2>9. \A k \in DOMAIN visits :
          /\ visits[k].old \in DOMAIN tables
          /\ visits[k].own \in ToSet(tables[visits[k].old].children)
    BY <2>4
  <2> QED
    BY <2>5, <2>6, <2>7, <2>8, <2>9 DEF Forest
<1>9. Registered /\ Enclosed /\ Frames /\ Owned
  <2>1. \A t \in DOMAIN tables : DOMAIN tables[t].resources = {}
    BY <1>3, <1>5, <1>7
  <2>2. DOMAIN visits = {}
    BY <1>1, <1>7
  <2>3. Registered
    BY <2>1 DEF Registered
  <2>4. Enclosed /\ Owned
    BY <1>1 DEF Enclosed, Owned
  <2>5. Frames
    BY <2>2 DEF Frames
  <2> QED
    BY <2>3, <2>4, <2>5
<1>10. Coded
  <2>1. DOMAIN blocks = {} /\ DOMAIN functions = {} /\ Len(blocks) = 0
    BY <1>1, <1>7
  <2>2. insert \in 0..Len(blocks) /\ exit \in 0..Len(blocks) /\ (exit # 0) = InsideFunction
    <3>1. 0 \in 0..0 /\ (0 # 0) = FALSE
      OBVIOUS
    <3> QED
      BY <1>1, <2>1, <3>1
  <2>3. Placed
    BY <2>1, <2>2 DEF Placed
  <2>4. Generating /\ Rested
    BY <1>1 DEF Generating, Rested, Refused
  <2>5. Sound
    BY <2>1 DEF Sound, Allocated, Cleaned
  <2> QED
    BY <2>3, <2>4, <2>5 DEF Coded
<1>11. Executing
  BY <1>1 DEF Executing
<1> QED
  BY <1>6, <1>8, <1>9, <1>10, <1>11 DEF Inv, Scoped

LEMMA NextInv ==
  ASSUME Inv, [Next]_vars
  PROVE  Inv'
<1>1. CASE Let
  BY <1>1, LetInv
<1>2. CASE LetCall
  BY <1>2, LetCallInv
<1>3. CASE LetLarge
  BY <1>3, LetLargeInv
<1>4. CASE PrintValues
  BY <1>4, PrintInv
<1>5. CASE AssertEqual
  BY <1>5, AssertInv
<1>6. CASE AssertOther
  BY <1>6, AssertOtherInv
<1>7. CASE If
  BY <1>7, IfInv
<1>8. CASE Return
  BY <1>8, ReturnInv
<1>9. CASE Undefined
  BY <1>9, UndefinedInv
<1>10. CASE BeginBlock
  BY <1>10, BeginBlockInv
<1>11. CASE EndBlock
  BY <1>11, EndBlockInv
<1>12. CASE BeginFunction
  BY <1>12, BeginFunctionInv
<1>13. CASE EndFunction
  BY <1>13, EndFunctionInv
<1>14. CASE BeginTest
  BY <1>14, BeginTestInv
<1>15. CASE EndTest
  BY <1>15, EndTestInv
<1>16. CASE StartTests
  BY <1>16, StartTestsInv
<1>17. CASE FinishProgram
  BY <1>17, FinishProgramInv
<1>18. CASE FinishTests
  BY <1>18, FinishTestsInv
<1>19. CASE VerifyTests
  BY <1>19, VerifyTestsInv
<1>20. CASE Execute
  BY <1>20, ExecuteInv
<1>21. CASE Step
  BY <1>21, StepInv
<1>23. CASE LetString
  BY <1>23, LetStringInv
<1>22. CASE UNCHANGED vars
  <2>1. /\ UNCHANGED <<tree, scopes, code, context, execution>> /\ phase' = phase
        /\ pc' = pc /\ heap' = heap
    BY <1>22 DEF vars, execution
  <2>2. blocks' = blocks /\ functions' = functions /\ exit' = exit
    BY <2>1 DEF code, context
  <2>3. Typed' /\ Coded' /\ Scoped'
    BY <2>1, Stays DEF Inv, Typed
  <2>4. Executing'
    <3>1. PICK c, m : c = pc.block /\ m = pc.next
      OBVIOUS
    <3>2. Held(pc.block, pc.next)' = Held(pc.block, pc.next)
      <4>1. Held(c, m)' = Held(c, m)
        BY <2>2, CodeStays
      <4> QED
        BY <2>1, <3>1, <4>1
    <3>3. \A b : WellFormed(b)' = WellFormed(b)
      BY <2>2, CodeStays
    <3> QED
      BY <2>1, <2>2, <3>2, <3>3 DEF Inv, Executing
  <2> QED
    BY <2>3, <2>4 DEF Inv
<1> QED
  BY <1>1, <1>2, <1>3, <1>4, <1>5, <1>6, <1>7, <1>8, <1>9, <1>10, <1>11, <1>12, <1>13, <1>14,
     <1>15, <1>16, <1>17, <1>18, <1>19, <1>20, <1>21, <1>22, <1>23 DEF Next

(* The inductive invariant: in every state the tables are a forest whose   *)
(* scopes hold what the open function has allocated, a block allocates     *)
(* nothing that a path through its function does not pass, and what is     *)
(* executed holds what the code before it has allocated.                   *)
THEOREM InvHolds == Spec => []Inv
<1>1. Init => Inv
  BY InitInv
<1>2. Inv /\ [Next]_vars => Inv'
  BY NextInv
<1> QED
  BY <1>1, <1>2, PTL DEF Spec

(* On every path through a function that the verifier has passed, memory   *)
(* is freed only if it is allocated, and none is left when the function    *)
(* returns: whatever is generated, and however much of it.                 *)
THEOREM MemoryIsFreedOnce == Spec => []HeapFreedOnce
<1>1. ASSUME Inv PROVE HeapFreedOnce
  <2>1. ASSUME phase = "running", ExecuteNext.op = "free"
        PROVE  ExecuteNext.arg \subseteq heap.live
    <3>1. PICK b, n : b = pc.block /\ n = pc.next
      OBVIOUS
    <3>2. PICK is : is = blocks[b].code
      OBVIOUS
    <3>3. ExecuteNext = is[n]
      BY <3>1, <3>2 DEF ExecuteNext
    <3>4. /\ Typed /\ Allocated /\ Cleaned /\ b \in DOMAIN blocks /\ n \in DOMAIN is
          /\ heap.live = Held(b, n)
      BY <1>1, <2>1, <3>1, <3>2, Verified DEF Inv, Executing
    <3>5. is \in Seq(Instructions) /\ DOMAIN is = 1..Len(is) /\ n \in Nat /\ is # <<>>
      <4>1. is \in Seq(Instructions) /\ DOMAIN is = 1..Len(is) /\ Len(is) \in Nat
        BY <3>2, <3>4, CodeNumbers
      <4> QED
        BY <3>4, <4>1
    <3>6. IsExit(b)
      BY <2>1, <3>2, <3>3, <3>4 DEF Allocated, Allowed
    <3>7. Made(is, "free") = Memory(blocks[b].function) /\ Freeing(is)
      BY <3>2, <3>4, <3>5, <3>6 DEF Cleaned, CleansUp
    <3>8. heap.live = Made(is, "free") \ Before(is, "free", n)
      BY <3>2, <3>4, <3>6, <3>7 DEF Held
    <3>9. is[n].arg \subseteq Made(is, "free")
      BY <2>1, <3>3, <3>4 DEF Made
    <3>10. is[n].arg \cap Before(is, "free", n) = {}
      <4>1. ASSUME NEW m \in DOMAIN is, m < n, is[m].op = "free"
            PROVE  is[n].arg \cap is[m].arg = {}
        <5>1. m # n
          BY <3>5, <4>1
        <5>2. PICK v : is[n].arg = {v}
          BY <2>1, <3>3, <3>4, <3>7 DEF Freeing
        <5>3. PICK w : is[m].arg = {w}
          BY <3>7, <4>1 DEF Freeing
        <5>4. {v} # {w}
          BY <2>1, <3>3, <3>4, <3>7, <4>1, <5>1, <5>2, <5>3 DEF Freeing
        <5> QED
          BY <5>2, <5>3, <5>4
      <4> QED
        BY <4>1 DEF Before
    <3> QED
      BY <3>3, <3>8, <3>9, <3>10
  <2>2. phase = "returned" => heap.live = {}
    BY <1>1 DEF Inv, Executing
  <2> QED
    BY <2>1, <2>2 DEF HeapFreedOnce
<1> QED
  BY <1>1, InvHolds, PTL

(* Every table but the first has one parent, every body a table of its     *)
(* own, every block a function and every function its entry block; the     *)
(* builder, the exit block and the execution are at blocks that exist.     *)
THEOREM TypeCorrect == Spec => []TypeOK
<1>1. ASSUME Inv PROVE TypeOK
  <2>1. Typed /\ Forest /\ Placed
    BY <1>1 DEF Inv, Scoped, Coded
  <2>2. program \in Seq(Leaves \cup Bodies \cup {"close"})
    BY <2>1 DEF Typed, Kinds
  <2>3. currentSymbols \in DOMAIN tables
    BY <2>1, TableNumbers DEF Forest
  <2>4. ASSUME NEW t \in DOMAIN tables \ {1}
        PROVE  Cardinality({p \in 1..(t - 1) : t \in ToSet(tables[p].children)}) = 1
    <3>1. t \in 2..Len(tables) /\ t \in Nat /\ Len(tables) \in Nat /\ DOMAIN tables = 1..Len(tables)
      BY <2>1, TableNumbers
    <3>2. PICK p \in DOMAIN tables : t \in ToSet(tables[p].children)
      BY <2>1, <3>1 DEF Forest
    <3>3. p < t /\ p \in 1..(t - 1)
      <4>1. p < t
        BY <2>1, <3>2, TableNumbers
      <4> QED
        BY <3>1, <4>1
    <3>4. \A q \in 1..(t - 1) : q \in DOMAIN tables
      BY <3>1
    <3>5. \A q \in 1..(t - 1) : t \in ToSet(tables[q].children) => q = p
      BY <2>1, <3>2, <3>4, OneParent
    <3>6. {q \in 1..(t - 1) : t \in ToSet(tables[q].children)} = {p}
      BY <3>2, <3>3, <3>5
    <3> QED
      BY <3>6, FS_Singleton
  <2>5. \A k \in DOMAIN visits : visits[k].own \in ToSet(tables[visits[k].old].children)
    BY <2>1 DEF Forest
  <2>6. insert \in {0} \cup DOMAIN blocks /\ exit \in {0} \cup DOMAIN blocks
    <3>1. DOMAIN blocks = 1..Len(blocks) /\ Len(blocks) \in Nat
      BY <2>1, CodeNumbers
    <3> QED
      BY <2>1, <3>1 DEF Placed
  <2>7. /\ (exit # 0) = InsideFunction
        /\ \A b \in DOMAIN blocks : blocks[b].function \in DOMAIN functions
        /\ \A f \in DOMAIN functions : blocks[functions[f].entry].function = f
    BY <2>1 DEF Placed
  <2>8. phase \in {"running", "returned"} => pc.block \in DOMAIN blocks
    BY <1>1 DEF Inv, Executing
  <2> QED
    BY <2>2, <2>3, <2>4, <2>5, <2>6, <2>7, <2>8 DEF TypeOK
<1> QED
  BY <1>1, InvHolds, PTL
=============================================================================
