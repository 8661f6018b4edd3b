------------------------------ MODULE TypeProofs ------------------------------
(***************************************************************************)
(* What the type checker decides about one statement, for any names, any   *)
(* expressions of any size and any statement, and what the code generator  *)
(* makes of it: first what an expression is as a tree and what it means,   *)
(* then what the checker makes of it, and last the generator.              *)
(***************************************************************************)
EXTENDS ExpressionTypes, SequenceTheorems, FiniteSetTheorems, TLAPS

LEMMA Least ==
  ASSUME NEW S \in SUBSET Nat, S # {}
  PROVE  \E m \in S : \A k \in S : m <= k
<1> DEFINE less == {p \in Nat \X Nat : p[1] < p[2]}
<1>1. IsWellFoundedOn(less, Nat)
  BY NatLessThanWellFounded, Zenon DEF OpToRel
<1>2. PICK m \in S : \A k \in S : <<k, m>> \notin less
  <2> HIDE DEF less
  <2> QED
    BY <1>1, WFMin
<1>3. ASSUME NEW k \in S PROVE m <= k
  <2>1. k \in Nat /\ m \in Nat
    OBVIOUS
  <2>2. <<k, m>> \notin less
    BY <1>2
  <2>3. ~ (k < m)
    BY <2>1, <2>2
  <2> QED
    BY <2>1, <2>3
<1> QED
  BY <1>3

(***************************************************************************)
(* The expression is a tree: a node comes after those below it and is an   *)
(* operand at most once.                                                   *)
(***************************************************************************)
Kinds == LeafKinds \cup BranchKinds
Names ==
  {NoName} \cup {leaf.name : leaf \in UNION {v.leaves : v \in Vocabularies}}
NodeSet == [kind : Kinds, number : Nat, name : Names, children : Seq(Nat)]

Shaped ==
  /\ nodes \in Seq(NodeSet)
  /\ \A i \in Nodes :
       /\ nodes[i].children \in Seq(1..(i - 1))
       /\ IF nodes[i].kind \in LeafKinds THEN nodes[i].children = <<>>
          ELSE Len(nodes[i].children) \in Arities(nodes[i].kind)
Opened ==
  /\ open \in Seq(Nat)
  /\ \A k \in DOMAIN open : open[k] \in Nodes
  /\ open # <<>> => open[Len(open)] = Root
  /\ \A k, m \in DOMAIN open : open[k] = open[m] => k = m
ClosedOnce ==
  /\ \A i \in Nodes : \A k \in DOMAIN nodes[i].children :
       \A m \in DOMAIN open : open[m] # nodes[i].children[k]
  /\ \A i, j \in Nodes :
       \A k \in DOMAIN nodes[i].children : \A m \in DOMAIN nodes[j].children :
         nodes[j].children[m] = nodes[i].children[k] => i = j /\ k = m
Tree == Shaped /\ Opened /\ ClosedOnce

LEMMA ArityBounds ==
  ASSUME NEW kind \in BranchKinds
  PROVE  Arities(kind) \in SUBSET Nat
BY EntriesAssumption DEF Arities, BranchKinds, ArithmeticKinds

LEMMA TreeInit == Init => Tree
BY DEF Init, Tree, Shaped, Opened, ClosedOnce, Nodes

LEMMA TreeGrows ==
  ASSUME Tree, NEW kind \in Kinds, NEW number \in Nat, NEW name \in Names, NEW arity \in Nat,
         IF kind \in LeafKinds THEN arity = 0 ELSE arity \in Arities(kind),
         AddNode(kind, number, name, arity)
  PROVE  Tree'
<1> DEFINE left == Len(open) - arity
           operands == SubSeq(open, left + 1, Len(open))
           node == [kind |-> kind, number |-> number, name |-> name, children |-> operands]
           rest == SubSeq(open, 1, left)
<1>1. /\ Len(open) \in Nat /\ DOMAIN open = 1..Len(open) /\ left \in Nat /\ left + arity = Len(open)
      /\ Len(nodes) \in Nat /\ Nodes = 1..Len(nodes)
  <2>1. open \in Seq(Nat) /\ nodes \in Seq(NodeSet)
    BY DEF Tree, Shaped, Opened
  <2>2. Len(open) \in Nat /\ DOMAIN open = 1..Len(open) /\ Len(nodes) \in Nat /\ left >= 0
    BY <2>1 DEF AddNode
  <2> QED
    BY <2>1, <2>2 DEF Nodes
<1>o. /\ \A k \in 1..Len(open) : open[k] \in 1..Len(nodes)
      /\ \A k, m \in 1..Len(open) : open[k] = open[m] => k = m
  BY <1>1 DEF Tree, Opened
<1>c. /\ \A i \in Nodes : \A k \in DOMAIN nodes[i].children :
           \A m \in 1..Len(open) : open[m] # nodes[i].children[k]
      /\ \A i, j \in Nodes :
           \A k \in DOMAIN nodes[i].children : \A m \in DOMAIN nodes[j].children :
             nodes[j].children[m] = nodes[i].children[k] => i = j /\ k = m
  BY <1>1 DEF Tree, ClosedOnce
<1>s. /\ nodes \in Seq(NodeSet)
      /\ \A i \in Nodes :
           /\ nodes[i].children \in Seq(1..(i - 1))
           /\ IF nodes[i].kind \in LeafKinds THEN nodes[i].children = <<>>
              ELSE Len(nodes[i].children) \in Arities(nodes[i].kind)
  BY DEF Tree, Shaped
<1>2. /\ nodes' = Append(nodes, node) /\ open' = Append(rest, Len(nodes) + 1)
  BY DEF AddNode
<1>3. /\ operands \in Seq(1..Len(nodes)) /\ Len(operands) = arity
      /\ \A k \in 1..arity : operands[k] = open[left + k]
  <2>1. \A k \in (left + 1)..Len(open) : open[k] \in 1..Len(nodes)
    BY <1>1, <1>o, <1>c, <1>s
  <2>2. left + 1 \in Int /\ Len(open) \in Int
    BY <1>1
  <2> HIDE DEF left
  <2>3. /\ operands \in Seq(1..Len(nodes))
        /\ Len(operands) = IF left + 1 <= Len(open) THEN Len(open) - (left + 1) + 1 ELSE 0
        /\ \A k \in 1..(Len(open) - (left + 1) + 1) : operands[k] = open[left + 1 + k - 1]
    BY <2>1, <2>2, SubSeqProperties
  <2>4. Len(open) - (left + 1) + 1 = arity /\ (left + 1 <= Len(open) <=> arity # 0)
    <3>1. left \in Nat /\ arity \in Nat /\ Len(open) = left + arity
      BY <1>1
    <3> QED
      BY <3>1
  <2>5. \A k \in 1..arity : left + 1 + k - 1 = left + k
    BY <1>1
  <2> QED
    BY <2>3, <2>4, <2>5
<1>4. /\ rest \in Seq(1..Len(nodes)) /\ Len(rest) = left
      /\ \A k \in 1..left : rest[k] = open[k]
  <2>1. \A k \in 1..left : open[k] \in 1..Len(nodes)
    BY <1>1, <1>o, <1>c, <1>s
  <2> HIDE DEF left
  <2>2. /\ rest \in Seq(1..Len(nodes))
        /\ Len(rest) = IF 1 <= left THEN left - 1 + 1 ELSE 0
        /\ \A k \in 1..(left - 1 + 1) : rest[k] = open[1 + k - 1]
    BY <1>1, <2>1, SubSeqProperties
  <2> QED
    BY <1>1, <2>2
<1> HIDE DEF left, operands, rest
<1>5. node \in NodeSet
  <2>1. operands \in Seq(Nat)
    BY <1>3, SeqMonotonic, <1>1
  <2> QED
    BY <2>1 DEF NodeSet
<1>6. /\ nodes' \in Seq(NodeSet) /\ Len(nodes') = Len(nodes) + 1
      /\ Nodes' = 1..(Len(nodes) + 1)
      /\ nodes'[Len(nodes) + 1] = node
      /\ \A i \in Nodes : nodes'[i] = nodes[i]
  BY <1>1, <1>2, <1>5, <1>s DEF Nodes
<1>7. /\ open' \in Seq(Nat) /\ Len(open') = left + 1 /\ DOMAIN open' = 1..(left + 1)
      /\ open'[left + 1] = Len(nodes) + 1
      /\ \A k \in 1..left : open'[k] = open[k]
  <2>1. rest \in Seq(Nat)
    BY <1>1, <1>4, SeqMonotonic
  <2> QED
    BY <1>1, <1>2, <1>4, <2>1
<1> HIDE DEF node
<1>8. node.kind = kind /\ node.children = operands
  BY DEF node
<1>9. ASSUME NEW i \in Nodes'
      PROVE  /\ nodes'[i].children \in Seq(1..(i - 1))
             /\ IF nodes'[i].kind \in LeafKinds THEN nodes'[i].children = <<>>
                ELSE Len(nodes'[i].children) \in Arities(nodes'[i].kind)
  <2>1. CASE i \in Nodes
    BY <2>1, <1>6, <1>o, <1>c, <1>s
  <2>2. CASE i = Len(nodes) + 1
    <3>1. nodes'[i] = node /\ i - 1 = Len(nodes)
      BY <1>1, <1>6, <2>2
    <3>2. arity = 0 => operands = <<>>
      BY <1>3
    <3> QED
      BY <3>1, <3>2, <1>3, <1>8
  <2> QED
    BY <2>1, <2>2, <1>1, <1>6
<1>10. ASSUME NEW i \in Nodes', NEW k \in DOMAIN nodes'[i].children
       PROVE  \/ i \in Nodes /\ k \in DOMAIN nodes[i].children
                 /\ nodes'[i].children[k] = nodes[i].children[k]
              \/ i = Len(nodes) + 1 /\ k \in 1..arity
                 /\ nodes'[i].children[k] = open[left + k]
  <2>1. CASE i \in Nodes
    BY <2>1, <1>6
  <2>2. CASE i = Len(nodes) + 1
    <3>1. nodes'[i].children = operands /\ DOMAIN operands = 1..arity
      BY <1>6, <1>8, <2>2, <1>3
    <3> QED
      BY <3>1, <2>2, <1>3
  <2> QED
    BY <2>1, <2>2, <1>1, <1>6
<1>11. \A k \in 1..arity : left + k \in 1..Len(open)
  BY <1>1
<1>12. ASSUME NEW k \in DOMAIN open', NEW m \in DOMAIN open', open'[k] = open'[m]
       PROVE  k = m
  <2>1. \A x \in 1..left : x \in 1..Len(open) /\ open[x] \in 1..Len(nodes)
    BY <1>1, <1>o
  <2>2. /\ Len(nodes) \in Nat /\ left \in Nat
        /\ k \in 1..(left + 1) /\ m \in 1..(left + 1)
    BY <1>1, <1>7
  <2>3. CASE k \in 1..left /\ m \in 1..left
    BY <2>1, <2>3, <1>7, <1>12, <1>o
  <2>4. CASE k = left + 1 \/ m = left + 1
    BY <2>1, <2>2, <2>4, <1>7, <1>12
  <2> QED
    BY <2>2, <2>3, <2>4
<1>13. ASSUME NEW i \in Nodes', NEW k \in DOMAIN nodes'[i].children, NEW m \in DOMAIN open'
       PROVE  open'[m] # nodes'[i].children[k]
  <2>1. nodes'[i].children[k] \in 1..Len(nodes)
    <3>1. CASE i \in Nodes /\ k \in DOMAIN nodes[i].children
                /\ nodes'[i].children[k] = nodes[i].children[k]
      <4>1. nodes[i].children \in Seq(1..(i - 1)) /\ i \in 1..Len(nodes)
        BY <3>1, <1>s, <1>1
      <4>2. nodes[i].children[k] \in 1..(i - 1)
        BY <4>1, <3>1
      <4> QED
        BY <4>1, <4>2, <3>1, <1>1
    <3>2. CASE i = Len(nodes) + 1 /\ k \in 1..arity
                /\ nodes'[i].children[k] = open[left + k]
      <4> HIDE DEF left
      <4> QED
        BY <3>2, <1>11, <1>1, <1>o
    <3> QED
      BY <3>1, <3>2, <1>10
  <2>2. CASE m = left + 1
    BY <2>1, <2>2, <1>1, <1>7
  <2>3. CASE m \in 1..left
    <3>1. open'[m] = open[m] /\ m \in 1..Len(open)
      BY <2>3, <1>1, <1>7
    <3>2. \A x \in 1..arity : open[m] # open[left + x]
      <4> SUFFICES ASSUME NEW x \in 1..arity, open[m] = open[left + x] PROVE FALSE
        OBVIOUS
      <4>1. m = left + x
        BY <3>1, <1>11, <1>o, <1>c, <1>s
      <4> QED
        BY <4>1, <2>3, <1>1
    <3> QED
      BY <3>1, <3>2, <1>10, <1>o, <1>c, <1>s
  <2> QED
    BY <2>2, <2>3, <1>1, <1>7
<1>14. ASSUME NEW i \in Nodes', NEW k \in DOMAIN nodes'[i].children,
              NEW j \in Nodes', NEW m \in DOMAIN nodes'[j].children,
              nodes'[j].children[m] = nodes'[i].children[k]
       PROVE  i = j /\ k = m
  <2>1. CASE i \in Nodes /\ j \in Nodes
    BY <2>1, <1>14, <1>6, <1>c
  <2>2. CASE i = Len(nodes) + 1 /\ j = Len(nodes) + 1
    <3>1. k \in 1..arity /\ m \in 1..arity /\ open[left + k] = open[left + m]
      BY <2>2, <1>14, <1>10, <1>1
    <3>2. left + k = left + m
      BY <3>1, <1>11, <1>o, <1>c, <1>s
    <3> QED
      BY <3>1, <3>2, <2>2, <1>1
  <2>3. CASE i \in Nodes /\ j = Len(nodes) + 1
    <3>1. m \in 1..arity /\ nodes'[j].children[m] = open[left + m]
      BY <2>3, <1>10, <1>1
    <3>2. k \in DOMAIN nodes[i].children /\ nodes'[i].children[k] = nodes[i].children[k]
      BY <2>3, <1>10, <1>1
    <3> QED
      BY <3>1, <3>2, <2>3, <1>11, <1>14, <1>c
  <2>4. CASE j \in Nodes /\ i = Len(nodes) + 1
    <3>1. k \in 1..arity /\ nodes'[i].children[k] = open[left + k]
      BY <2>4, <1>10, <1>1
    <3>2. m \in DOMAIN nodes[j].children /\ nodes'[j].children[m] = nodes[j].children[m]
      BY <2>4, <1>10, <1>1
    <3> QED
      <4>1. nodes[j].children[m] = open[left + k] /\ left + k \in 1..Len(open)
        BY <3>1, <3>2, <1>11, <1>14
      <4> QED
        BY <4>1, <3>2, <2>4, <1>c
  <2> QED
    BY <2>1, <2>2, <2>3, <2>4, <1>1, <1>6
<1>15. \A k \in DOMAIN open' : open'[k] \in Nodes'
  <2>1. \A k \in 1..left : k \in 1..Len(open) /\ open[k] \in 1..Len(nodes)
    BY <1>1, <1>o
  <2>2. \A k \in 1..Len(nodes) : k \in 1..(Len(nodes) + 1)
    BY <1>1
  <2>3. \A k \in 1..(left + 1) : k \in 1..left \/ k = left + 1
    BY <1>1
  <2>4. Len(nodes) + 1 \in 1..(Len(nodes) + 1)
    BY <1>1
  <2> QED
    BY <2>1, <2>2, <2>3, <2>4, <1>6, <1>7
<1>16. open'[Len(open')] = Root'
  BY <1>6, <1>7 DEF Root
<1> QED
  BY <1>6, <1>7, <1>9, <1>12, <1>13, <1>14, <1>15, <1>16
    DEF Tree, Shaped, Opened, ClosedOnce

LEMMA TreeParsed ==
  ASSUME Tree, AddLeaf \/ AddBranch
  PROVE  Tree'
<1>1. CASE AddLeaf
  <2>1. PICK leaf \in UNION {v.leaves : v \in Vocabularies} :
          AddNode(leaf.kind, leaf.number, leaf.name, 0)
    BY <1>1 DEF AddLeaf
  <2>2. leaf.kind \in LeafKinds /\ leaf.number \in Nat /\ leaf.name \in Names
    BY EntriesAssumption DEF Names
  <2> QED
    BY <2>1, <2>2, TreeGrows DEF Kinds
<1>2. CASE AddBranch
  <2>0. PICK kind \in BranchKinds : \E arity \in Arities(kind) : AddNode(kind, 0, NoName, arity)
    BY <1>2 DEF AddBranch
  <2>1. PICK arity \in Arities(kind) : AddNode(kind, 0, NoName, arity)
    BY <2>0
  <2>2. kind \in Kinds /\ kind \notin LeafKinds /\ arity \in Nat /\ NoName \in Names /\ 0 \in Nat
    BY ArityBounds DEF Kinds, Names, LeafKinds, BranchKinds, ArithmeticKinds
  <2> QED
    BY <2>1, <2>2, TreeGrows
<1> QED
  BY <1>1, <1>2

(***************************************************************************)
(* Functions defined by recursion over the tree: there is one that         *)
(* satisfies each definition.                                              *)
(***************************************************************************)
Reaches(f, below, n) == f = [i \in 1..n |-> {i} \cup UNION {f[c] : c \in below[i]}]

LEMMA ReachExists ==
  ASSUME NEW n \in Nat, NEW below, \A i \in 1..n : below[i] \in SUBSET (1..(i - 1))
  PROVE  \E f : Reaches(f, below, n)
<1> DEFINE bad == {d \in Nat : d <= n /\ ~ \E f : Reaches(f, below, d)}
<1>1. ASSUME bad # {} PROVE FALSE
  <2>1. PICK d \in bad : \A k \in bad : d <= k
    <3>1. bad \in SUBSET Nat
      OBVIOUS
    <3> HIDE DEF bad
    <3> QED
      BY <3>1, <1>1, Least
  <2>2. d # 0
    <3>1. Reaches([i \in 1..0 |-> {}], below, 0)
      BY DEF Reaches
    <3> QED
      BY <3>1
  <2>3. d \in Nat /\ d - 1 \in Nat /\ d <= n
    BY <2>2
  <2>4. PICK f : Reaches(f, below, d - 1)
    BY <2>1, <2>3
  <2> DEFINE g == [i \in 1..d |-> {i} \cup UNION {f[c] : c \in below[i]}]
  <2>5. ASSUME NEW c \in 1..(d - 1) PROVE g[c] = f[c]
    <3>1. c \in 1..d
      BY <2>3
    <3>2. f[c] = {c} \cup UNION {f[x] : x \in below[c]}
      BY <2>4 DEF Reaches
    <3> QED
      BY <3>1, <3>2
  <2>6. ASSUME NEW i \in 1..d
        PROVE  g[i] = {i} \cup UNION {g[c] : c \in below[i]}
    <3>1. \A c \in below[i] : g[c] = f[c]
      <4>1. \A c \in below[i] : c \in 1..(d - 1)
        BY <2>3
      <4> HIDE DEF g
      <4> QED
        BY <2>5, <4>1
    <3>2. g[i] = {i} \cup UNION {f[c] : c \in below[i]}
      OBVIOUS
    <3> HIDE DEF g
    <3>3. {g[c] : c \in below[i]} = {f[c] : c \in below[i]}
      BY <3>1
    <3> QED
      BY <3>2, <3>3
  <2>7. g = [i \in 1..d |-> g[i]]
    OBVIOUS
  <2>8. Reaches(g, below, d)
    <3> HIDE DEF g
    <3> QED
      BY <2>6, <2>7 DEF Reaches
  <2> QED
    BY <2>1, <2>8
<1> QED
  BY <1>1

Parts(f, i) == [k \in DOMAIN nodes[i].children |-> Clone(f[nodes[i].children[k]])]
Means(f, n) == f = [i \in 1..n |-> TypeOf(nodes[i], Parts(f, i))]

LEMMA MeaningExists ==
  ASSUME Tree, NEW n \in Nat, n <= Len(nodes)
  PROVE  \E f : Means(f, n)
<1> DEFINE bad == {d \in Nat : d <= n /\ ~ \E f : Means(f, d)}
<1>1. ASSUME bad # {} PROVE FALSE
  <2>1. PICK d \in bad : \A k \in bad : d <= k
    <3>1. bad \in SUBSET Nat
      OBVIOUS
    <3> HIDE DEF bad
    <3> QED
      BY <3>1, <1>1, Least
  <2>2. d # 0
    <3>1. Means([i \in 1..0 |-> {}], 0)
      BY DEF Means
    <3> QED
      BY <3>1
  <2>3. d \in Nat /\ d - 1 \in Nat /\ d <= n
    BY <2>2
  <2>4. PICK f : Means(f, d - 1)
    BY <2>1, <2>3
  <2> DEFINE g == [i \in 1..d |-> TypeOf(nodes[i], Parts(f, i))]
  <2>5. ASSUME NEW c \in 1..(d - 1) PROVE g[c] = f[c]
    BY <2>3, <2>4 DEF Means
  <2>6. ASSUME NEW i \in 1..d
        PROVE  g[i] = TypeOf(nodes[i], Parts(g, i))
    <3>1. \A k \in DOMAIN nodes[i].children : g[nodes[i].children[k]] = f[nodes[i].children[k]]
      <4>1. i \in Nodes /\ i - 1 <= d - 1
        BY <2>3 DEF Tree, Shaped, Nodes
      <4>2. nodes[i].children \in Seq(1..(i - 1))
        BY <4>1 DEF Tree, Shaped
      <4>3. \A k \in DOMAIN nodes[i].children : nodes[i].children[k] \in 1..(d - 1)
        BY <4>1, <4>2, <2>3
      <4> HIDE DEF g
      <4> QED
        BY <2>5, <4>3
    <3>2. g[i] = TypeOf(nodes[i], Parts(f, i))
      OBVIOUS
    <3> HIDE DEF g
    <3>3. Parts(g, i) = Parts(f, i)
      BY <3>1 DEF Parts
    <3> QED
      BY <3>2, <3>3
  <2>7. g = [i \in 1..d |-> g[i]]
    OBVIOUS
  <2>8. Means(g, d)
    <3> HIDE DEF g
    <3> QED
      BY <2>6, <2>7 DEF Means
  <2> QED
    BY <2>1, <2>8
<1>2. n <= n /\ n \notin bad
  BY <1>1
<1> QED
  BY <1>2

LEMMA MeaningUnfolds ==
  ASSUME Tree
  PROVE  \A i \in Nodes : Meaning[i] = TypeOf(nodes[i], Parts(Meaning, i))
<1>1. Nodes = 1..Len(nodes) /\ Len(nodes) \in Nat
  BY DEF Tree, Shaped, Nodes
<1>2. \E f : f = [i \in Nodes |-> TypeOf(nodes[i], Parts(f, i))]
  BY <1>1, MeaningExists DEF Means
<1>3. Meaning = [i \in Nodes |-> TypeOf(nodes[i], Parts(Meaning, i))]
  BY <1>2, Zenon DEF Meaning, Parts
<1> QED
  BY <1>3

LEMMA UnderUnfolds ==
  ASSUME Tree
  PROVE  \A i \in Nodes :
           Under[i] = {i} \cup UNION {Under[c] : c \in Members(nodes[i].children)}
<1>1. Nodes = 1..Len(nodes) /\ Len(nodes) \in Nat
  BY DEF Tree, Shaped, Nodes
<1> DEFINE below == [i \in Nodes |-> Members(nodes[i].children)]
<1>2. \A i \in 1..Len(nodes) : below[i] \in SUBSET (1..(i - 1))
  BY <1>1 DEF Tree, Shaped, Members
<1>3. \E f : Reaches(f, below, Len(nodes))
  <2> HIDE DEF below
  <2> QED
    BY <1>1, <1>2, ReachExists
<1>4. \E f : f = [i \in Nodes |-> {i} \cup UNION {f[c] : c \in Members(nodes[i].children)}]
  <2>1. PICK f : f = [i \in Nodes |-> {i} \cup UNION {f[c] : c \in below[i]}]
    BY <1>1, <1>3 DEF Reaches
  <2>2. [i \in Nodes |-> {i} \cup UNION {f[c] : c \in below[i]}]
          = [i \in Nodes |-> {i} \cup UNION {f[c] : c \in Members(nodes[i].children)}]
    OBVIOUS
  <2> QED
    BY <2>1, <2>2
<1>5. Under = [i \in Nodes |-> {i} \cup UNION {Under[c] : c \in Members(nodes[i].children)}]
  BY <1>4, Zenon DEF Under
<1> QED
  BY <1>5

(***************************************************************************)
(* The operands of a node, and the visits a pass makes from it.            *)
(***************************************************************************)
LEMMA SeqElements ==
  ASSUME NEW S, NEW s \in Seq(S)
  PROVE  /\ Len(s) \in Nat /\ DOMAIN s = 1..Len(s)
         /\ \A k \in 1..Len(s) : s[k] \in S
         /\ IF s = <<>> THEN Len(s) = 0 ELSE Len(s) >= 1
         /\ Members(s) \in SUBSET S
<1>1. \A k \in 1..Len(s) : s[k] \in S
  BY ElementOfSeq
<1>2. Len(s) \in Nat /\ DOMAIN s = 1..Len(s)
  OBVIOUS
<1>3. s # <<>> => Len(s) >= 1
  BY EmptySeq
<1> QED
  BY <1>1, <1>2, <1>3 DEF Members

LEMMA NodesCounted ==
  ASSUME Tree
  PROVE  Nodes = 1..Len(nodes) /\ Len(nodes) \in Nat
BY DEF Tree, Shaped, Nodes

LEMMA Operands ==
  ASSUME Tree, NEW i \in Nodes
  PROVE  /\ i \in Nat \ {0} /\ 1..(i - 1) \in SUBSET Nodes
         /\ nodes[i].kind \in Kinds /\ nodes[i].number \in Nat
         /\ nodes[i].children \in Seq(1..(i - 1))
         /\ Len(nodes[i].children) \in Nat
         /\ DOMAIN nodes[i].children = 1..Len(nodes[i].children)
         /\ nodes[i].kind \in LeafKinds => nodes[i].children = <<>>
         /\ nodes[i].kind \in ArithmeticKinds \cup {"eq", "less", "logical", "access"}
              => Len(nodes[i].children) = 2
         /\ nodes[i].kind \in {"minus", "not"} => Len(nodes[i].children) = 1
         /\ nodes[i].kind = "call" => Len(nodes[i].children) >= 1
<1>1. nodes[i].children \in Seq(1..(i - 1)) /\ nodes[i] \in NodeSet
  BY DEF Tree, Shaped, Nodes
<1>2. IF nodes[i].kind \in LeafKinds THEN nodes[i].children = <<>>
      ELSE Len(nodes[i].children) \in Arities(nodes[i].kind)
  BY DEF Tree, Shaped
<1>3. i \in 1..Len(nodes) /\ Nodes = 1..Len(nodes) /\ Len(nodes) \in Nat
  BY NodesCounted
<1>4. nodes[i].kind \in BranchKinds => nodes[i].kind \notin LeafKinds
  BY DEF BranchKinds, LeafKinds, ArithmeticKinds
<1>5. nodes[i].kind \in Kinds /\ nodes[i].number \in Nat
  BY <1>1 DEF NodeSet
<1>6. MaxArity \in Nat
  BY EntriesAssumption
<1>7. /\ nodes[i].kind \in ArithmeticKinds \cup {"eq", "less", "logical", "access"}
           => Arities(nodes[i].kind) = {2}
      /\ nodes[i].kind \in {"minus", "not"} => Arities(nodes[i].kind) = {1}
      /\ nodes[i].kind = "call" => Arities(nodes[i].kind) = 1..(MaxArity + 1)
  BY DEF Arities, ArithmeticKinds
<1>8. nodes[i].kind \in ArithmeticKinds
                         \cup {"eq", "less", "logical", "access", "minus", "not", "call"}
        => nodes[i].kind \in BranchKinds
  BY DEF BranchKinds
<1>9. Len(nodes[i].children) \in Nat /\ DOMAIN nodes[i].children = 1..Len(nodes[i].children)
  BY <1>1, SeqElements
<1>10. i \in Nat \ {0} /\ 1..(i - 1) \in SUBSET Nodes
  BY <1>3
<1>11. /\ nodes[i].kind \in ArithmeticKinds \cup {"eq", "less", "logical", "access"}
            => Len(nodes[i].children) = 2
       /\ nodes[i].kind \in {"minus", "not"} => Len(nodes[i].children) = 1
  BY <1>2, <1>4, <1>7, <1>8
<1>12. nodes[i].kind = "call" => Len(nodes[i].children) >= 1
  BY <1>2, <1>4, <1>6, <1>7, <1>8
<1> QED
  BY <1>1, <1>2, <1>5, <1>9, <1>10, <1>11, <1>12

LEMMA VisitedOperands ==
  ASSUME Tree, NEW i \in Nodes
  PROVE  /\ CheckerVisits(nodes[i]) \in Seq(Members(nodes[i].children))
         /\ GeneratorVisits(nodes[i]) \in Seq(Members(nodes[i].children))
         /\ Members(nodes[i].children) \in SUBSET (1..(i - 1))
<1> DEFINE c == nodes[i].children
           S == Members(c)
<1>1. c \in Seq(1..(i - 1)) /\ Len(c) \in Nat /\ DOMAIN c = 1..Len(c)
  BY Operands
<1>2. /\ nodes[i].kind = "call" => Len(c) >= 1
      /\ nodes[i].kind = "access" => Len(c) = 2
  BY Operands DEF ArithmeticKinds
<1> HIDE DEF c
<1>3. S \in SUBSET (1..(i - 1)) /\ \A k \in 1..Len(c) : c[k] \in S
  <2>1. \A k \in 1..Len(c) : c[k] \in 1..(i - 1)
    BY <1>1, ElementOfSeq
  <2> QED
    BY <1>1, <2>1 DEF Members
<1>4. c \in Seq(S) /\ (c # <<>> => Len(c) >= 1)
  <2>1. c # <<>> => Len(c) >= 1
    BY <1>1, SeqElements
  <2>2. c = [k \in 1..Len(c) |-> c[k]]
    BY <1>1
  <2>3. c \in [1..Len(c) -> S]
    <3> HIDE DEF S
    <3> QED
      BY <1>3, <2>2
  <2> QED
    BY <1>1, <2>1, <2>3
<1> HIDE DEF S
<1>5. CheckerVisits(nodes[i]) \in Seq(S)
  <2>1. <<>> \in Seq(S)
    OBVIOUS
  <2>2. Len(c) >= 1 => c[1] \in S
    BY <1>1, <1>3
  <2>3. nodes[i].kind = "access" => c[1] \in S /\ c[2] \in S
    BY <1>1, <1>2, <1>3
  <2>4. c # <<>> => <<c[1]>> \o c \in Seq(S)
    BY <1>4, <2>2
  <2> QED
    BY <1>2, <2>1, <2>2, <2>3, <2>4, <1>4 DEF CheckerVisits, c
<1>6. GeneratorVisits(nodes[i]) \in Seq(S)
  <2>1. nodes[i].kind = "call" => Tail(c) \in Seq(S)
    BY <1>1, <1>2, <1>4, HeadTailProperties
  <2> QED
    BY <2>1, <1>4 DEF GeneratorVisits, c
<1> QED
  BY <1>3, <1>5, <1>6 DEF S, c

(* What each pass visits, kind by kind. *)
LEMMA VisitsByKind ==
  ASSUME Tree, NEW i \in Nodes
  PROVE  LET c == nodes[i].children
             check == CheckerVisits(nodes[i])
             generate == GeneratorVisits(nodes[i])
         IN  /\ nodes[i].kind \in LeafKinds => check = <<>> /\ generate = <<>>
             /\ nodes[i].kind \in ArithmeticKinds \cup {"minus", "not", "logical"}
                  => check = c /\ generate = c
             /\ nodes[i].kind \in {"eq", "less"} => check = <<>>
             /\ nodes[i].kind = "eq" => generate = c
             /\ nodes[i].kind = "less" => generate = <<>>
             /\ nodes[i].kind = "call" =>
                  /\ check = <<c[1]>>
                  /\ generate = Tail(c) /\ Len(Tail(c)) = Len(c) - 1
                  /\ \A k \in 1..(Len(c) - 1) : Tail(c)[k] = c[k + 1]
             /\ nodes[i].kind = "access" => check = <<c[2], c[1]>> /\ generate = c
             /\ nodes[i].kind = "array" =>
                  /\ generate = c
                  /\ c = <<>> => check = <<>>
                  /\ c # <<>> => /\ Len(c) >= 1 /\ Len(check) = Len(c) + 1 /\ check[1] = c[1]
                                  /\ \A k \in 1..Len(c) : check[k + 1] = c[k]
<1> DEFINE c == nodes[i].children
<1>1. c \in Seq(1..(i - 1)) /\ Len(c) \in Nat /\ DOMAIN c = 1..Len(c)
  BY Operands
<1>2. /\ nodes[i].kind \in LeafKinds => c = <<>>
      /\ nodes[i].kind = "call" => Len(c) >= 1
  BY Operands
<1>3. nodes[i].kind = "call" =>
        Len(Tail(c)) = Len(c) - 1 /\ \A k \in 1..(Len(c) - 1) : Tail(c)[k] = c[k + 1]
  <2> HIDE DEF c
  <2>1. nodes[i].kind = "call" => c # <<>>
    BY <1>1, <1>2
  <2> QED
    BY <2>1, <1>1, HeadTailProperties
<1>4. c # <<>> => /\ Len(c) >= 1 /\ Len(<<c[1]>> \o c) = Len(c) + 1
                  /\ (<<c[1]>> \o c)[1] = c[1]
                  /\ \A k \in 1..Len(c) : (<<c[1]>> \o c)[k + 1] = c[k]
  <2> HIDE DEF c
  <2> SUFFICES ASSUME c # <<>>
               PROVE  /\ Len(c) >= 1 /\ Len(<<c[1]>> \o c) = Len(c) + 1
                      /\ (<<c[1]>> \o c)[1] = c[1]
                      /\ \A k \in 1..Len(c) : (<<c[1]>> \o c)[k + 1] = c[k]
    OBVIOUS
  <2>1. Len(c) >= 1 /\ c[1] \in 1..(i - 1)
    <3>1. Len(c) >= 1
      BY <1>1, SeqElements
    <3>2. 1 \in 1..Len(c)
      BY <1>1, <3>1
    <3> QED
      BY <1>1, <3>1, <3>2, ElementOfSeq
  <2>2. <<c[1]>> \in Seq(1..(i - 1)) /\ Len(<<c[1]>>) = 1 /\ <<c[1]>>[1] = c[1]
    BY <2>1
  <2>3. /\ Len(<<c[1]>> \o c) = Len(<<c[1]>>) + Len(c)
        /\ \A k \in 1..(Len(<<c[1]>>) + Len(c)) : (<<c[1]>> \o c)[k] =
             IF k <= Len(<<c[1]>>) THEN <<c[1]>>[k] ELSE c[k - Len(<<c[1]>>)]
    BY <1>1, <2>2, ConcatProperties
  <2>4. \A k \in 1..(1 + Len(c)) : (<<c[1]>> \o c)[k] = IF k <= 1 THEN c[1] ELSE c[k - 1]
    BY <2>2, <2>3
  <2> QED
    BY <1>1, <2>1, <2>2, <2>3, <2>4
<1> HIDE DEF c
<1>5. /\ nodes[i].kind \in LeafKinds => CheckerVisits(nodes[i]) = c /\ GeneratorVisits(nodes[i]) = c
      /\ nodes[i].kind \in ArithmeticKinds \cup {"minus", "not", "logical"}
           => CheckerVisits(nodes[i]) = c /\ GeneratorVisits(nodes[i]) = c
      /\ nodes[i].kind \in {"eq", "less"} => CheckerVisits(nodes[i]) = <<>>
      /\ nodes[i].kind = "eq" => GeneratorVisits(nodes[i]) = c
      /\ nodes[i].kind = "less" => GeneratorVisits(nodes[i]) = <<>>
  BY DEF CheckerVisits, GeneratorVisits, LeafKinds, ArithmeticKinds, c
<1>6. /\ nodes[i].kind = "call" =>
           CheckerVisits(nodes[i]) = <<c[1]>> /\ GeneratorVisits(nodes[i]) = Tail(c)
      /\ nodes[i].kind = "access" =>
           CheckerVisits(nodes[i]) = <<c[2], c[1]>> /\ GeneratorVisits(nodes[i]) = c
      /\ nodes[i].kind = "array" =>
           /\ GeneratorVisits(nodes[i]) = c
           /\ CheckerVisits(nodes[i]) = IF c # <<>> THEN <<c[1]>> \o c ELSE c
  BY DEF CheckerVisits, GeneratorVisits, c
<1> QED
  BY <1>2, <1>3, <1>4, <1>5, <1>6 DEF c

LEMMA CheckedUnderUnfolds ==
  ASSUME Tree
  PROVE  \A i \in Nodes :
           CheckedUnder[i] =
             {i} \cup UNION {CheckedUnder[c] : c \in Members(CheckerVisits(nodes[i]))}
<1>1. Nodes = 1..Len(nodes) /\ Len(nodes) \in Nat
  BY NodesCounted
<1> DEFINE below == [i \in Nodes |-> Members(CheckerVisits(nodes[i]))]
<1>2. \A i \in 1..Len(nodes) : below[i] \in SUBSET (1..(i - 1))
  <2> SUFFICES ASSUME NEW i \in Nodes
               PROVE  Members(CheckerVisits(nodes[i])) \in SUBSET (1..(i - 1))
    BY <1>1
  <2>1. CheckerVisits(nodes[i]) \in Seq(Members(nodes[i].children))
    BY VisitedOperands
  <2>2. Members(CheckerVisits(nodes[i])) \in SUBSET Members(nodes[i].children)
    BY <2>1, SeqElements
  <2> QED
    BY <2>2, VisitedOperands
<1>3. \E f : Reaches(f, below, Len(nodes))
  <2> HIDE DEF below
  <2> QED
    BY <1>1, <1>2, ReachExists
<1>4. \E f : f = [i \in Nodes |->
                   {i} \cup UNION {f[c] : c \in Members(CheckerVisits(nodes[i]))}]
  <2>1. PICK f : f = [i \in Nodes |-> {i} \cup UNION {f[c] : c \in below[i]}]
    BY <1>1, <1>3 DEF Reaches
  <2>2. [i \in Nodes |-> {i} \cup UNION {f[c] : c \in below[i]}]
          = [i \in Nodes |-> {i} \cup UNION {f[c] : c \in Members(CheckerVisits(nodes[i]))}]
    OBVIOUS
  <2> QED
    BY <2>1, <2>2
<1>5. CheckedUnder =
        [i \in Nodes |-> {i} \cup UNION {CheckedUnder[c] : c \in Members(CheckerVisits(nodes[i]))}]
  BY <1>4, Zenon DEF CheckedUnder
<1> QED
  BY <1>5

(***************************************************************************)
(* What is below a node, and what it means.                                *)
(***************************************************************************)
LEMMA BelowNodes ==
  ASSUME Tree, NEW i \in Nodes
  PROVE  /\ i \in Under[i]
         /\ \A k \in DOMAIN nodes[i].children :
              /\ nodes[i].children[k] \in Nodes /\ nodes[i].children[k] < i
              /\ Under[nodes[i].children[k]] \in SUBSET Under[i]
         /\ i \in CheckedUnder[i]
         /\ \A k \in DOMAIN CheckerVisits(nodes[i]) :
              CheckedUnder[CheckerVisits(nodes[i])[k]] \in SUBSET CheckedUnder[i]
         /\ \A j \in CheckedUnder[i] :
              j = i \/ \E k \in DOMAIN CheckerVisits(nodes[i]) :
                        j \in CheckedUnder[CheckerVisits(nodes[i])[k]]
<1>1. \A k \in DOMAIN nodes[i].children :
        nodes[i].children[k] \in Nodes /\ nodes[i].children[k] < i
  <2>1. nodes[i].children \in Seq(1..(i - 1)) /\ i \in Nat /\ 1..(i - 1) \in SUBSET Nodes
    BY Operands
  <2>2. \A k \in DOMAIN nodes[i].children : nodes[i].children[k] \in 1..(i - 1)
    BY <2>1, SeqElements
  <2> QED
    BY <2>1, <2>2
<1>2. Under[i] = {i} \cup UNION {Under[c] : c \in Members(nodes[i].children)}
  BY UnderUnfolds
<1>3. CheckedUnder[i] =
        {i} \cup UNION {CheckedUnder[c] : c \in Members(CheckerVisits(nodes[i]))}
  BY CheckedUnderUnfolds
<1> QED
  BY <1>1, <1>2, <1>3 DEF Members

LEMMA CheckedUnderNodes ==
  ASSUME Tree
  PROVE  \A i \in Nodes : CheckedUnder[i] \in SUBSET Nodes
<1> DEFINE bad == {i \in Nodes : ~ (CheckedUnder[i] \in SUBSET Nodes)}
<1>1. ASSUME bad # {} PROVE FALSE
  <2>1. PICK i \in bad : \A k \in bad : i <= k
    <3>1. bad \in SUBSET Nat
      BY NodesCounted
    <3> HIDE DEF bad
    <3> QED
      BY <3>1, <1>1, Least
  <2>2. CheckedUnder[i] =
          {i} \cup UNION {CheckedUnder[c] : c \in Members(CheckerVisits(nodes[i]))}
    BY CheckedUnderUnfolds
  <2>3. ASSUME NEW c \in Members(CheckerVisits(nodes[i]))
        PROVE  CheckedUnder[c] \in SUBSET Nodes
    <3>1. Members(CheckerVisits(nodes[i])) \in SUBSET Members(nodes[i].children)
      BY VisitedOperands, SeqElements
    <3>2. c \in 1..(i - 1) /\ i \in Nat
      BY <3>1, VisitedOperands, NodesCounted
    <3>3. c \in Nodes /\ ~ (i <= c)
      BY <3>2, NodesCounted
    <3> QED
      BY <3>3, <2>1
  <2> QED
    BY <2>2, <2>3
<1> QED
  BY <1>1

AnyType == [dims : Seq(Nat), base : Bases \cup {"none", "wrong"}]

LEMMA Clones ==
  ASSUME NEW t \in AnyType
  PROVE  /\ Clone(t) \in AnyType /\ Clone(t).dims = t.dims
         /\ Clone(Clone(t)) = Clone(t)
         /\ t \in Types => Clone(t) \in Types
         /\ t \in Written => Clone(t) \in Written
         /\ \A u \in {NoType, Wrong, Dirty, Int32, Bool, Str} : Clone(t) = u <=> t = u
         /\ HasDirty(Clone(t)) <=> HasDirty(t)
         /\ t.base # "Slice" => Clone(t) = t
<1> DEFINE base == IF t.base = "Slice" THEN "Pointer" ELSE t.base
<1>1. /\ t.dims \in Seq(Nat) /\ t.base \in Bases \cup {"none", "wrong"}
      /\ t \in Types <=> t.base \in Bases
      /\ t \in Written <=> t.base \in Bases \ {"Dirty"}
      /\ t = [dims |-> t.dims, base |-> t.base]
  BY DEF AnyType, Types, Written
<1>2. Clone(t) = [dims |-> t.dims, base |-> base]
  BY DEF Clone, AnyType
<1>3. base \in Bases \cup {"none", "wrong"} /\ base # "Slice"
  BY <1>1 DEF Bases
<1>4. Clone(Clone(t)) = Clone(t)
  BY <1>2, <1>3 DEF Clone
<1>5. ASSUME NEW u \in {NoType, Wrong, Dirty, Int32, Bool, Str}
      PROVE  Clone(t) = u <=> t = u
  <2>1. \E b \in {"none", "wrong", "Dirty", "Int", "Bool", "String"} :
          u = [dims |-> <<>>, base |-> b]
    BY DEF NoType, Wrong, Dirty, Int32, Bool, Str, Scalar
  <2> QED
    BY <2>1, <1>1, <1>2
<1>6. HasDirty(Clone(t)) <=> HasDirty(t)
  BY <1>2 DEF HasDirty
<1>7. t \in Types => Clone(t) \in Types
  BY <1>1, <1>2 DEF Types, Bases
<1>8. t \in Written => Clone(t) \in Written
  BY <1>1, <1>2 DEF Written, Bases
<1> QED
  BY <1>1, <1>2, <1>3, <1>4, <1>5, <1>6, <1>7, <1>8 DEF AnyType

LEMMA TypeSets ==
  /\ Types \in SUBSET AnyType /\ Written \in SUBSET Types
  /\ {NoType, Wrong} \in SUBSET AnyType /\ {Int32, Bool, Str, Scalar("Float")} \in SUBSET Written
  /\ Dirty \in Types /\ Wrong \notin Types /\ NoType \notin Types /\ Wrong # NoType
  /\ \A t \in Written \cup {Wrong, NoType} : ~ HasDirty(t)
  /\ NoType \notin Written
BY DEF AnyType, Types, Written, Bases, NoType, Wrong, Dirty, Int32, Bool, Str, Scalar, HasDirty

LEMMA Redimensioned ==
  ASSUME NEW t \in AnyType, NEW d
  PROVE  [t EXCEPT !.dims = d] = [dims |-> d, base |-> t.base]
BY DEF AnyType

LEMMA DimensionedTyped ==
  ASSUME NEW t \in AnyType, NEW d \in Seq(Nat)
  PROVE  LET u == [dims |-> d, base |-> t.base] IN
         /\ u \in AnyType /\ u.base = t.base /\ u.dims = d
         /\ t \in Types => u \in Types
         /\ t \in Written => u \in Written
         /\ Clone(t) = t => Clone(u) = u
<1>1. /\ t = [dims |-> t.dims, base |-> t.base]
      /\ t.base \in Bases \cup {"none", "wrong"}
      /\ t \in Types => t.base \in Bases
      /\ t \in Written => t.base \in Bases \ {"Dirty"}
  BY DEF AnyType, Types, Written
<1>2. Clone(t) = t <=> t.base # "Slice"
  BY <1>1 DEF Clone
<1> QED
  BY <1>1, <1>2 DEF AnyType, Types, Written, Clone

LEMMA Elements ==
  ASSUME NEW t \in AnyType, t.dims # <<>>
  PROVE  /\ Element(t) \in AnyType /\ Element(t).base = t.base
         /\ Head(t.dims) \in Nat
         /\ Element(t).dims = Tail(t.dims)
         /\ t \in Types => Element(t) \in Types
         /\ t \in Written => Element(t) \in Written
         /\ Clone(t) = t => Clone(Element(t)) = Element(t)
<1>1. t.dims \in Seq(Nat)
  BY DEF AnyType
<1>2. Head(t.dims) \in Nat /\ Tail(t.dims) \in Seq(Nat)
  BY <1>1
<1>3. Element(t) = [dims |-> Tail(t.dims), base |-> t.base]
  BY Redimensioned DEF Element
<1> DEFINE d == Tail(t.dims)
<1>4. LET u == [dims |-> d, base |-> t.base] IN
      /\ u \in AnyType /\ u.base = t.base /\ u.dims = d
      /\ t \in Types => u \in Types
      /\ t \in Written => u \in Written
      /\ Clone(t) = t => Clone(u) = u
  <2>1. d \in Seq(Nat)
    BY <1>2
  <2> HIDE DEF d
  <2> QED
    BY <2>1, DimensionedTyped
<1> QED
  BY <1>2, <1>3, <1>4

LEMMA Arrays ==
  ASSUME NEW t \in AnyType, NEW n \in Nat
  PROVE  /\ ArrayOf(n, t) \in AnyType /\ ArrayOf(n, t).base = t.base
         /\ ArrayOf(n, t).dims # <<>>
         /\ t \in Types => ArrayOf(n, t) \in Types
         /\ t \in Written => ArrayOf(n, t) \in Written
         /\ Clone(t) = t => Clone(ArrayOf(n, t)) = ArrayOf(n, t)
<1>1. t.dims \in Seq(Nat)
  BY DEF AnyType
<1>2. <<n>> \o t.dims \in Seq(Nat) /\ <<n>> \o t.dims # <<>>
  <2>1. <<n>> \in Seq(Nat) /\ Len(<<n>>) = 1
    OBVIOUS
  <2>2. <<n>> \o t.dims \in Seq(Nat) /\ Len(<<n>> \o t.dims) = Len(<<n>>) + Len(t.dims)
    BY <1>1, <2>1, ConcatProperties
  <2>3. Len(<<n>> \o t.dims) # 0
    BY <1>1, <2>1, <2>2
  <2> QED
    BY <2>2, <2>3
<1>3. ArrayOf(n, t) = [dims |-> <<n>> \o t.dims, base |-> t.base]
  BY Redimensioned DEF ArrayOf
<1> DEFINE d == <<n>> \o t.dims
<1>4. LET u == [dims |-> d, base |-> t.base] IN
      /\ u \in AnyType /\ u.base = t.base /\ u.dims = d
      /\ t \in Types => u \in Types
      /\ t \in Written => u \in Written
      /\ Clone(t) = t => Clone(u) = u
  <2>1. d \in Seq(Nat)
    BY <1>2
  <2> HIDE DEF d
  <2> QED
    BY <2>1, DimensionedTyped
<1> QED
  BY <1>2, <1>3, <1>4

(* What a node means, kind by kind. *)
LEMMA TypeOfByKind ==
  ASSUME NEW node, NEW part
  PROVE  LET operand(k) == nodes[node.children[k]]
             type == TypeOf(node, part)
         IN
         /\ node.kind \in LeafKinds \ {"id"} => type = LiteralType(node.kind)
         /\ node.kind = "id" =>
              type = IF node.name \in DOMAIN Variables THEN Variables[node.name].type
                     ELSE IF node.name \in DOMAIN Functions THEN Functions[node.name].ret
                     ELSE Wrong
         /\ node.kind \in {"eq", "less", "logical"} => type = Bool
         /\ node.kind = "call" =>
              type = IF operand(1).kind = "id" /\ ~ Callable(operand(1).name)
                       THEN Wrong ELSE part[1]
         /\ node.kind \in ArithmeticKinds =>
              type = IF part[1] = part[2] /\ part[1] \notin {Str, Bool} THEN part[1] ELSE Wrong
         /\ node.kind \in {"minus", "not"} => type = part[1]
         /\ node.kind = "access" =>
              type = IF part[1].dims # <<>>
                          /\ ValidIndex(operand(2), part[2], Head(part[1].dims))
                       THEN Element(part[1]) ELSE Wrong
         /\ node.kind = "array" =>
              type = IF part # <<>> /\ part[1] # Wrong /\ \A k \in DOMAIN part : part[k] = part[1]
                       THEN ArrayOf(Len(part), part[1]) ELSE Wrong
<1>1. node.kind \in LeafKinds \ {"id"} => TypeOf(node, part) = LiteralType(node.kind)
  BY DEF TypeOf, LeafKinds, ArithmeticKinds
<1>2. node.kind = "id" =>
        TypeOf(node, part) =
          IF node.name \in DOMAIN Variables THEN Variables[node.name].type
          ELSE IF node.name \in DOMAIN Functions THEN Functions[node.name].ret
          ELSE Wrong
  BY DEF TypeOf, LeafKinds, ArithmeticKinds
<1>3. node.kind \in {"eq", "less", "logical"} => TypeOf(node, part) = Bool
  BY DEF TypeOf, LeafKinds, ArithmeticKinds
<1>4. node.kind = "call" =>
        TypeOf(node, part) =
          IF nodes[node.children[1]].kind = "id" /\ ~ Callable(nodes[node.children[1]].name)
            THEN Wrong ELSE part[1]
  BY DEF TypeOf, LeafKinds, ArithmeticKinds
<1>5. node.kind \in ArithmeticKinds =>
        TypeOf(node, part) =
          IF part[1] = part[2] /\ part[1] \notin {Str, Bool} THEN part[1] ELSE Wrong
  BY DEF TypeOf, LeafKinds, ArithmeticKinds
<1>6. node.kind \in {"minus", "not"} => TypeOf(node, part) = part[1]
  BY DEF TypeOf, LeafKinds, ArithmeticKinds
<1>7. node.kind = "access" =>
        TypeOf(node, part) =
          IF part[1].dims # <<>>
               /\ ValidIndex(nodes[node.children[2]], part[2], Head(part[1].dims))
            THEN Element(part[1]) ELSE Wrong
  BY DEF TypeOf, LeafKinds, ArithmeticKinds
<1>8. node.kind = "array" =>
        TypeOf(node, part) =
          IF part # <<>> /\ part[1] # Wrong /\ \A k \in DOMAIN part : part[k] = part[1]
            THEN ArrayOf(Len(part), part[1]) ELSE Wrong
  BY DEF TypeOf, LeafKinds, ArithmeticKinds
<1> QED
  BY <1>1, <1>2, <1>3, <1>4, <1>5, <1>6, <1>7, <1>8

(* It is a type a program can write, or wrong. *)
LEMMA TypeOfTyped ==
  ASSUME Tree, NEW i \in Nodes, NEW part \in Seq(Written \cup {Wrong}),
         Len(part) = Len(nodes[i].children)
  PROVE  TypeOf(nodes[i], part) \in Written \cup {Wrong}
<1> DEFINE c == nodes[i].children
           M == Written \cup {Wrong}
<1>1. /\ nodes[i].kind \in Kinds /\ Len(part) \in Nat
      /\ \A k \in 1..Len(part) : part[k] \in M
      /\ nodes[i].kind \in ArithmeticKinds \cup {"access"} => Len(part) = 2
      /\ nodes[i].kind \in {"minus", "not"} => Len(part) = 1
      /\ nodes[i].kind = "call" => Len(part) >= 1
  BY Operands, SeqElements
<1>2. CASE nodes[i].kind \in LeafKinds \ {"id"}
  <2>1. LiteralType(nodes[i].kind) \in Written
    BY <1>2, TypeSets DEF LiteralType, LeafKinds
  <2> QED
    BY <1>2, <2>1, TypeOfByKind
<1>3. CASE nodes[i].kind = "id"
  <2>1. /\ nodes[i].name \in DOMAIN Variables => Variables[nodes[i].name].type \in Written
        /\ nodes[i].name \in DOMAIN Functions => Functions[nodes[i].name].ret \in Written
    BY EntriesAssumption DEF VariableEntries, FunctionEntries
  <2> QED
    BY <1>3, <2>1, TypeOfByKind
<1>4. CASE nodes[i].kind \in {"eq", "less", "logical"}
  BY <1>4, TypeSets, TypeOfByKind
<1>5. CASE nodes[i].kind \in {"call", "minus", "not"} \cup ArithmeticKinds
  <2>1. part[1] \in M
    BY <1>1, <1>5
  <2> QED
    BY <1>5, <2>1, TypeOfByKind
<1>8. CASE nodes[i].kind = "access"
  <2>1. part[1] \in M
    BY <1>1, <1>8
  <2>2. part[1].dims # <<>> => Element(part[1]) \in Written
    <3>1. Wrong.dims = <<>>
      BY DEF Wrong, Scalar
    <3> QED
      BY <2>1, <3>1, Elements, TypeSets
  <2> QED
    BY <1>8, <2>1, <2>2, TypeOfByKind
<1>9. CASE nodes[i].kind = "array"
  <2>1. part # <<>> /\ part[1] # Wrong => ArrayOf(Len(part), part[1]) \in Written
    <3> SUFFICES ASSUME part # <<>>, part[1] # Wrong
                 PROVE  ArrayOf(Len(part), part[1]) \in Written
      OBVIOUS
    <3>1. Len(part) >= 1
      BY SeqElements
    <3>2. part[1] \in Written /\ Len(part) \in Nat
      BY <1>1, <3>1
    <3>3. part[1] \in AnyType
      BY <3>2, TypeSets
    <3> QED
      BY <3>2, <3>3, Arrays
  <2> QED
    BY <1>9, <2>1, TypeOfByKind
<1> QED
  BY <1>1, <1>2, <1>3, <1>4, <1>5, <1>8, <1>9 DEF Kinds, BranchKinds

LEMMA MeaningTyped ==
  ASSUME Tree
  PROVE  \A i \in Nodes :
           /\ Meaning[i] \in Written \cup {Wrong}
           /\ Parts(Meaning, i) \in Seq(Written \cup {Wrong})
           /\ Len(Parts(Meaning, i)) = Len(nodes[i].children)
           /\ \A k \in DOMAIN nodes[i].children :
                Parts(Meaning, i)[k] = Clone(Meaning[nodes[i].children[k]])
<1> DEFINE M == Written \cup {Wrong}
           bad == {i \in Nodes : Meaning[i] \notin M}
<1>0. ASSUME NEW i \in Nodes, \A k \in 1..(i - 1) : Meaning[k] \in M
      PROVE  Parts(Meaning, i) \in Seq(M) /\ Len(Parts(Meaning, i)) = Len(nodes[i].children)
  <2> DEFINE c == nodes[i].children
  <2>1. /\ DOMAIN c = 1..Len(c) /\ Len(c) \in Nat
        /\ \A k \in 1..Len(c) : c[k] \in 1..(i - 1)
    <3>1. c \in Seq(1..(i - 1))
      BY Operands
    <3> HIDE DEF c
    <3> QED
      BY <3>1, SeqElements
  <2>2. \A k \in 1..Len(c) : Clone(Meaning[c[k]]) \in M
    <3> TAKE k \in 1..Len(c)
    <3>1. Meaning[c[k]] \in M
      BY <1>0, <2>1
    <3>2. Clone(Wrong) = Wrong
      BY Clones, TypeSets
    <3>3. Meaning[c[k]] \in AnyType
      BY <3>1, TypeSets
    <3> QED
      BY <3>1, <3>2, <3>3, Clones
  <2>3. Parts(Meaning, i) = [k \in 1..Len(c) |-> Clone(Meaning[c[k]])]
    BY <2>1 DEF Parts
  <2> HIDE DEF c, M
  <2>4. [k \in 1..Len(c) |-> Clone(Meaning[c[k]])] \in Seq(M)
    BY <2>1, <2>2
  <2>5. Len([k \in 1..Len(c) |-> Clone(Meaning[c[k]])]) = Len(c)
    BY <2>1
  <2> QED
    BY <2>3, <2>4, <2>5 DEF c
<1>1. ASSUME bad # {} PROVE FALSE
  <2>1. PICK i \in bad : \A k \in bad : i <= k
    <3>1. bad \in SUBSET Nat
      BY NodesCounted
    <3> HIDE DEF bad
    <3> QED
      BY <3>1, <1>1, Least
  <2>2. \A k \in 1..(i - 1) : Meaning[k] \in M
    <3>1. i \in Nat /\ 1..(i - 1) \in SUBSET Nodes
      BY Operands
    <3>2. \A k \in 1..(i - 1) : ~ (i <= k)
      BY <3>1
    <3> QED
      BY <2>1, <3>1, <3>2
  <2>3. Parts(Meaning, i) \in Seq(M) /\ Len(Parts(Meaning, i)) = Len(nodes[i].children)
    BY <1>0, <2>2
  <2>4. Meaning[i] = TypeOf(nodes[i], Parts(Meaning, i))
    BY MeaningUnfolds
  <2>5. Meaning[i] \in M
    BY <2>3, <2>4, TypeOfTyped
  <2> QED
    BY <2>5
<1>2. \A i \in Nodes : Meaning[i] \in M
  BY <1>1
<1>3. \A i \in Nodes : 1..(i - 1) \in SUBSET Nodes
  BY Operands
<1>4. \A i \in Nodes :
        Parts(Meaning, i) \in Seq(M) /\ Len(Parts(Meaning, i)) = Len(nodes[i].children)
  BY <1>0, <1>2, <1>3
<1>5. \A i \in Nodes : \A k \in DOMAIN nodes[i].children :
        Parts(Meaning, i)[k] = Clone(Meaning[nodes[i].children[k]])
  BY DEF Parts
<1> QED
  BY <1>2, <1>4, <1>5

(***************************************************************************)
(* The visits that have not returned nest as the nodes do.                 *)
(***************************************************************************)
VisitsOf(i) == IF pass = "check" THEN CheckerVisits(nodes[i]) ELSE GeneratorVisits(nodes[i])

Nested ==
  /\ calls \in Seq([node : Nat, done : Nat])
  /\ \A k \in DOMAIN calls :
       /\ calls[k].node \in Nodes
       /\ calls[k].done <= Len(VisitsOf(calls[k].node))
       /\ k < Len(calls) => calls[k].done < Len(VisitsOf(calls[k].node))
       /\ calls[k].node =
            IF k = 1 THEN Root ELSE VisitsOf(calls[k - 1].node)[calls[k - 1].done + 1]
  /\ \A k, m \in DOMAIN calls : k < m => calls[m].node < calls[k].node

LEMMA VisitsOfNode ==
  ASSUME Tree, NEW i \in Nodes
  PROVE  /\ Len(VisitsOf(i)) \in Nat /\ DOMAIN VisitsOf(i) = 1..Len(VisitsOf(i))
         /\ \A k \in 1..Len(VisitsOf(i)) :
              /\ VisitsOf(i)[k] \in Nodes /\ VisitsOf(i)[k] < i /\ VisitsOf(i)[k] \in Nat
              /\ VisitsOf(i)[k] \in Members(nodes[i].children)
<1> DEFINE S == Members(nodes[i].children)
<1>1. VisitsOf(i) \in Seq(S)
  BY VisitedOperands DEF VisitsOf
<1>2. S \in SUBSET (1..(i - 1)) /\ i \in Nat /\ 1..(i - 1) \in SUBSET Nodes
  BY VisitedOperands, Operands
<1> HIDE DEF S
<1>3. /\ Len(VisitsOf(i)) \in Nat /\ DOMAIN VisitsOf(i) = 1..Len(VisitsOf(i))
      /\ \A k \in 1..Len(VisitsOf(i)) : VisitsOf(i)[k] \in S
  BY <1>1, SeqElements
<1>4. \A c \in S : c \in Nodes /\ c < i /\ c \in Nat
  BY <1>2
<1> QED
  BY <1>3, <1>4 DEF S

LEMMA TopOfCalls ==
  ASSUME Tree, Nested, calls # <<>>
  PROVE  /\ Len(calls) \in Nat /\ Len(calls) >= 1 /\ DOMAIN calls = 1..Len(calls)
         /\ Len(calls) \in DOMAIN calls
         /\ Top = calls[Len(calls)] /\ Top.node \in Nodes /\ Top.done \in Nat
         /\ Node = nodes[Top.node] /\ Visits = VisitsOf(Top.node)
         /\ Top.done <= Len(Visits) /\ Len(Visits) \in Nat
         /\ \A k \in DOMAIN calls : calls[k].node \in Nodes /\ calls[k].done \in Nat
<1> DEFINE F == [node : Nat, done : Nat]
<1>1. calls \in Seq(F)
  BY DEF Nested
<1>2. /\ Len(calls) \in Nat /\ Len(calls) >= 1 /\ DOMAIN calls = 1..Len(calls)
      /\ \A k \in 1..Len(calls) : calls[k] \in F
  <2> HIDE DEF F
  <2> QED
    BY <1>1, SeqElements
<1>3. Len(calls) \in DOMAIN calls
  BY <1>2
<1>4. Top = calls[Len(calls)] /\ Node = nodes[Top.node] /\ Visits = VisitsOf(Top.node)
  BY DEF Top, Node, Visits, VisitsOf
<1>5. Top.node \in Nodes /\ Top.done <= Len(Visits)
  BY <1>3, <1>4 DEF Nested
<1>6. Len(Visits) \in Nat
  BY <1>4, <1>5, VisitsOfNode
<1>7. \A k \in DOMAIN calls : calls[k].node \in Nodes /\ calls[k].done \in Nat
  BY <1>2 DEF Nested
<1> QED
  BY <1>2, <1>3, <1>4, <1>5, <1>6, <1>7

LEMMA Pushed ==
  ASSUME Tree, Nested, calls # <<>>, Top.done < Len(Visits), Accept
  PROVE  /\ Nested'
         /\ Len(calls') = Len(calls) + 1 /\ DOMAIN calls' = 1..(Len(calls) + 1)
         /\ \A k \in 1..Len(calls) : calls'[k] = calls[k]
         /\ calls'[Len(calls) + 1].node = Visits[Top.done + 1]
         /\ calls'[Len(calls) + 1].done = 0
         /\ Visits[Top.done + 1] \in Nodes
<1> DEFINE c == Visits[Top.done + 1]
<1>1. /\ Len(calls) \in Nat /\ Len(calls) >= 1 /\ DOMAIN calls = 1..Len(calls)
      /\ Top = calls[Len(calls)] /\ Top.node \in Nodes /\ Top.done \in Nat
      /\ Visits = VisitsOf(Top.node) /\ Len(Visits) \in Nat
      /\ \A k \in DOMAIN calls : calls[k].node \in Nodes /\ calls[k].done \in Nat
  BY TopOfCalls
<1>2. Top.done + 1 \in 1..Len(Visits)
  BY <1>1
<1>3. c \in Nodes /\ c < Top.node /\ c \in Nat
  BY <1>1, <1>2, VisitsOfNode
<1>4. nodes' = nodes /\ pass' = pass /\ calls' = Append(calls, Frame(c))
  BY DEF Accept, text
<1> HIDE DEF c
<1>5. Frame(c) \in [node : Nat, done : Nat] /\ Frame(c).node = c /\ Frame(c).done = 0
  BY <1>3 DEF Frame
<1>6. /\ calls' \in Seq([node : Nat, done : Nat])
      /\ Len(calls') = Len(calls) + 1 /\ DOMAIN calls' = 1..(Len(calls) + 1)
      /\ \A k \in 1..Len(calls) : calls'[k] = calls[k]
      /\ calls'[Len(calls) + 1] = Frame(c)
  BY <1>1, <1>4, <1>5 DEF Nested
<1>7. /\ Nodes' = Nodes /\ Root' = Root
      /\ \A i : VisitsOf(i)' = VisitsOf(i)
  BY <1>4 DEF Nodes, Root, VisitsOf, CheckerVisits, GeneratorVisits
<1>8. ASSUME NEW k \in DOMAIN calls'
      PROVE  /\ calls'[k].node \in Nodes
             /\ calls'[k].done <= Len(VisitsOf(calls'[k].node))
             /\ k < Len(calls') => calls'[k].done < Len(VisitsOf(calls'[k].node))
             /\ calls'[k].node =
                  IF k = 1 THEN Root ELSE VisitsOf(calls'[k - 1].node)[calls'[k - 1].done + 1]
  <2>1. CASE k = Len(calls) + 1
    <3>1. calls'[k].node = c /\ calls'[k].done = 0
      BY <2>1, <1>5, <1>6
    <3>2. k # 1 /\ k - 1 = Len(calls) /\ Len(calls) \in 1..Len(calls) /\ ~ (k < Len(calls'))
      BY <2>1, <1>1, <1>6
    <3>3. calls'[k - 1] = Top
      BY <3>2, <1>1, <1>6
    <3>4. 0 <= Len(VisitsOf(c))
      BY <1>3, VisitsOfNode
    <3> QED
      BY <3>1, <3>2, <3>3, <3>4, <1>1, <1>3 DEF c
  <2>2. CASE k \in 1..Len(calls)
    <3>1. calls'[k] = calls[k] /\ k \in DOMAIN calls
      BY <2>2, <1>1, <1>6
    <3>2. k # 1 => k - 1 \in 1..Len(calls) /\ calls'[k - 1] = calls[k - 1]
      BY <2>2, <1>1, <1>6
    <3>3. calls[k].done < Len(VisitsOf(calls[k].node))
      BY <3>1, <1>1 DEF Nested
    <3>4. /\ calls[k].node \in Nodes
          /\ calls[k].done <= Len(VisitsOf(calls[k].node))
          /\ calls[k].node =
               IF k = 1 THEN Root ELSE VisitsOf(calls[k - 1].node)[calls[k - 1].done + 1]
      BY <3>1 DEF Nested
    <3> QED
      BY <3>1, <3>2, <3>3, <3>4
  <2> QED
    BY <2>1, <2>2, <1>1, <1>6
<1>9. ASSUME NEW k \in DOMAIN calls', NEW m \in DOMAIN calls', k < m
      PROVE  calls'[m].node < calls'[k].node
  <2>1. k \in 1..Len(calls) /\ calls'[k] = calls[k] /\ k \in DOMAIN calls
    BY <1>1, <1>6, <1>9
  <2>2. CASE m = Len(calls) + 1
    <3>1. calls'[m].node = c /\ c < Top.node /\ c \in Nat
      BY <2>2, <1>3, <1>5, <1>6
    <3>2. k = Len(calls) \/ Top.node < calls[k].node
      <4>1. Len(calls) \in DOMAIN calls /\ (k = Len(calls) \/ k < Len(calls))
        BY <2>1, <1>1
      <4> QED
        BY <4>1, <2>1, <1>1 DEF Nested
    <3>3. Top.node \in Nat /\ calls[k].node \in Nat
      BY <2>1, <1>1, NodesCounted
    <3> QED
      BY <3>1, <3>2, <3>3, <2>1, <1>1
  <2>3. CASE m \in 1..Len(calls)
    BY <2>1, <2>3, <1>1, <1>6, <1>9 DEF Nested
  <2> QED
    BY <2>2, <2>3, <1>1, <1>6
<1>10. Nested'
  BY <1>6, <1>7, <1>8, <1>9 DEF Nested
<1> QED
  BY <1>3, <1>5, <1>6, <1>10 DEF c

LEMMA Popped ==
  ASSUME Tree, Nested, calls # <<>>, calls' = Returned, nodes' = nodes, pass' = pass
  PROVE  /\ Nested'
         /\ Len(calls') = Len(calls) - 1 /\ DOMAIN calls' = 1..(Len(calls) - 1)
         /\ calls' = <<>> <=> Len(calls) = 1
         /\ Len(calls) = 1 => Top.node = Root
         /\ \A k \in 1..(Len(calls) - 1) :
              /\ calls'[k].node = calls[k].node
              /\ calls'[k].done = IF k = Len(calls) - 1 THEN calls[k].done + 1 ELSE calls[k].done
         /\ Len(calls) # 1 =>
              /\ Len(calls) - 1 \in DOMAIN calls
              /\ calls[Len(calls) - 1].done + 1 \in 1..Len(VisitsOf(calls[Len(calls) - 1].node))
              /\ Top.node =
                   VisitsOf(calls[Len(calls) - 1].node)[calls[Len(calls) - 1].done + 1]
<1> DEFINE n == Len(calls) - 1
           F == [node : Nat, done : Nat]
           rest == SubSeq(calls, 1, n)
<1>1. /\ Len(calls) \in Nat /\ Len(calls) >= 1 /\ DOMAIN calls = 1..Len(calls)
      /\ Top = calls[Len(calls)] /\ Top.node \in Nodes
      /\ \A k \in DOMAIN calls : calls[k].node \in Nodes /\ calls[k].done \in Nat
      /\ n \in Nat
  BY TopOfCalls
<1>2. calls \in Seq(F) /\ \A k \in 1..Len(calls) : calls[k] \in F
  <2>1. calls \in Seq(F)
    BY DEF Nested
  <2> HIDE DEF F
  <2> QED
    BY <2>1, SeqElements
<1> HIDE DEF F
<1>3. rest \in Seq(F) /\ Len(rest) = n /\ \A k \in 1..n : rest[k] = calls[k]
  <2>1. \A k \in 1..n : calls[k] \in F
    BY <1>1, <1>2
  <2>2. n \in Int /\ 1 \in Int
    BY <1>1
  <2> HIDE DEF n
  <2>3. /\ rest \in Seq(F) /\ Len(rest) = IF 1 <= n THEN n - 1 + 1 ELSE 0
        /\ \A k \in 1..(n - 1 + 1) : rest[k] = calls[1 + k - 1]
    BY <2>1, <2>2, SubSeqProperties
  <2> QED
    BY <1>1, <2>2, <2>3
<1>4. calls' = IF n = 0 THEN <<>> ELSE [rest EXCEPT ![n].done = @ + 1]
  BY DEF Returned
<1>5. ASSUME n # 0
      PROVE  /\ n \in 1..n
             /\ calls' = [rest EXCEPT ![n] = [node |-> calls[n].node, done |-> calls[n].done + 1]]
             /\ [node |-> calls[n].node, done |-> calls[n].done + 1] \in F
  <2>1. n \in 1..n /\ n \in 1..Len(calls)
    BY <1>1, <1>5
  <2>2. calls[n] \in F /\ rest[n] = calls[n]
    BY <2>1, <1>2, <1>3
  <2>3. [calls[n] EXCEPT !.done = calls[n].done + 1]
          = [node |-> calls[n].node, done |-> calls[n].done + 1]
    BY <2>2 DEF F
  <2>4. calls' = [rest EXCEPT ![n] = [rest[n] EXCEPT !.done = rest[n].done + 1]]
    BY <1>4, <1>5
  <2>5. [node |-> calls[n].node, done |-> calls[n].done + 1] \in F
    BY <2>2 DEF F
  <2> HIDE DEF n, rest
  <2> QED
    BY <2>1, <2>2, <2>3, <2>4, <2>5
<1>6. /\ calls' \in Seq(F) /\ Len(calls') = n /\ DOMAIN calls' = 1..n
      /\ \A k \in 1..n : /\ calls'[k].node = calls[k].node
                         /\ calls'[k].done = IF k = n THEN calls[k].done + 1 ELSE calls[k].done
  <2>1. CASE n = 0
    <3>1. calls' = <<>>
      BY <2>1, <1>4
    <3> HIDE DEF n
    <3> QED
      BY <2>1, <3>1
  <2>2. CASE n # 0
    <3> DEFINE r == [node |-> calls[n].node, done |-> calls[n].done + 1]
    <3>1. calls' = [rest EXCEPT ![n] = r] /\ r \in F /\ n \in 1..n
      BY <2>2, <1>5
    <3>2. r.node = calls[n].node /\ r.done = calls[n].done + 1
      OBVIOUS
    <3> HIDE DEF r, n, rest
    <3>3. /\ calls' \in Seq(F) /\ Len(calls') = n
          /\ \A k \in 1..n : calls'[k] = IF k = n THEN r ELSE rest[k]
      BY <3>1, <1>3, ExceptSeq
    <3>4. DOMAIN calls' = 1..n
      BY <3>3
    <3> QED
      BY <3>1, <3>2, <3>3, <3>4, <1>3
  <2> QED
    BY <2>1, <2>2
<1>7. /\ Nodes' = Nodes /\ Root' = Root
      /\ \A i : VisitsOf(i)' = VisitsOf(i)
  BY DEF Nodes, Root, VisitsOf, CheckerVisits, GeneratorVisits
<1>8. ASSUME NEW k \in 1..n
      PROVE  /\ k \in DOMAIN calls /\ k < Len(calls)
             /\ calls[k].node \in Nodes /\ calls[k].done \in Nat
             /\ calls[k].done < Len(VisitsOf(calls[k].node))
             /\ calls[k].node =
                  IF k = 1 THEN Root ELSE VisitsOf(calls[k - 1].node)[calls[k - 1].done + 1]
             /\ Len(VisitsOf(calls[k].node)) \in Nat
  <2>1. k \in DOMAIN calls /\ k < Len(calls)
    BY <1>1
  <2>2. calls[k].node \in Nodes /\ calls[k].done \in Nat
    BY <2>1, <1>1
  <2> QED
    BY <2>1, <2>2, VisitsOfNode DEF Nested
<1>9. ASSUME NEW k \in DOMAIN calls'
      PROVE  /\ calls'[k].node \in Nodes
             /\ calls'[k].done <= Len(VisitsOf(calls'[k].node))
             /\ k < Len(calls') => calls'[k].done < Len(VisitsOf(calls'[k].node))
             /\ calls'[k].node =
                  IF k = 1 THEN Root ELSE VisitsOf(calls'[k - 1].node)[calls'[k - 1].done + 1]
  <2>1. k \in 1..n /\ calls'[k].node = calls[k].node
    BY <1>6
  <2>2. k # 1 => k - 1 \in 1..n /\ k - 1 # n
    BY <2>1, <1>1
  <2>3. k # 1 => calls'[k - 1].node = calls[k - 1].node /\ calls'[k - 1].done = calls[k - 1].done
    BY <2>2, <1>6
  <2>4. calls'[k].done = IF k = n THEN calls[k].done + 1 ELSE calls[k].done
    BY <2>1, <1>6
  <2>5. calls'[k].done <= Len(VisitsOf(calls[k].node))
    BY <2>1, <2>4, <1>8
  <2>6. k < Len(calls') => calls'[k].done < Len(VisitsOf(calls[k].node))
    BY <2>1, <2>4, <1>6, <1>8
  <2> QED
    BY <2>1, <2>3, <2>5, <2>6, <1>8
<1>10. ASSUME NEW k \in DOMAIN calls', NEW m \in DOMAIN calls', k < m
       PROVE  calls'[m].node < calls'[k].node
  BY <1>6, <1>8, <1>10 DEF Nested
<1>11. Nested'
  BY <1>6, <1>7, <1>9, <1>10 DEF Nested, F
<1>12. Len(calls) = 1 => Top.node = Root
  BY <1>1 DEF Nested
<1>13. Len(calls) # 1 =>
         /\ n \in DOMAIN calls /\ calls[n].done + 1 \in 1..Len(VisitsOf(calls[n].node))
         /\ Top.node = VisitsOf(calls[n].node)[calls[n].done + 1]
  <2> SUFFICES ASSUME Len(calls) # 1
               PROVE  /\ n \in DOMAIN calls
                      /\ calls[n].done + 1 \in 1..Len(VisitsOf(calls[n].node))
                      /\ Top.node = VisitsOf(calls[n].node)[calls[n].done + 1]
    OBVIOUS
  <2>1. n \in 1..n /\ Len(calls) \in DOMAIN calls
    BY <1>1
  <2>2. Top.node = VisitsOf(calls[n].node)[calls[n].done + 1]
    BY <1>1, <2>1 DEF Nested
  <2>3. /\ calls[n].done \in Nat /\ Len(VisitsOf(calls[n].node)) \in Nat
        /\ calls[n].done < Len(VisitsOf(calls[n].node)) /\ n \in DOMAIN calls
    BY <2>1, <1>8
  <2> HIDE DEF n
  <2> QED
    BY <2>2, <2>3
<1>14. calls' = <<>> <=> Len(calls) = 1
  <2>1. calls' = <<>> <=> n = 0
    <3> HIDE DEF n, rest
    <3>1. IF calls' = <<>> THEN Len(calls') = 0 ELSE Len(calls') >= 1
      BY <1>6, SeqElements
    <3> QED
      BY <1>6, <3>1
  <2> QED
    BY <2>1, <1>1
<1> QED
  BY <1>6, <1>11, <1>12, <1>13, <1>14

(* The meaning of a node from that of its operands, kind by kind. *)
LEMMA MeaningByKind ==
  ASSUME Tree, NEW i \in Nodes
  PROVE  LET c == nodes[i].children
             part(k) == Clone(Meaning[c[k]])
             meaning == Meaning[i]
         IN
         /\ meaning \in Written \cup {Wrong} /\ meaning \in AnyType
         /\ nodes[i].kind \in LeafKinds \ {"id"} => meaning = LiteralType(nodes[i].kind)
         /\ nodes[i].kind = "id" =>
              meaning = IF nodes[i].name \in DOMAIN Variables THEN Variables[nodes[i].name].type
                        ELSE IF nodes[i].name \in DOMAIN Functions
                          THEN Functions[nodes[i].name].ret
                        ELSE Wrong
         /\ nodes[i].kind \in {"eq", "less", "logical"} => meaning = Bool
         /\ nodes[i].kind = "call" =>
              meaning = IF nodes[c[1]].kind = "id" /\ ~ Callable(nodes[c[1]].name)
                          THEN Wrong ELSE part(1)
         /\ nodes[i].kind \in ArithmeticKinds =>
              meaning = IF part(1) = part(2) /\ part(1) \notin {Str, Bool} THEN part(1) ELSE Wrong
         /\ nodes[i].kind \in {"minus", "not"} => meaning = part(1)
         /\ nodes[i].kind = "access" =>
              meaning = IF part(1).dims # <<>>
                             /\ ValidIndex(nodes[c[2]], part(2), Head(part(1).dims))
                          THEN Element(part(1)) ELSE Wrong
         /\ nodes[i].kind = "array" =>
              meaning = IF c # <<>> /\ part(1) # Wrong /\ \A k \in DOMAIN c : part(k) = part(1)
                          THEN ArrayOf(Len(c), part(1)) ELSE Wrong
<1> DEFINE c == nodes[i].children
           M == Written \cup {Wrong}
           part == Parts(Meaning, i)
<1>1. /\ Meaning[i] \in M /\ part \in Seq(M) /\ Len(part) = Len(c)
      /\ \A k \in DOMAIN c : part[k] = Clone(Meaning[c[k]])
  BY MeaningTyped
<1>2. Meaning[i] = TypeOf(nodes[i], part)
  BY MeaningUnfolds
<1>3. /\ Len(c) \in Nat /\ DOMAIN c = 1..Len(c)
      /\ nodes[i].kind \in ArithmeticKinds \cup {"access"} => Len(c) = 2
      /\ nodes[i].kind \in {"minus", "not"} => Len(c) = 1
      /\ nodes[i].kind = "call" => Len(c) >= 1
      /\ c \in Seq(1..(i - 1))
  BY Operands
<1>4. M \in SUBSET AnyType
  BY TypeSets
<1> HIDE DEF M, part, c
<1>5. /\ nodes[i].kind \in ArithmeticKinds \cup {"access"} => 1 \in DOMAIN c /\ 2 \in DOMAIN c
      /\ nodes[i].kind \in {"minus", "not", "call"} => 1 \in DOMAIN c
  BY <1>3
<1>6. /\ nodes[i].kind \in ArithmeticKinds \cup {"access"} =>
           part[1] = Clone(Meaning[c[1]]) /\ part[2] = Clone(Meaning[c[2]])
      /\ nodes[i].kind \in {"minus", "not", "call"} => part[1] = Clone(Meaning[c[1]])
  BY <1>1, <1>5
<1>7. /\ part = <<>> <=> c = <<>>
      /\ c # <<>> => 1 \in DOMAIN c
      /\ DOMAIN part = DOMAIN c
  <2>1. /\ IF c = <<>> THEN Len(c) = 0 ELSE Len(c) >= 1
        /\ IF part = <<>> THEN Len(part) = 0 ELSE Len(part) >= 1
        /\ DOMAIN part = 1..Len(part)
    BY <1>1, <1>3, SeqElements
  <2> QED
    BY <2>1, <1>1, <1>3
<1>8. nodes[i].kind = "array" =>
        Meaning[i] = IF c # <<>> /\ Clone(Meaning[c[1]]) # Wrong
                          /\ \A k \in DOMAIN c : Clone(Meaning[c[k]]) = Clone(Meaning[c[1]])
                       THEN ArrayOf(Len(c), Clone(Meaning[c[1]])) ELSE Wrong
  <2>1. nodes[i].kind = "array" =>
          Meaning[i] = IF part # <<>> /\ part[1] # Wrong /\ \A k \in DOMAIN part : part[k] = part[1]
                         THEN ArrayOf(Len(part), part[1]) ELSE Wrong
    BY <1>2, TypeOfByKind
  <2> QED
    BY <2>1, <1>1, <1>7
<1>9. nodes[i].kind \in LeafKinds \ {"id"} => Meaning[i] = LiteralType(nodes[i].kind)
  BY <1>2, TypeOfByKind
<1>10. /\ nodes[i].kind = "id" =>
            Meaning[i] = IF nodes[i].name \in DOMAIN Variables THEN Variables[nodes[i].name].type
                         ELSE IF nodes[i].name \in DOMAIN Functions
                           THEN Functions[nodes[i].name].ret
                         ELSE Wrong
       /\ nodes[i].kind \in {"eq", "less", "logical"} => Meaning[i] = Bool
  BY <1>2, TypeOfByKind
<1>11. /\ nodes[i].kind = "call" =>
            Meaning[i] = IF nodes[c[1]].kind = "id" /\ ~ Callable(nodes[c[1]].name)
                           THEN Wrong ELSE part[1]
       /\ nodes[i].kind \in ArithmeticKinds =>
            Meaning[i] = IF part[1] = part[2] /\ part[1] \notin {Str, Bool} THEN part[1] ELSE Wrong
  BY <1>2, TypeOfByKind DEF c
<1>12. /\ nodes[i].kind \in {"minus", "not"} => Meaning[i] = part[1]
       /\ nodes[i].kind = "access" =>
            Meaning[i] = IF part[1].dims # <<>>
                              /\ ValidIndex(nodes[c[2]], part[2], Head(part[1].dims))
                           THEN Element(part[1]) ELSE Wrong
  BY <1>2, TypeOfByKind DEF c
<1>13. Meaning[i] \in M /\ Meaning[i] \in AnyType
  BY <1>1, <1>4
<1> QED
  BY <1>6, <1>8, <1>9, <1>10, <1>11, <1>12, <1>13 DEF c, M

-----------------------------------------------------------------------------
(***************************************************************************)
(* The checker: what is known of a node it is done with, and of the visits *)
(* it is in the middle of.                                                 *)
(***************************************************************************)
Filled ==
  /\ pass \in {"parse", "check", "generate"}
  /\ outcome \in {"running", "rejected", "generated", "threw", "undefined", "malformed"}
  /\ errors \in Nat
  /\ pass = "parse" =>
       /\ calls = <<>> /\ errors = 0 /\ types = <<>> /\ values = <<>>
       /\ outcome = "running"
  /\ pass # "parse" =>
       /\ open = <<Root>> /\ Root \in Nodes /\ IsStatement(use)
       /\ DOMAIN types = Nodes /\ DOMAIN values = Nodes
       /\ \A i \in Nodes : types[i] \in {NoType} \cup Types /\ Clone(types[i]) = types[i]
  /\ pass = "generate" => errors = 0
  /\ pass # "generate" => \A i \in DOMAIN values : values[i] = NoValue

TypedAs(i, type) ==
  \/ LeftUntyped(i) /\ type = NoType
  \/ HasDirty(type) /\ \E j \in CheckedUnder[i] : CallsVariable(j)
  \/ type = Clone(Meaning[i])
Done(i) ==
  /\ types[i] # NoType \/ LeftUntyped(i)
  /\ errors = 0 => \A j \in CheckedUnder[i] : TypedAs(j, types[j])
WrongVisited == \E i \in CheckedNodes : Meaning[i] = Wrong

(* The elements of an array that have been compared with the first one. *)
Compared(k) == calls[k].done - (IF k = Len(calls) THEN 2 ELSE 1)
Checking ==
  pass = "check" =>
    /\ calls # <<>> => IsChecked(use.kind)
    /\ calls = <<>> /\ IsChecked(use.kind) => Done(Root)
    /\ \A k \in DOMAIN calls : LET i == calls[k].node IN
         /\ CheckedUnder[i] \in SUBSET CheckedNodes
         /\ \A m \in 1..calls[k].done : Done(CheckerVisits(nodes[i])[m])
         /\ nodes[i].kind = "array" => \A m \in 1..Compared(k) :
              types[nodes[i].children[m]] = types[nodes[i].children[1]]
                /\ types[nodes[i].children[1]] # NoType
    /\ outcome = "running" /\ errors > 0 => WrongVisited

(* The type and the errors a visit returns with. *)
Judged(i, type, reported) ==
  /\ Clone(type) = type
  /\ type # NoType \/ LeftUntyped(i)
  /\ errors + reported = 0 => TypedAs(i, type) /\ Top.done = Len(Visits)
  /\ reported = 1 => WrongVisited
CheckReturns ==
  /\ Running("check") /\ calls # <<>>
  /\ \E type \in {NoType} \cup Types : \E reported \in {0, 1} :
       Judged(Top.node, type, reported) /\ Datatype(type, reported)

Known == Tree /\ Nested /\ Filled /\ Checking

LEMMA Here ==
  ASSUME Known, Running("check"), calls # <<>>
  PROVE  /\ Top.node \in Nodes /\ Node = nodes[Top.node]
         /\ Visits = CheckerVisits(nodes[Top.node])
         /\ Top.done \in Nat /\ Len(Visits) \in Nat /\ Top.done <= Len(Visits)
         /\ DOMAIN Visits = 1..Len(Visits)
         /\ Top.node \in CheckedUnder[Top.node] /\ Top.node \in CheckedNodes
         /\ CheckedUnder[Top.node] \in SUBSET CheckedNodes
         /\ \A m \in 1..Top.done :
              /\ Visits[m] \in Nodes /\ Done(Visits[m])
              /\ CheckedUnder[Visits[m]] \in SUBSET CheckedUnder[Top.node]
         /\ Node.kind = "array" => \A m \in 1..(Top.done - 2) :
              TypeOfChild(m) = TypeOfChild(1) /\ ~ Untyped(1)
<1>1. /\ Top.node \in Nodes /\ Node = nodes[Top.node] /\ Visits = VisitsOf(Top.node)
      /\ Top.done \in Nat /\ Len(Visits) \in Nat /\ Top.done <= Len(Visits)
      /\ Len(calls) \in DOMAIN calls /\ Top = calls[Len(calls)]
  BY TopOfCalls DEF Known
<1>2. Visits = CheckerVisits(nodes[Top.node])
  BY <1>1 DEF Running, VisitsOf
<1>3. /\ DOMAIN Visits = 1..Len(Visits)
      /\ \A m \in 1..Len(Visits) : Visits[m] \in Nodes
  BY <1>1, VisitsOfNode DEF Known
<1>4. /\ CheckedUnder[Top.node] \in SUBSET CheckedNodes
      /\ \A m \in 1..Top.done : Done(CheckerVisits(nodes[Top.node])[m])
      /\ nodes[Top.node].kind = "array" => \A m \in 1..Compared(Len(calls)) :
           types[nodes[Top.node].children[m]] = types[nodes[Top.node].children[1]]
             /\ types[nodes[Top.node].children[1]] # NoType
  BY <1>1 DEF Known, Checking, Running
<1>5. /\ Top.node \in CheckedUnder[Top.node]
      /\ \A m \in DOMAIN CheckerVisits(nodes[Top.node]) :
           CheckedUnder[CheckerVisits(nodes[Top.node])[m]] \in SUBSET CheckedUnder[Top.node]
  BY <1>1, BelowNodes DEF Known
<1>6. Compared(Len(calls)) = Top.done - 2
  BY <1>1 DEF Compared
<1>7. Node.kind = "array" => \A m \in 1..(Top.done - 2) :
        TypeOfChild(m) = TypeOfChild(1) /\ ~ Untyped(1)
  BY <1>1, <1>4, <1>6 DEF TypeOfChild, Untyped, Child
<1>8. \A m \in 1..Top.done : m \in 1..Len(Visits)
  BY <1>1
<1> QED
  BY <1>1, <1>2, <1>3, <1>4, <1>5, <1>7, <1>8

LEMMA CallsVariableWrong ==
  ASSUME Tree, NEW i \in Nodes, CallsVariable(i)
  PROVE  Meaning[i] = Wrong
BY MeaningByKind DEF CallsVariable, Callable

(* The type of an operand the checker is done with. *)
LEMMA Operand ==
  ASSUME Known, pass # "parse", NEW i \in Nodes, CheckedUnder[i] \in SUBSET CheckedNodes,
         NEW c \in Nodes, CheckedUnder[c] \in SUBSET CheckedUnder[i], Done(c),
         types[c] # NoType
  PROVE  /\ types[c] \in Types /\ types[c] \in AnyType /\ Clone(types[c]) = types[c]
         /\ errors = 0 =>
              \/ /\ HasDirty(types[c]) /\ WrongVisited
                 /\ \E j \in CheckedUnder[i] : CallsVariable(j)
              \/ /\ types[c] = Clone(Meaning[c]) /\ ~ HasDirty(types[c])
                 /\ types[c] # Wrong
<1>1. types[c] \in Types /\ types[c] \in AnyType /\ Clone(types[c]) = types[c]
  BY TypeSets DEF Known, Filled
<1>2. ASSUME errors = 0
      PROVE  \/ /\ HasDirty(types[c]) /\ WrongVisited
                /\ \E j \in CheckedUnder[i] : CallsVariable(j)
             \/ /\ types[c] = Clone(Meaning[c]) /\ ~ HasDirty(types[c])
                /\ types[c] # Wrong
  <2>1. c \in CheckedUnder[c]
    BY BelowNodes DEF Known
  <2>2. TypedAs(c, types[c])
    BY <1>2, <2>1 DEF Done
  <2>3. CASE HasDirty(types[c]) /\ \E j \in CheckedUnder[c] : CallsVariable(j)
    <3>1. PICK j \in CheckedUnder[c] : CallsVariable(j)
      BY <2>3
    <3>2. j \in Nodes /\ j \in CheckedNodes /\ j \in CheckedUnder[i]
      BY CheckedUnderNodes DEF Known
    <3>3. Meaning[j] = Wrong
      BY <3>1, <3>2, CallsVariableWrong DEF Known
    <3> QED
      BY <2>3, <3>1, <3>2, <3>3 DEF WrongVisited
  <2>4. CASE types[c] = Clone(Meaning[c])
    <3>1. Meaning[c] \in Written \cup {Wrong} /\ Meaning[c] \in AnyType
      BY MeaningByKind DEF Known
    <3>2. ~ HasDirty(Meaning[c]) /\ Wrong \notin Types
      BY <3>1, TypeSets
    <3>3. ~ HasDirty(Clone(Meaning[c]))
      BY <3>1, <3>2, Clones
    <3> QED
      BY <2>4, <3>2, <3>3, <1>1
  <2> QED
    BY <2>2, <2>3, <2>4 DEF TypedAs
<1> QED
  BY <1>1, <1>2

(* The node of the innermost visit, with the names its operands go by. *)
LEMMA OperandTypes ==
  ASSUME Known, Running("check"), calls # <<>>,
         NEW k \in DOMAIN Node.children, NEW m \in 1..Top.done, Visits[m] = Child(k),
         ~ Untyped(k)
  PROVE  /\ Child(k) = nodes[Top.node].children[k]
         /\ TypeOfChild(k) \in Types /\ TypeOfChild(k) \in AnyType
         /\ Clone(TypeOfChild(k)) = TypeOfChild(k) /\ TypeOfChild(k) # NoType
         /\ errors = 0 =>
              \/ /\ HasDirty(TypeOfChild(k)) /\ WrongVisited
                 /\ \E j \in CheckedUnder[Top.node] : CallsVariable(j)
              \/ /\ TypeOfChild(k) = Clone(Meaning[nodes[Top.node].children[k]])
                 /\ ~ HasDirty(TypeOfChild(k)) /\ TypeOfChild(k) # Wrong
<1>1. /\ Top.node \in Nodes /\ Node = nodes[Top.node]
      /\ CheckedUnder[Top.node] \in SUBSET CheckedNodes
      /\ Visits[m] \in Nodes /\ Done(Visits[m])
      /\ CheckedUnder[Visits[m]] \in SUBSET CheckedUnder[Top.node]
  BY Here
<1>2. Child(k) = nodes[Top.node].children[k] /\ TypeOfChild(k) = types[Child(k)]
  BY <1>1 DEF Child, TypeOfChild
<1>3. types[Child(k)] # NoType /\ pass # "parse"
  BY <1>2 DEF Untyped, Running
<1> HIDE DEF Known
<1> QED
  BY <1>1, <1>2, <1>3, Operand

LEMMA Returning ==
  ASSUME Running("check"), calls # <<>>,
         NEW type \in {NoType} \cup Types, NEW reported \in {0, 1},
         Judged(Top.node, type, reported), Datatype(type, reported)
  PROVE  CheckReturns
BY DEF CheckReturns

LEMMA LiteralTypes ==
  ASSUME NEW kind \in LeafKinds \ {"id"}
  PROVE  LiteralType(kind) \in Written /\ Clone(LiteralType(kind)) = LiteralType(kind)
<1>1. LiteralType(kind) \in {Int32, Bool, Str, Scalar("Float")}
  BY DEF LiteralType, LeafKinds
<1> QED
  BY <1>1, TypeSets DEF Clone, Int32, Bool, Str, Scalar

LEMMA JudgedLiteral ==
  ASSUME Known, CheckLiteral
  PROVE  CheckReturns
<1>1. /\ Running("check") /\ calls # <<>> /\ Top.done = Len(Visits)
      /\ Node.kind \in LeafKinds \ {"id"} /\ Datatype(LiteralType(Node.kind), 0)
  BY DEF CheckLiteral, Finishes, Visited
<1>2. Top.node \in Nodes /\ Node = nodes[Top.node]
  BY <1>1, Here
<1>3. LiteralType(Node.kind) \in Written /\ Clone(LiteralType(Node.kind)) = LiteralType(Node.kind)
  BY <1>1, LiteralTypes
<1>4. LiteralType(Node.kind) \in Types /\ LiteralType(Node.kind) # NoType
  BY <1>3, TypeSets
<1>5. Meaning[Top.node] = LiteralType(Node.kind)
  BY <1>1, <1>2, MeaningByKind DEF Known
<1>6. Judged(Top.node, LiteralType(Node.kind), 0)
  BY <1>1, <1>3, <1>4, <1>5 DEF Judged, TypedAs
<1> QED
  BY <1>1, <1>4, <1>6, Returning

LEMMA JudgedId ==
  ASSUME Known, CheckId
  PROVE  CheckReturns
<1>1. Running("check") /\ calls # <<>> /\ Top.done = Len(Visits) /\ Node.kind = "id"
  BY DEF CheckId, Finishes, Visited
<1>2. Top.node \in Nodes /\ Node = nodes[Top.node] /\ Top.node \in CheckedNodes
  BY <1>1, Here
<1>3. /\ Meaning[Top.node] =
           IF Node.name \in DOMAIN Variables THEN Variables[Node.name].type
           ELSE IF Node.name \in DOMAIN Functions THEN Functions[Node.name].ret
           ELSE Wrong
      /\ Meaning[Top.node] \in Written \cup {Wrong} /\ Meaning[Top.node] \in AnyType
  BY <1>1, <1>2, MeaningByKind DEF Known
<1>4. CASE Node.name \in DOMAIN Variables \/ Node.name \in DOMAIN Functions
  <2> DEFINE type == Clone(Meaning[Top.node])
  <2>1. Datatype(type, 0)
    BY <1>3, <1>4 DEF CheckId
  <2>2. Meaning[Top.node] \in Written
    BY <1>3, <1>4, EntriesAssumption DEF VariableEntries, FunctionEntries
  <2>3. type \in Written /\ Clone(type) = type
    BY <1>3, <2>2, Clones, TypeSets
  <2>4. type \in Types /\ type # NoType
    BY <2>3, TypeSets
  <2>5. Judged(Top.node, type, 0)
    BY <1>1, <2>3, <2>4 DEF Judged, TypedAs
  <2> QED
    BY <1>1, <2>1, <2>4, <2>5, Returning
<1>5. CASE ~ (Node.name \in DOMAIN Variables \/ Node.name \in DOMAIN Functions)
  <2>1. Datatype(Dirty, 1) /\ WrongVisited
    BY <1>2, <1>3, <1>5 DEF CheckId, WrongVisited
  <2>2. Dirty \in Types /\ Dirty # NoType /\ Clone(Dirty) = Dirty
    BY TypeSets, Clones
  <2>3. errors \in Nat
    BY DEF Known, Filled
  <2>4. Judged(Top.node, Dirty, 1)
    BY <2>1, <2>2, <2>3 DEF Judged
  <2> QED
    BY <1>1, <2>1, <2>2, <2>4, Returning
<1> QED
  BY <1>4, <1>5

(* What is reported is wrong, if nothing wrong has been reported before. *)
LEMMA Reporting ==
  ASSUME Known, Running("check"), calls # <<>>, Datatype(Dirty, 1),
         errors = 0 => WrongVisited
  PROVE  CheckReturns
<1>1. errors \in Nat
  BY DEF Known, Filled
<1>2. WrongVisited
  BY <1>1 DEF Known, Checking, Running
<1>3. Dirty \in Types /\ Dirty # NoType /\ Clone(Dirty) = Dirty
  BY TypeSets, Clones
<1>4. Judged(Top.node, Dirty, 1)
  BY <1>1, <1>2, <1>3 DEF Judged
<1> QED
  BY <1>3, <1>4, Returning

(* The operands of a node that visits them all, once and in order. *)
LEMMA BothOperands ==
  ASSUME Known, Visited("check"),
         Node.kind \in ArithmeticKinds \cup {"minus", "not", "logical"}
  PROVE  /\ Running("check") /\ calls # <<>> /\ Top.done = Len(Visits)
         /\ Top.node \in Nodes /\ Node = nodes[Top.node]
         /\ 1 \in DOMAIN Node.children /\ 1 \in 1..Top.done /\ Visits[1] = Child(1)
         /\ Node.kind \notin {"minus", "not"} =>
              2 \in DOMAIN Node.children /\ 2 \in 1..Top.done /\ Visits[2] = Child(2)
<1>1. Running("check") /\ calls # <<>> /\ Top.done = Len(Visits)
  BY DEF Visited
<1>2. Top.node \in Nodes /\ Node = nodes[Top.node] /\ Visits = CheckerVisits(nodes[Top.node])
  BY <1>1, Here
<1>3. Visits = Node.children
  BY <1>2, VisitsByKind DEF Known
<1>4. /\ DOMAIN Node.children = 1..Len(Node.children)
      /\ Node.kind \in ArithmeticKinds \cup {"logical"} => Len(Node.children) = 2
      /\ Node.kind \in {"minus", "not"} => Len(Node.children) = 1
  BY <1>2, Operands DEF Known
<1>5. Visits[1] = Child(1) /\ Visits[2] = Child(2)
  BY <1>3 DEF Child
<1>6. Top.done = Len(Node.children)
  BY <1>1, <1>3
<1>7. CASE Node.kind \in {"minus", "not"}
  BY <1>1, <1>2, <1>4, <1>5, <1>6, <1>7
<1>8. CASE Node.kind \in ArithmeticKinds \cup {"logical"}
  BY <1>1, <1>2, <1>4, <1>5, <1>6, <1>8
<1> QED
  BY <1>7, <1>8

LEMMA JudgedArithmetic ==
  ASSUME Known, CheckArithmetic
  PROVE  CheckReturns
<1> DEFINE i == Top.node
           l == TypeOfChild(1)
           r == TypeOfChild(2)
           c == nodes[i].children
<1>1. Visited("check") /\ Node.kind \in ArithmeticKinds /\ ~ Untyped(1) /\ ~ Untyped(2)
  BY DEF CheckArithmetic, Finishes
<1>2. /\ Running("check") /\ calls # <<>> /\ Top.done = Len(Visits)
      /\ i \in Nodes /\ Node = nodes[i]
      /\ 1 \in DOMAIN Node.children /\ 1 \in 1..Top.done /\ Visits[1] = Child(1)
      /\ 2 \in DOMAIN Node.children /\ 2 \in 1..Top.done /\ Visits[2] = Child(2)
  BY <1>1, BothOperands DEF ArithmeticKinds
<1>3. /\ l \in Types /\ Clone(l) = l /\ l # NoType
      /\ errors = 0 =>
           \/ HasDirty(l) /\ WrongVisited /\ \E j \in CheckedUnder[i] : CallsVariable(j)
           \/ l = Clone(Meaning[c[1]]) /\ ~ HasDirty(l) /\ l # Wrong
  BY <1>1, <1>2, OperandTypes
<1>4. errors = 0 =>
        \/ HasDirty(r) /\ WrongVisited /\ \E j \in CheckedUnder[i] : CallsVariable(j)
        \/ r = Clone(Meaning[c[2]]) /\ ~ HasDirty(r) /\ r # Wrong
  BY <1>1, <1>2, OperandTypes
<1>5. Meaning[i] = IF Clone(Meaning[c[1]]) = Clone(Meaning[c[2]])
                        /\ Clone(Meaning[c[1]]) \notin {Str, Bool}
                     THEN Clone(Meaning[c[1]]) ELSE Wrong
  BY <1>1, <1>2, MeaningByKind DEF Known
<1>6. i \in CheckedNodes
  BY <1>2, Here
<1> HIDE DEF i, l, r, c
<1>7. CASE ArithmeticFails(l, r)
  <2>1. Datatype(Dirty, 1)
    BY <1>7 DEF CheckArithmetic, l, r
  <2>2. errors = 0 => WrongVisited
    BY <1>3, <1>4, <1>5, <1>6, <1>7 DEF ArithmeticFails, WrongVisited
  <2> QED
    BY <1>2, <2>1, <2>2, Reporting
<1>8. CASE ~ ArithmeticFails(l, r)
  <2>1. Datatype(l, 0)
    BY <1>3, <1>8 DEF CheckArithmetic, l, r
  <2>2. errors + 0 = 0 => TypedAs(i, l)
    BY <1>3, <1>4, <1>5, <1>8 DEF ArithmeticFails, TypedAs, Known, Filled
  <2>3. Judged(i, l, 0)
    BY <1>2, <1>3, <2>2 DEF Judged
  <2> QED
    BY <1>2, <1>3, <2>1, <2>3, Returning DEF i
<1> QED
  BY <1>7, <1>8

LEMMA JudgedMinus ==
  ASSUME Known, CheckMinus
  PROVE  CheckReturns
<1> DEFINE i == Top.node
           l == TypeOfChild(1)
           c == nodes[i].children
<1>1. Visited("check") /\ Node.kind = "minus" /\ ~ Untyped(1) /\ Datatype(Clone(l), 0)
  BY DEF CheckMinus, Finishes
<1>2. /\ Running("check") /\ calls # <<>> /\ Top.done = Len(Visits)
      /\ i \in Nodes /\ Node = nodes[i]
      /\ 1 \in DOMAIN Node.children /\ 1 \in 1..Top.done /\ Visits[1] = Child(1)
  BY <1>1, BothOperands
<1>3. /\ l \in Types /\ Clone(l) = l /\ l # NoType
      /\ errors = 0 =>
           \/ HasDirty(l) /\ WrongVisited /\ \E j \in CheckedUnder[i] : CallsVariable(j)
           \/ l = Clone(Meaning[c[1]]) /\ ~ HasDirty(l) /\ l # Wrong
  BY <1>1, <1>2, OperandTypes
<1>4. Meaning[i] = Clone(Meaning[c[1]])
  BY <1>1, <1>2, MeaningByKind DEF Known
<1> HIDE DEF i, l, c
<1>5. errors + 0 = 0 => TypedAs(i, l)
  BY <1>3, <1>4 DEF TypedAs, Known, Filled
<1>6. Judged(i, l, 0)
  BY <1>2, <1>3, <1>5 DEF Judged
<1> QED
  BY <1>1, <1>2, <1>3, <1>6, Returning DEF i

LEMMA JudgedLogical ==
  ASSUME Known, CheckLogical
  PROVE  CheckReturns
<1>1. /\ Visited("check") /\ Node.kind = "logical" /\ Datatype(Bool, 0)
      /\ Running("check") /\ calls # <<>> /\ Top.done = Len(Visits)
  BY DEF CheckLogical, Finishes, Visited
<1>2. Top.node \in Nodes /\ Node = nodes[Top.node]
  BY <1>1, Here
<1>3. Meaning[Top.node] = Bool
  BY <1>1, <1>2, MeaningByKind DEF Known
<1>4. Bool \in Types /\ Bool # NoType /\ Clone(Bool) = Bool
  BY TypeSets, Clones
<1>5. Judged(Top.node, Bool, 0)
  BY <1>1, <1>3, <1>4 DEF Judged, TypedAs
<1> QED
  BY <1>1, <1>4, <1>5, Returning

LEMMA JudgedComparison ==
  ASSUME Known, CheckComparison
  PROVE  CheckReturns
<1>1. /\ Visited("check") /\ Node.kind \in {"eq", "less"} /\ Datatype(NoType, 0)
      /\ Running("check") /\ calls # <<>> /\ Top.done = Len(Visits)
  BY DEF CheckComparison, Finishes, Visited
<1>2. Top.node \in Nodes /\ Node = nodes[Top.node]
  BY <1>1, Here
<1>3. LeftUntyped(Top.node)
  BY <1>1, <1>2 DEF LeftUntyped
<1>4. Clone(NoType) = NoType
  BY TypeSets, Clones
<1>5. Judged(Top.node, NoType, 0)
  BY <1>1, <1>3, <1>4 DEF Judged, TypedAs
<1> QED
  BY <1>1, <1>5, Returning

LEMMA JudgedCall ==
  ASSUME Known, CheckCall
  PROVE  CheckReturns
<1> DEFINE i == Top.node
           c == nodes[i].children
           callee == nodes[c[1]]
<1>1. /\ Visited("check") /\ Node.kind = "call"
      /\ Running("check") /\ calls # <<>> /\ Top.done = Len(Visits)
  BY DEF CheckCall, Finishes, Visited
<1>2. /\ i \in Nodes /\ Node = nodes[i] /\ Visits = CheckerVisits(nodes[i])
      /\ i \in CheckedUnder[i]
  BY <1>1, Here
<1>3. /\ Visits = <<c[1]>> /\ 1 \in DOMAIN c /\ c[1] \in Nodes
  <2>1. Visits = <<c[1]>> /\ DOMAIN c = 1..Len(c) /\ Len(c) >= 1 /\ Len(c) \in Nat
    BY <1>1, <1>2, VisitsByKind, Operands DEF Known
  <2>2. \A k \in DOMAIN c : c[k] \in Nodes
    BY <1>2, BelowNodes DEF Known
  <2> QED
    BY <2>1, <2>2
<1>4. 1 \in 1..Top.done /\ Visits[1] = Child(1) /\ Child(1) = c[1]
  BY <1>1, <1>2, <1>3 DEF Child
<1>5. Meaning[i] = IF callee.kind = "id" /\ ~ Callable(callee.name)
                     THEN Wrong ELSE Clone(Meaning[c[1]])
  BY <1>1, <1>2, MeaningByKind DEF Known
<1>6. callee.kind = "id" =>
        Meaning[c[1]] = IF callee.name \in DOMAIN Variables THEN Variables[callee.name].type
                        ELSE IF callee.name \in DOMAIN Functions THEN Functions[callee.name].ret
                        ELSE Wrong
  BY <1>3, MeaningByKind DEF Known
<1>e. errors \in Nat
  BY DEF Known, Filled
<1>7. CASE callee.kind = "id" /\ Callable(callee.name)
  <2> DEFINE type == Clone(Functions[callee.name].ret)
  <2>1. Datatype(type, 0)
    BY <1>4, <1>7 DEF CheckCall, IsNamed
  <2>2. Functions[callee.name].ret \in Written /\ Functions[callee.name].ret \in AnyType
    BY <1>7, EntriesAssumption, TypeSets DEF Callable, FunctionEntries
  <2>3. type \in Written /\ Clone(type) = type
    BY <2>2, Clones
  <2>4. type \in Types /\ type # NoType
    BY <2>3, TypeSets
  <2>5. type = Clone(Meaning[i])
    BY <1>5, <1>6, <1>7, <2>2, <2>3 DEF Callable
  <2>6. Judged(i, type, 0)
    BY <1>1, <2>3, <2>4, <2>5 DEF Judged, TypedAs
  <2> QED
    BY <1>1, <2>1, <2>4, <2>6, Returning DEF i
<1>8. CASE callee.kind = "id" /\ ~ Callable(callee.name)
  <2>1. Datatype(Dirty, 0)
    BY <1>4, <1>8 DEF CheckCall, IsNamed
  <2>2. Dirty \in Types /\ Dirty # NoType /\ Clone(Dirty) = Dirty /\ HasDirty(Dirty)
    BY TypeSets, Clones DEF HasDirty, Dirty, Scalar
  <2>3. ASSUME errors = 0 PROVE CallsVariable(i)
    <3>1. CASE callee.name \in DOMAIN Variables
      BY <1>1, <1>2, <1>8, <3>1 DEF CallsVariable
    <3>2. CASE callee.name \notin DOMAIN Variables
      <4>1. Meaning[c[1]] = Wrong
        BY <1>6, <1>8, <3>2 DEF Callable
      <4>2. Done(c[1]) /\ c[1] \in CheckedUnder[c[1]]
        BY <1>1, <1>3, <1>4, Here, BelowNodes DEF Known
      <4>3. /\ types[c[1]] # NoType \/ LeftUntyped(c[1])
            /\ TypedAs(c[1], types[c[1]])
        BY <2>3, <4>2 DEF Done
      <4>4. ~ LeftUntyped(c[1])
        BY <1>8 DEF LeftUntyped
      <4>5. types[c[1]] \in Types
        BY <1>1, <1>3, <4>3, <4>4 DEF Known, Filled, Running
      <4>6. Clone(Wrong) = Wrong /\ Wrong \notin Types
        BY TypeSets, Clones
      <4>7. PICK j \in CheckedUnder[c[1]] : CallsVariable(j)
        BY <4>1, <4>3, <4>4, <4>5, <4>6 DEF TypedAs
      <4>8. CheckerVisits(nodes[c[1]]) = <<>>
        BY <1>3, <1>8, VisitsByKind DEF Known, LeafKinds
      <4>9. j = c[1]
        <5> DEFINE n == c[1]
        <5>1. n \in Nodes /\ CheckerVisits(nodes[n]) = <<>> /\ j \in CheckedUnder[n]
          BY <1>3, <4>7, <4>8
        <5> HIDE DEF n
        <5>2. j = n \/ \E k \in DOMAIN CheckerVisits(nodes[n]) :
                         j \in CheckedUnder[CheckerVisits(nodes[n])[k]]
          BY <5>1, BelowNodes DEF Known
        <5>3. j = n
          BY <5>1, <5>2
        <5> QED
          BY <5>3 DEF n
      <4> QED
        BY <4>7, <4>9, <1>8 DEF CallsVariable
    <3> QED
      BY <3>1, <3>2
  <2>4. errors + 0 = 0 => TypedAs(i, Dirty)
    BY <1>2, <1>e, <2>2, <2>3 DEF TypedAs
  <2>5. Judged(i, Dirty, 0)
    BY <1>1, <2>2, <2>4 DEF Judged
  <2> QED
    BY <1>1, <2>1, <2>2, <2>5, Returning DEF i
<1>9. CASE callee.kind # "id"
  <2> DEFINE l == TypeOfChild(1)
  <2>1. ~ Untyped(1) /\ Datatype(Clone(l), 0)
    BY <1>4, <1>9 DEF CheckCall, IsNamed
  <2>2. /\ l \in Types /\ Clone(l) = l /\ l # NoType
        /\ errors = 0 =>
             \/ HasDirty(l) /\ WrongVisited /\ \E j \in CheckedUnder[i] : CallsVariable(j)
             \/ l = Clone(Meaning[c[1]]) /\ ~ HasDirty(l) /\ l # Wrong
    BY <1>1, <1>2, <1>3, <1>4, <2>1, OperandTypes
  <2>3. Clone(Meaning[i]) = Clone(Meaning[c[1]])
    <3>1. Meaning[c[1]] \in AnyType
      BY <1>3, MeaningByKind DEF Known
    <3> QED
      BY <3>1, <1>5, <1>9, Clones
  <2> HIDE DEF i, l, c
  <2>4. errors + 0 = 0 => TypedAs(i, l)
    BY <1>e, <2>2, <2>3 DEF TypedAs
  <2>5. Judged(i, l, 0)
    BY <1>1, <2>2, <2>4 DEF Judged
  <2> QED
    BY <1>1, <2>1, <2>2, <2>5, Returning DEF i
<1> QED
  BY <1>7, <1>8, <1>9

(* An index that AccessFails lets through is valid, any other is not. *)
LEMMA IndexJudged ==
  ASSUME Tree, NEW n \in Nodes, NEW size \in Nat
  PROVE  /\ nodes[n].kind # "minus" /\ ~ OutOfBounds(nodes[n], size)
              => ValidIndex(nodes[n], Int32, size)
         /\ ValidIndex(nodes[n], Int32, size)
              => nodes[n].kind # "minus" /\ ~ OutOfBounds(nodes[n], size)
<1> DEFINE index == nodes[n]
<1>1. index.number \in Nat
  BY Operands
<1>2. index.kind = "number" =>
        (index.number \in 0..(size - 1) <=> ~ (index.number >= size))
  BY <1>1
<1>3. ASSUME Holds(index)
      PROVE  Variables[index.name].literal \subseteq 0..(size - 1)
               <=> ~ \E k \in Variables[index.name].literal : k >= size
  <2>1. Variables[index.name].literal \in SUBSET Nat
    BY <1>3, EntriesAssumption DEF Holds, VariableEntries
  <2>2. \A k \in Nat : k \in 0..(size - 1) <=> ~ (k >= size)
    OBVIOUS
  <2> QED
    BY <2>1, <2>2
<1> HIDE DEF index
<1>4. OutOfBounds(index, size) <=>
        \/ index.kind = "number" /\ index.number >= size
        \/ Holds(index) /\ \E k \in Variables[index.name].literal : k >= size
  BY DEF OutOfBounds, Holds
<1> QED
  BY <1>2, <1>3, <1>4 DEF ValidIndex, index

LEMMA JudgedAccess ==
  ASSUME Known, CheckAccess
  PROVE  CheckReturns
<1> DEFINE i == Top.node
           c == nodes[i].children
           array == TypeOfChild(1)
           type == TypeOfChild(2)
           index == nodes[c[2]]
           size == Head(array.dims)
           excuse == WrongVisited /\ \E j \in CheckedUnder[i] : CallsVariable(j)
<1>1. /\ Visited("check") /\ Node.kind = "access"
      /\ Running("check") /\ calls # <<>> /\ Top.done = Len(Visits)
      /\ ~ Untyped(2) /\ (type # Dirty => ~ Untyped(1))
  BY DEF CheckAccess, Finishes, Visited
<1>2. /\ i \in Nodes /\ Node = nodes[i] /\ Visits = CheckerVisits(nodes[i])
      /\ i \in CheckedNodes
  BY <1>1, Here
<1>3. /\ Visits = <<c[2], c[1]>> /\ 1 \in DOMAIN c /\ 2 \in DOMAIN c
      /\ c[2] \in Nodes
  <2>1. Visits = <<c[2], c[1]>> /\ DOMAIN c = 1..Len(c) /\ Len(c) = 2
    BY <1>1, <1>2, VisitsByKind, Operands DEF Known
  <2>2. \A k \in DOMAIN c : c[k] \in Nodes
    BY <1>2, BelowNodes DEF Known
  <2> QED
    BY <2>1, <2>2
<1>4. /\ Child(1) = c[1] /\ Child(2) = c[2]
      /\ 1 \in 1..Top.done /\ Visits[1] = Child(2)
      /\ 2 \in 1..Top.done /\ Visits[2] = Child(1)
  BY <1>1, <1>2, <1>3 DEF Child
<1>5. /\ type \in Types /\ type # NoType
      /\ errors = 0 => \/ HasDirty(type) /\ excuse
                       \/ type = Clone(Meaning[c[2]]) /\ ~ HasDirty(type)
  BY <1>1, <1>2, <1>3, <1>4, OperandTypes
<1>6. ~ Untyped(1) =>
        /\ array \in Types /\ array # NoType /\ Clone(array) = array /\ array \in AnyType
        /\ errors = 0 => \/ HasDirty(array) /\ excuse
                         \/ array = Clone(Meaning[c[1]]) /\ ~ HasDirty(array)
  BY <1>1, <1>2, <1>3, <1>4, OperandTypes
<1>7. Meaning[i] = IF Clone(Meaning[c[1]]).dims # <<>>
                        /\ ValidIndex(index, Clone(Meaning[c[2]]), Head(Clone(Meaning[c[1]]).dims))
                     THEN Element(Clone(Meaning[c[1]])) ELSE Wrong
  BY <1>1, <1>2, MeaningByKind DEF Known
<1>8. /\ Dirty \in Types /\ Dirty # NoType /\ Clone(Dirty) = Dirty /\ HasDirty(Dirty)
      /\ NoType \notin Types /\ Clone(NoType) = NoType
  BY TypeSets, Clones DEF HasDirty, Dirty, Scalar
<1>9. /\ array \in Types => (array.dims # <<>> <=> GetKind(array) = "Array")
      /\ type \in Types => (GetKind(type) = "Int" <=> type = Int32)
  BY DEF GetKind, Types, Bases, Int32, Scalar
<1>e. errors \in Nat
  BY DEF Known, Filled
<1>10. array \in Types /\ array.dims # <<>> =>
         /\ size \in Nat /\ Element(array) \in Types /\ Clone(Element(array)) = Element(array)
         /\ HasDirty(Element(array)) <=> HasDirty(array)
  <2> SUFFICES ASSUME array \in Types, array.dims # <<>>
               PROVE  /\ size \in Nat /\ Element(array) \in Types
                      /\ Clone(Element(array)) = Element(array)
                      /\ HasDirty(Element(array)) <=> HasDirty(array)
    OBVIOUS
  <2>1. array \in AnyType /\ array # NoType
    BY <1>8, TypeSets
  <2>2. Clone(array) = array
    BY <2>1, <1>6 DEF Untyped, array
  <2> HIDE DEF array
  <2> QED
    BY <2>1, <2>2, Elements DEF HasDirty, size
<1>11. /\ index.kind # "minus" /\ ~ OutOfBounds(index, size) /\ size \in Nat
            => ValidIndex(index, Int32, size)
       /\ ValidIndex(index, Int32, size) /\ size \in Nat
            => index.kind # "minus" /\ ~ OutOfBounds(index, size)
  BY <1>3, IndexJudged DEF Known
<1>12. Uninitialised(index) => LeftUntyped(i)
  BY <1>1, <1>2 DEF LeftUntyped
<1>13. IF type = Dirty \/ array = Dirty THEN Datatype(Dirty, 0)
       ELSE IF AccessFails(array, index, type) THEN Datatype(Dirty, 1)
       ELSE IF Uninitialised(index) THEN Datatype(NoType, 0)
       ELSE Datatype(Clone(Element(array)), 0)
  BY <1>2, <1>4 DEF CheckAccess
<1>14. Untyped(1) <=> array = NoType
  BY DEF Untyped
<1> HIDE DEF i, c, array, type, index, size, excuse
<1>15. CASE type = Dirty \/ array = Dirty
  <2>1. errors = 0 => excuse
    <3>1. ~ HasDirty(NoType) /\ array = Dirty => array # NoType
      BY <1>8
    <3> QED
      BY <3>1, <1>5, <1>6, <1>8, <1>14, <1>15
  <2>2. errors + 0 = 0 => TypedAs(i, Dirty)
    BY <1>e, <1>8, <2>1 DEF TypedAs, excuse
  <2>3. Judged(i, Dirty, 0)
    BY <1>1, <1>8, <2>2 DEF Judged
  <2> QED
    BY <1>1, <1>8, <1>13, <1>15, <2>3, Returning DEF i
<1>16. CASE type # Dirty /\ array # Dirty /\ AccessFails(array, index, type)
  <2>0. /\ array \in Types /\ type \in Types
        /\ errors = 0 => \/ HasDirty(array) /\ excuse
                         \/ array = Clone(Meaning[c[1]]) /\ ~ HasDirty(array)
    BY <1>1, <1>5, <1>6, <1>16
  <2>1. ASSUME errors = 0, ~ excuse PROVE Meaning[i] = Wrong
    <3>1. array = Clone(Meaning[c[1]]) /\ type = Clone(Meaning[c[2]])
      BY <1>5, <2>0, <2>1
    <3>2. Meaning[i] = IF array.dims # <<>> /\ ValidIndex(index, type, size)
                         THEN Element(array) ELSE Wrong
      BY <1>7, <3>1 DEF size
    <3>3. CASE GetKind(array) # "Array"
      BY <1>9, <2>0, <3>2, <3>3
    <3>4. CASE GetKind(type) # "Int"
      BY <1>9, <2>0, <3>2, <3>4 DEF ValidIndex
    <3>5. CASE /\ array.dims # <<>> /\ type = Int32
               /\ index.kind = "minus" \/ OutOfBounds(index, size)
      <4>1. ~ ValidIndex(index, Int32, size)
        BY <1>10, <1>11, <2>0, <3>5
      <4> QED
        BY <3>2, <3>5, <4>1
    <3> QED
      BY <1>9, <1>16, <2>0, <3>3, <3>4, <3>5 DEF AccessFails, size
  <2>2. errors = 0 => WrongVisited
    BY <1>2, <2>1 DEF WrongVisited, excuse
  <2> QED
    BY <1>1, <1>13, <1>16, <2>2, Reporting
<1>17. CASE /\ type # Dirty /\ array # Dirty /\ ~ AccessFails(array, index, type)
            /\ Uninitialised(index)
  <2>1. Judged(i, NoType, 0)
    BY <1>1, <1>8, <1>12, <1>17 DEF Judged, TypedAs
  <2> QED
    BY <1>1, <1>13, <1>17, <2>1, Returning DEF i
<1>18. CASE /\ type # Dirty /\ array # Dirty /\ ~ AccessFails(array, index, type)
            /\ ~ Uninitialised(index)
  <2>0. /\ array \in Types /\ type \in Types /\ array.dims # <<>> /\ type = Int32
        /\ index.kind # "minus" /\ ~ OutOfBounds(index, size)
    BY <1>1, <1>5, <1>6, <1>9, <1>18 DEF AccessFails, size
  <2>1. /\ Clone(Element(array)) = Element(array) /\ Element(array) \in Types
        /\ Element(array) # NoType /\ size \in Nat
        /\ HasDirty(Element(array)) <=> HasDirty(array)
    BY <1>8, <1>10, <2>0
  <2>2. ASSUME errors = 0, ~ excuse PROVE Element(array) = Clone(Meaning[i])
    <3>1. array = Clone(Meaning[c[1]]) /\ type = Clone(Meaning[c[2]])
      BY <1>1, <1>5, <1>6, <1>18, <2>2
    <3>2. Meaning[i] = IF array.dims # <<>> /\ ValidIndex(index, type, size)
                         THEN Element(array) ELSE Wrong
      BY <1>7, <3>1 DEF size
    <3>3. ValidIndex(index, type, size)
      BY <1>11, <2>0, <2>1
    <3> QED
      BY <2>0, <2>1, <3>2, <3>3
  <2>3. ASSUME errors = 0, excuse PROVE TypedAs(i, Element(array))
    <3>1. CASE HasDirty(array)
      BY <2>1, <2>3, <3>1 DEF TypedAs, excuse
    <3>2. CASE array = Clone(Meaning[c[1]])
      <4>1. type = Clone(Meaning[c[2]])
        BY <1>5, <1>8, <2>0, <2>3 DEF Int32, Scalar, HasDirty
      <4>2. Meaning[i] = IF array.dims # <<>> /\ ValidIndex(index, type, size)
                           THEN Element(array) ELSE Wrong
        BY <1>7, <3>2, <4>1 DEF size
      <4>3. ValidIndex(index, type, size)
        BY <1>11, <2>0, <2>1
      <4> QED
        BY <2>0, <2>1, <4>2, <4>3 DEF TypedAs
    <3> QED
      BY <1>1, <1>6, <1>18, <2>3, <3>1, <3>2
  <2>4. errors + 0 = 0 => TypedAs(i, Element(array))
    BY <1>e, <2>2, <2>3 DEF TypedAs
  <2>5. Judged(i, Element(array), 0)
    BY <1>1, <2>1, <2>4 DEF Judged
  <2> QED
    BY <1>1, <1>13, <1>18, <2>1, <2>5, Returning DEF i
<1> QED
  BY <1>15, <1>16, <1>17, <1>18

(* The visits of an array literal that is not empty: the first element,    *)
(* then each.                                                              *)
LEMMA ElementVisits ==
  ASSUME Known, Running("check"), calls # <<>>, Node.kind = "array", Node.children # <<>>
  PROVE  LET c == nodes[Top.node].children IN
         /\ Node = nodes[Top.node] /\ Node.children = c
         /\ Len(c) \in Nat /\ Len(c) >= 1 /\ DOMAIN c = 1..Len(c)
         /\ Len(Visits) = Len(c) + 1
         /\ Top.done >= 1 => 1 \in 1..Top.done /\ Visits[1] = c[1]
         /\ \A k \in 1..(Top.done - 1) :
              /\ k \in DOMAIN c /\ k + 1 \in 1..Top.done
              /\ Visits[k + 1] = c[k] /\ Child(k) = c[k]
<1> DEFINE c == nodes[Top.node].children
<1>1. /\ Top.node \in Nodes /\ Node = nodes[Top.node]
      /\ Visits = CheckerVisits(nodes[Top.node])
      /\ Top.done \in Nat /\ Len(Visits) \in Nat /\ Top.done <= Len(Visits)
  BY Here
<1>2. /\ Len(c) >= 1 /\ Len(Visits) = Len(c) + 1 /\ Visits[1] = c[1]
      /\ \A k \in 1..Len(c) : Visits[k + 1] = c[k]
  BY <1>1, VisitsByKind DEF Known
<1>3. Len(c) \in Nat /\ DOMAIN c = 1..Len(c)
  BY <1>1, Operands DEF Known
<1>4. Node.children = c /\ \A k : Child(k) = c[k]
  BY <1>1 DEF Child
<1> HIDE DEF c
<1>5. ASSUME NEW k \in 1..(Top.done - 1)
      PROVE  k \in 1..Len(c) /\ k + 1 \in 1..Top.done
  BY <1>1, <1>2, <1>3
<1>6. Top.done >= 1 => 1 \in 1..Top.done
  BY <1>1
<1> QED
  BY <1>1, <1>2, <1>3, <1>4, <1>5, <1>6 DEF c

LEMMA ElementTypes ==
  ASSUME Known, Running("check"), calls # <<>>, Node.kind = "array", Node.children # <<>>,
         NEW k \in 1..(Top.done - 1), ~ Untyped(k)
  PROVE  /\ TypeOfChild(k) \in Types /\ Clone(TypeOfChild(k)) = TypeOfChild(k)
         /\ TypeOfChild(k) \in AnyType
         /\ errors = 0 =>
              \/ /\ HasDirty(TypeOfChild(k)) /\ WrongVisited
                 /\ \E j \in CheckedUnder[Top.node] : CallsVariable(j)
              \/ /\ TypeOfChild(k) = Clone(Meaning[nodes[Top.node].children[k]])
                 /\ ~ HasDirty(TypeOfChild(k)) /\ TypeOfChild(k) # Wrong
<1>1. /\ k \in DOMAIN Node.children /\ k + 1 \in 1..Top.done
      /\ Visits[k + 1] = Child(k)
  BY ElementVisits
<1> HIDE DEF Known
<1> QED
  BY <1>1, OperandTypes

LEMMA JudgedMixed ==
  ASSUME Known, CheckMixed
  PROVE  CheckReturns
<1> DEFINE i == Top.node
           c == nodes[i].children
           d == Top.done - 1
<1>1. /\ Running("check") /\ calls # <<>> /\ Node.kind = "array" /\ Top.done > 1
      /\ TypeOfChild(d) # NoType /\ TypeOfChild(d) # Clone(TypeOfChild(1))
      /\ Datatype(Dirty, 1)
  BY DEF CheckMixed, Mixed, Element1
<1>2. /\ i \in Nodes /\ Node = nodes[i] /\ i \in CheckedNodes
      /\ Visits = CheckerVisits(nodes[i]) /\ Len(Visits) \in Nat
      /\ Top.done \in Nat /\ Top.done <= Len(Visits)
      /\ \A m \in 1..(Top.done - 2) : TypeOfChild(m) = TypeOfChild(1) /\ ~ Untyped(1)
  BY <1>1, Here
<1>3. Node.children # <<>>
  <2>1. c = <<>> => Visits = <<>>
    BY <1>1, <1>2, VisitsByKind DEF Known
  <2>2. Visits = <<>> => Len(Visits) = 0
    OBVIOUS
  <2> QED
    BY <1>1, <1>2, <2>1, <2>2
<1>4. d \in 1..(Top.done - 1) /\ 1 \in 1..(Top.done - 1)
  BY <1>1, <1>2
<1>5. /\ \A k \in 1..(Top.done - 1) : k \in DOMAIN c
      /\ DOMAIN c = 1..Len(c) /\ Len(c) >= 1
  BY <1>1, <1>2, <1>3, ElementVisits
<1>6. /\ Clone(TypeOfChild(d)) = TypeOfChild(d)
      /\ errors = 0 => WrongVisited \/ TypeOfChild(d) = Clone(Meaning[c[d]])
  BY <1>1, <1>3, <1>4, ElementTypes DEF Untyped
<1>7. d # 1 /\ ~ Untyped(1)
  <2>1. CASE d = 1
    BY <1>1, <1>6, <2>1
  <2>2. CASE d # 1
    <3>1. 1 \in 1..(Top.done - 2)
      BY <1>1, <1>2, <2>2
    <3> QED
      BY <1>2, <2>2, <3>1
  <2> QED
    BY <2>1, <2>2
<1>8. /\ Clone(TypeOfChild(1)) = TypeOfChild(1)
      /\ errors = 0 => WrongVisited \/ TypeOfChild(1) = Clone(Meaning[c[1]])
  BY <1>1, <1>3, <1>4, <1>7, ElementTypes
<1>9. Meaning[i] = IF c # <<>> /\ Clone(Meaning[c[1]]) # Wrong
                        /\ \A k \in DOMAIN c : Clone(Meaning[c[k]]) = Clone(Meaning[c[1]])
                     THEN ArrayOf(Len(c), Clone(Meaning[c[1]])) ELSE Wrong
  BY <1>1, <1>2, MeaningByKind DEF Known
<1>10. d \in DOMAIN c
  BY <1>4, <1>5
<1> HIDE DEF c, d, i
<1>11. errors = 0 => WrongVisited
  BY <1>1, <1>2, <1>6, <1>8, <1>9, <1>10 DEF WrongVisited
<1> QED
  BY <1>1, <1>11, Reporting

LEMMA JudgedArray ==
  ASSUME Known, CheckArray
  PROVE  CheckReturns
<1> DEFINE i == Top.node
           c == nodes[i].children
           n == Len(c)
           excuse == WrongVisited /\ \E j \in CheckedUnder[i] : CallsVariable(j)
<1>1. /\ Running("check") /\ calls # <<>> /\ Node.kind = "array"
      /\ Top.done = Len(Visits) /\ ~ Mixed
  BY DEF CheckArray, Finishes, Visited
<1>2. /\ i \in Nodes /\ Node = nodes[i] /\ i \in CheckedNodes
      /\ \A m \in 1..(Top.done - 2) : TypeOfChild(m) = TypeOfChild(1) /\ ~ Untyped(1)
  BY <1>1, Here
<1>3. Meaning[i] = IF c # <<>> /\ Clone(Meaning[c[1]]) # Wrong
                        /\ \A k \in DOMAIN c : Clone(Meaning[c[k]]) = Clone(Meaning[c[1]])
                     THEN ArrayOf(Len(c), Clone(Meaning[c[1]])) ELSE Wrong
  BY <1>1, <1>2, MeaningByKind DEF Known
<1>4. CASE c = <<>>
  <2>1. Datatype(Dirty, 1)
    BY <1>2, <1>4 DEF CheckArray
  <2>2. Meaning[i] = Wrong
    BY <1>3, <1>4
  <2>3. WrongVisited
    BY <1>2, <2>2 DEF WrongVisited
  <2> QED
    BY <1>1, <2>1, <2>3, Reporting
<1>5. CASE c # <<>>
  <2> DEFINE t == TypeOfChild(1)
  <2>1. ~ Untyped(n) /\ Datatype(ArrayOf(n, Clone(t)), 0)
    BY <1>2, <1>5 DEF CheckArray, Element1
  <2>2. /\ n \in Nat /\ n >= 1 /\ DOMAIN c = 1..n /\ Top.done = n + 1
        /\ \A k \in 1..(Top.done - 1) : Child(k) = c[k]
    BY <1>1, <1>2, <1>5, ElementVisits
  <2>3. n \in 1..(Top.done - 1) /\ 1 \in 1..(Top.done - 1) /\ Top.done - 1 = n /\ Top.done > 1
    BY <2>2
  <2>4. TypeOfChild(n) = Clone(t)
    BY <1>1, <2>1, <2>3 DEF Mixed, Untyped, Element1
  <2>5. Clone(TypeOfChild(n)) = TypeOfChild(n)
    BY <1>1, <1>2, <1>5, <2>1, <2>3, ElementTypes
  <2>6. ~ Untyped(1)
    <3>1. CASE n = 1
      BY <2>1, <3>1
    <3>2. CASE n # 1
      <4> HIDE DEF n
      <4>1. 1 \in 1..(Top.done - 2)
        BY <2>2, <3>2
      <4> QED
        BY <1>2, <4>1
    <3> QED
      BY <3>1, <3>2
  <2>7. /\ t \in Types /\ t \in AnyType /\ Clone(t) = t
        /\ errors = 0 => \/ HasDirty(t) /\ excuse
                         \/ t = Clone(Meaning[c[1]]) /\ ~ HasDirty(t) /\ t # Wrong
    BY <1>1, <1>2, <1>5, <2>3, <2>6, ElementTypes
  <2>8. ASSUME NEW k \in DOMAIN c
        PROVE  /\ TypeOfChild(k) = t
               /\ errors = 0 => (HasDirty(t) /\ excuse) \/ t = Clone(Meaning[c[k]])
    <3>1. k \in 1..(Top.done - 1) /\ (k = n \/ k \in 1..(Top.done - 2))
      BY <2>2
    <3>2. TypeOfChild(k) = t
      BY <1>2, <2>4, <2>7, <3>1
    <3>3. ~ Untyped(k)
      BY <2>6, <3>2 DEF Untyped
    <3>4. errors = 0 =>
            \/ HasDirty(TypeOfChild(k)) /\ excuse
            \/ TypeOfChild(k) = Clone(Meaning[c[k]])
      BY <1>1, <1>2, <1>5, <3>1, <3>3, ElementTypes
    <3> QED
      BY <3>2, <3>4
  <2> DEFINE type == ArrayOf(n, t)
  <2>9. /\ type \in Types /\ Clone(type) = type /\ type.base = t.base /\ type # NoType
    <3>1. type \in Types /\ Clone(type) = type /\ type.base = t.base
      BY <2>2, <2>7, Arrays
    <3> QED
      BY <3>1, TypeSets
  <2>10. ASSUME errors = 0, ~ (HasDirty(t) /\ excuse) PROVE type = Clone(Meaning[i])
    <3>1. \A k \in DOMAIN c : Clone(Meaning[c[k]]) = t
      BY <2>8, <2>10
    <3>2. 1 \in DOMAIN c /\ t # Wrong
      BY <2>2, <2>7, <2>10
    <3> HIDE DEF c, i, t, n
    <3>3. Meaning[i] = ArrayOf(n, t)
      BY <1>3, <1>5, <3>1, <3>2 DEF n
    <3> QED
      BY <2>9, <3>3
  <2> HIDE DEF i, c, n, t, type, excuse
  <2>11. errors + 0 = 0 => TypedAs(i, type)
    BY <2>9, <2>10 DEF TypedAs, excuse, HasDirty, Known, Filled
  <2>12. Judged(i, type, 0)
    BY <1>1, <2>9, <2>11 DEF Judged
  <2> QED
    BY <1>1, <2>1, <2>7, <2>9, <2>12, Returning DEF i, type
<1> QED
  BY <1>4, <1>5

LEMMA FrozenText ==
  ASSUME nodes' = nodes, use' = use
  PROVE  /\ Nodes' = Nodes /\ Root' = Root /\ CheckedNodes' = CheckedNodes
         /\ CheckedUnder' = CheckedUnder /\ Meaning' = Meaning /\ Under' = Under
         /\ WrongVisited' <=> WrongVisited
         /\ \A i : LeftUntyped(i)' <=> LeftUntyped(i)
         /\ \A i : CallsVariable(i)' <=> CallsVariable(i)
         /\ \A i, t : TypedAs(i, t)' <=> TypedAs(i, t)
<1>1. Nodes' = Nodes /\ Root' = Root
  BY DEF Nodes, Root
<1>2. CheckedUnder' = CheckedUnder
  BY DEF CheckedUnder, Nodes, Members, CheckerVisits
<1>3. Meaning' = Meaning
  BY DEF Meaning, TypeOf, Nodes, Clone
<1>4. Under' = Under
  BY DEF Under, Nodes, Members
<1>5. CheckedNodes' = CheckedNodes
  BY <1>1, <1>2 DEF CheckedNodes
<1>6. WrongVisited' <=> WrongVisited
  BY <1>3, <1>5 DEF WrongVisited
<1>7. \A i : LeftUntyped(i)' <=> LeftUntyped(i)
  BY DEF LeftUntyped, Uninitialised
<1>8. \A i : CallsVariable(i)' <=> CallsVariable(i)
  BY DEF CallsVariable
<1>9. \A i, t : TypedAs(i, t)' <=> TypedAs(i, t)
  BY <1>2, <1>3, <1>7, <1>8 DEF TypedAs, Clone, HasDirty
<1> QED
  BY <1>1, <1>2, <1>3, <1>4, <1>5, <1>6, <1>7, <1>8, <1>9

(* A type that is written leaves what is known of the other nodes.         *)
LEMMA DoneStays ==
  ASSUME Known, Running("check"), calls # <<>>,
         NEW type \in {NoType} \cup Types, NEW reported \in {0, 1},
         Judged(Top.node, type, reported), Datatype(type, reported)
  PROVE  /\ \A j \in Nodes : types'[j] = IF j = Top.node THEN type ELSE types[j]
         /\ DOMAIN types' = Nodes
         /\ \A j \in Nodes : Done(j) => Done(j)'
         /\ \A j \in Nodes : j = Top.node => Done(j)'
<1> DEFINE i == Top.node
<1>1. /\ i \in Nodes /\ Node = nodes[i]
      /\ Len(Visits) \in Nat /\ DOMAIN Visits = 1..Len(Visits)
      /\ Visits = CheckerVisits(nodes[i])
      /\ \A m \in 1..Top.done : Visits[m] \in Nodes /\ Done(Visits[m])
  BY Here
<1>2. /\ nodes' = nodes /\ use' = use /\ errors' = errors + reported
      /\ types' = [types EXCEPT ![i] = type]
  BY DEF Datatype, text
<1>3. DOMAIN types = Nodes /\ errors \in Nat
  BY DEF Known, Filled, Running
<1> HIDE DEF i
<1>4. /\ DOMAIN types' = Nodes
      /\ \A j \in Nodes : types'[j] = IF j = i THEN type ELSE types[j]
  BY <1>1, <1>2, <1>3
<1>5. /\ CheckedUnder' = CheckedUnder
      /\ \A j : LeftUntyped(j)' <=> LeftUntyped(j)
      /\ \A j, t : TypedAs(j, t)' <=> TypedAs(j, t)
  BY <1>2, FrozenText
<1>6. /\ type # NoType \/ LeftUntyped(i)
      /\ errors' = 0 => errors = 0 /\ TypedAs(i, type) /\ Top.done = Len(Visits)
  BY <1>2, <1>3 DEF Judged, i
<1>7. \A j : Done(j)' <=>
        /\ types'[j] # NoType \/ LeftUntyped(j)
        /\ errors' = 0 => \A x \in CheckedUnder[j] : TypedAs(x, types'[x])
  BY <1>5 DEF Done
<1>8. \A j \in Nodes : CheckedUnder[j] \in SUBSET Nodes
  BY CheckedUnderNodes DEF Known
<1>9. ASSUME NEW j \in Nodes, Done(j) PROVE Done(j)'
  <2>1. types'[j] # NoType \/ LeftUntyped(j)
    BY <1>4, <1>6, <1>9 DEF Done
  <2>2. ASSUME errors' = 0, NEW x \in CheckedUnder[j] PROVE TypedAs(x, types'[x])
    BY <1>4, <1>6, <1>8, <1>9, <2>2 DEF Done
  <2> QED
    BY <2>1, <2>2, <1>7
<1>10. ASSUME NEW j \in Nodes, j = i PROVE Done(j)'
  <2>1. types'[j] # NoType \/ LeftUntyped(j)
    BY <1>4, <1>6, <1>10
  <2>2. ASSUME errors' = 0, NEW x \in CheckedUnder[j] PROVE TypedAs(x, types'[x])
    <3>1. CASE x = j
      BY <1>4, <1>6, <1>10, <2>2, <3>1
    <3>2. CASE x # j
      <4>1. PICK k \in DOMAIN Visits : x \in CheckedUnder[Visits[k]]
        BY <1>1, <1>10, <2>2, <3>2, BelowNodes DEF Known
      <4>2. PICK v \in Nodes : v = Visits[k] /\ Done(v)
        BY <1>1, <1>6, <2>2
      <4>3. Done(v)'
        BY <1>9, <4>2
      <4> QED
        BY <1>7, <2>2, <4>1, <4>2, <4>3
    <3> QED
      BY <3>1, <3>2
  <2> QED
    BY <2>1, <2>2, <1>7
<1> QED
  BY <1>4, <1>9, <1>10 DEF i

(* The elements compared so far are not the node whose visit returns.      *)
LEMMA ComparedApart ==
  ASSUME Known, Running("check"), calls # <<>>, NEW k \in 1..(Len(calls) - 1),
         nodes[calls[k].node].kind = "array", NEW m \in 1..(calls[k].done - 1)
  PROVE  LET c == nodes[calls[k].node].children IN
         m \in DOMAIN c /\ c[m] \in Nodes /\ c[m] # Top.node
<1> DEFINE n == Len(calls) - 1
           i == calls[k].node
           p == calls[n].node
           c == nodes[i].children
           top == Top.node
<1>1. /\ Len(calls) \in Nat /\ DOMAIN calls = 1..Len(calls)
      /\ \A x \in DOMAIN calls : calls[x].node \in Nodes /\ calls[x].done \in Nat
      /\ Len(calls) \in DOMAIN calls /\ Top = calls[Len(calls)]
  BY TopOfCalls DEF Known
<1>2. /\ n \in DOMAIN calls /\ k \in DOMAIN calls /\ (k = n \/ k < n) /\ k < Len(calls)
      /\ Len(calls) # 1 /\ n < Len(calls)
  <2>1. Len(calls) \in Nat /\ DOMAIN calls = 1..Len(calls) /\ k \in 1..(Len(calls) - 1)
    BY <1>1
  <2>2. \A l \in Nat : \A x \in 1..(l - 1) :
          /\ l - 1 \in 1..l /\ x \in 1..l /\ (x = l - 1 \/ x < l - 1) /\ x < l
          /\ l # 1 /\ l - 1 < l
    OBVIOUS
  <2> QED
    BY <2>1, <2>2
<1>3. /\ i \in Nodes /\ p \in Nodes /\ calls[k].done \in Nat /\ calls[n].done \in Nat
      /\ \A x : VisitsOf(x) = CheckerVisits(nodes[x])
  BY <1>1, <1>2 DEF Running, VisitsOf
<1>4. /\ calls[k].done < Len(CheckerVisits(nodes[i]))
      /\ calls[n].done < Len(CheckerVisits(nodes[p]))
      /\ top = CheckerVisits(nodes[p])[calls[n].done + 1]
  BY <1>1, <1>2, <1>3 DEF Known, Nested
<1>5. /\ calls[n].done + 1 \in 1..Len(CheckerVisits(nodes[p]))
      /\ top \in Members(nodes[p].children)
  <2>1. calls[n].done + 1 \in 1..Len(VisitsOf(p))
    <3> HIDE DEF n
    <3>1. Len(VisitsOf(p)) \in Nat
      BY <1>3, VisitsOfNode DEF Known
    <3>2. calls[n].done \in Nat /\ calls[n].done < Len(VisitsOf(p))
      BY <1>3, <1>4
    <3>3. \A l, d \in Nat : d < l => d + 1 \in 1..l
      OBVIOUS
    <3> QED
      BY <3>1, <3>2, <3>3
  <2>2. top = VisitsOf(p)[calls[n].done + 1]
    BY <1>3, <1>4
  <2> QED
    BY <1>3, <2>1, <2>2, VisitsOfNode DEF Known
<1>6. PICK x \in DOMAIN nodes[p].children : top = nodes[p].children[x]
  BY <1>5 DEF Members
<1>7. c \in Seq(1..(i - 1)) /\ DOMAIN c = 1..Len(c) /\ Len(c) \in Nat
  BY <1>3, Operands DEF Known
<1>8. c # <<>>
  <2>1. c = <<>> => CheckerVisits(nodes[i]) = <<>>
    BY <1>3, VisitsByKind DEF Known
  <2>2. CheckerVisits(nodes[i]) = <<>> => Len(CheckerVisits(nodes[i])) = 0
    OBVIOUS
  <2> QED
    BY <1>3, <1>4, <2>1, <2>2
<1>9. /\ Len(CheckerVisits(nodes[i])) = Len(c) + 1
      /\ \A y \in 1..Len(c) : CheckerVisits(nodes[i])[y + 1] = c[y]
  BY <1>3, <1>8, VisitsByKind DEF Known
<1> HIDE DEF n, i, p, c, top
<1>10. /\ m \in DOMAIN c /\ calls[k].done \in 1..Len(c) /\ m # calls[k].done
  BY <1>3, <1>4, <1>7, <1>9
<1>11. c[m] \in Nodes
  BY <1>3, <1>10, BelowNodes DEF Known, c
<1>12. ASSUME c[m] = top PROVE FALSE
  <2>1. i = p /\ m = x
    BY <1>3, <1>6, <1>10, <1>12 DEF Known, Tree, ClosedOnce, c
  <2>2. k = n
    BY <1>2, <1>3, <2>1, NodesCounted DEF Known, Nested, i, p
  <2>3. top = c[calls[k].done]
    BY <1>4, <1>9, <1>10, <2>1, <2>2
  <2>4. m = calls[k].done
    BY <1>3, <1>10, <1>12, <2>3 DEF Known, Tree, ClosedOnce, c
  <2> QED
    BY <1>10, <2>4
<1> QED
  BY <1>10, <1>11, <1>12 DEF c, top, i

LEMMA CheckingReturns ==
  ASSUME Known, CheckReturns
  PROVE  Checking'
<1> DEFINE n == Len(calls) - 1
           below(k) == calls[k].node
           visits(k) == CheckerVisits(nodes[below(k)])
           top == Top.node
<1>1. Running("check") /\ calls # <<>>
  BY DEF CheckReturns
<1>2. PICK type \in {NoType} \cup Types : \E reported \in {0, 1} :
        Judged(top, type, reported) /\ Datatype(type, reported)
  BY DEF CheckReturns
<1>3. PICK reported \in {0, 1} : Judged(top, type, reported) /\ Datatype(type, reported)
  BY <1>2
<1>4. /\ \A j \in Nodes : types'[j] = IF j = top THEN type ELSE types[j]
      /\ \A j \in Nodes : Done(j) => Done(j)'
      /\ \A j \in Nodes : j = top => Done(j)'
  BY <1>1, <1>3, DoneStays
<1>5. /\ nodes' = nodes /\ use' = use /\ pass' = pass /\ outcome' = outcome
      /\ errors' = errors + reported /\ calls' = Returned /\ pass = "check"
      /\ outcome = "running"
  BY <1>1, <1>3 DEF Datatype, text, Running
<1>6. /\ Nodes' = Nodes /\ Root' = Root /\ CheckedNodes' = CheckedNodes
      /\ CheckedUnder' = CheckedUnder
      /\ WrongVisited' <=> WrongVisited
  BY <1>5, FrozenText
<1>7. /\ Len(calls') = n /\ DOMAIN calls' = 1..n
      /\ calls' = <<>> <=> Len(calls) = 1
      /\ Len(calls) = 1 => top = Root
      /\ \A k \in 1..n :
           /\ calls'[k].node = below(k)
           /\ calls'[k].done = IF k = n THEN calls[k].done + 1 ELSE calls[k].done
      /\ Len(calls) # 1 => top = VisitsOf(below(n))[calls[n].done + 1]
  BY <1>1, <1>5, Popped DEF Known
<1>8. /\ Len(calls) \in Nat /\ Len(calls) >= 1 /\ DOMAIN calls = 1..Len(calls)
      /\ top \in Nodes
      /\ \A k \in DOMAIN calls : below(k) \in Nodes /\ calls[k].done \in Nat
  BY <1>1, TopOfCalls DEF Known
<1>9. ASSUME NEW k \in 1..n
      PROVE  /\ k \in DOMAIN calls /\ k # Len(calls) /\ Len(calls) # 1
             /\ below(k) \in Nodes /\ calls[k].done \in Nat
             /\ CheckedUnder[below(k)] \in SUBSET CheckedNodes
             /\ \A m \in 1..calls[k].done : visits(k)[m] \in Nodes /\ Done(visits(k)[m])
             /\ nodes[below(k)].kind = "array" => \A m \in 1..(calls[k].done - 1) :
                  types[nodes[below(k)].children[m]] = types[nodes[below(k)].children[1]]
                    /\ types[nodes[below(k)].children[1]] # NoType
             /\ k = n => visits(k)[calls[k].done + 1] = top
  <2>1. k \in DOMAIN calls /\ k # Len(calls) /\ Len(calls) # 1
    BY <1>8
  <2>2. below(k) \in Nodes /\ calls[k].done \in Nat /\ Compared(k) = calls[k].done - 1
    BY <1>8, <2>1 DEF Compared
  <2>3. /\ CheckedUnder[below(k)] \in SUBSET CheckedNodes
        /\ \A m \in 1..calls[k].done : Done(visits(k)[m])
        /\ nodes[below(k)].kind = "array" => \A m \in 1..Compared(k) :
             types[nodes[below(k)].children[m]] = types[nodes[below(k)].children[1]]
               /\ types[nodes[below(k)].children[1]] # NoType
    BY <1>5, <2>1 DEF Known, Checking
  <2>4. VisitsOf(below(k)) = visits(k)
    BY <1>5 DEF VisitsOf
  <2>5. \A m \in 1..calls[k].done : visits(k)[m] \in Nodes
    <3>1. /\ Len(visits(k)) \in Nat
          /\ \A m \in 1..Len(visits(k)) : visits(k)[m] \in Nodes
      BY <2>2, <2>4, VisitsOfNode DEF Known
    <3>2. calls[k].done <= Len(visits(k))
      BY <2>1, <2>4 DEF Known, Nested
    <3> QED
      BY <2>2, <3>1, <3>2
  <2> HIDE DEF n, visits, below, top
  <2> QED
    BY <1>7, <2>1, <2>2, <2>3, <2>4, <2>5
<1>10. ASSUME NEW k \in 1..n, NEW m \in 1..calls'[k].done
       PROVE  \E j \in Nodes : j = visits(k)[m] /\ Done(j)'
  <2>1. calls'[k].done = IF k = n THEN calls[k].done + 1 ELSE calls[k].done
    BY <1>7
  <2>2. CASE m \in 1..calls[k].done
    BY <1>4, <1>9, <2>2
  <2>3. CASE k = n /\ m = calls[k].done + 1
    <3>1. visits(k)[m] = top /\ top \in Nodes
      BY <1>8, <1>9, <2>3
    <3> QED
      BY <3>1, <1>4
  <2>4. calls[k].done \in Nat
    BY <1>9
  <2> QED
    BY <2>1, <2>2, <2>3, <2>4
<1>11. ASSUME NEW k \in 1..n, nodes[below(k)].kind = "array", NEW m \in 1..Compared(k)'
       PROVE  /\ types'[nodes[below(k)].children[m]] = types'[nodes[below(k)].children[1]]
              /\ types'[nodes[below(k)].children[1]] # NoType
  <2>1. calls'[k].done = IF k = n THEN calls[k].done + 1 ELSE calls[k].done
    BY <1>7
  <2>2. calls[k].done \in Nat /\ Len(calls') = n
    BY <1>7, <1>9
  <2>3. Compared(k)' = calls[k].done - 1
    BY <2>1, <2>2 DEF Compared
  <2>4. m \in 1..(calls[k].done - 1) /\ 1 \in 1..(calls[k].done - 1)
    BY <2>2, <2>3
  <2>5. /\ nodes[below(k)].children[m] \in Nodes /\ nodes[below(k)].children[m] # top
        /\ nodes[below(k)].children[1] \in Nodes /\ nodes[below(k)].children[1] # top
    BY <1>1, <1>11, <2>4, ComparedApart
  <2>6. /\ types[nodes[below(k)].children[m]] = types[nodes[below(k)].children[1]]
        /\ types[nodes[below(k)].children[1]] # NoType
    BY <1>9, <1>11, <2>4
  <2> QED
    BY <1>4, <2>5, <2>6
<1> HIDE DEF n, below, visits, top
<1>12. calls' = <<>> => Done(Root)'
  BY <1>4, <1>6, <1>7, <1>8
<1>13. errors' > 0 => WrongVisited'
  <2>1. errors \in Nat
    BY DEF Known, Filled
  <2>2. errors' > 0 => errors > 0 \/ reported = 1
    BY <1>5, <2>1
  <2>3. errors > 0 => WrongVisited
    BY <1>5 DEF Known, Checking
  <2>4. reported = 1 => WrongVisited
    BY <1>3 DEF Judged
  <2> QED
    BY <1>6, <2>2, <2>3, <2>4
<1>14. IsChecked(use.kind)
  BY <1>1, <1>5 DEF Known, Checking
<1>15. \A k \in DOMAIN calls' :
         /\ CheckedUnder'[calls'[k].node] \in SUBSET CheckedNodes'
         /\ \A m \in 1..calls'[k].done : Done(CheckerVisits(nodes[calls[k].node])[m])'
         /\ nodes'[calls'[k].node].kind = "array" => \A m \in 1..Compared(k)' :
              /\ types'[nodes'[calls'[k].node].children[m]] = types'[nodes'[calls'[k].node].children[1]]
              /\ types'[nodes'[calls'[k].node].children[1]] # NoType
  <2> TAKE k \in DOMAIN calls'
  <2>1. k \in 1..n /\ calls'[k].node = below(k) /\ nodes' = nodes
    BY <1>5, <1>7
  <2>2. CheckedUnder'[calls'[k].node] \in SUBSET CheckedNodes'
    BY <1>6, <1>9, <2>1
  <2>3. ASSUME NEW m \in 1..calls'[k].done
        PROVE  Done(CheckerVisits(nodes[calls[k].node])[m])'
    <3>1. PICK j \in Nodes : j = visits(k)[m] /\ Done(j)'
      BY <1>10, <2>1
    <3>2. j = CheckerVisits(nodes'[calls'[k].node])[m]
      BY <2>1, <3>1 DEF visits
    <3> QED
      BY <3>1, <3>2
  <2> QED
    BY <1>11, <2>1, <2>2, <2>3
<1> QED
  BY <1>5, <1>12, <1>13, <1>14, <1>15 DEF Checking

LEMMA FrozenTypes ==
  ASSUME nodes' = nodes, use' = use, types' = types, errors' = errors
  PROVE  \A j : Done(j)' <=> Done(j)
<1>1. /\ CheckedUnder' = CheckedUnder
      /\ \A j : LeftUntyped(j)' <=> LeftUntyped(j)
      /\ \A j, t : TypedAs(j, t)' <=> TypedAs(j, t)
  BY FrozenText
<1> QED
  BY <1>1 DEF Done

LEMMA CheckingAccepts ==
  ASSUME Known, CheckAccept
  PROVE  Checking'
<1> DEFINE n == Len(calls)
           i == Top.node
           c == nodes[i].children
           d == Visits[Top.done + 1]
<1>1. /\ Running("check") /\ calls # <<>> /\ Top.done < Len(Visits) /\ Accept
      /\ ~ Mixed /\ ~ ReadsNull
  BY DEF CheckAccept
<1>2. /\ nodes' = nodes /\ use' = use /\ types' = types /\ errors' = errors
      /\ pass' = pass /\ outcome' = outcome /\ pass = "check" /\ outcome = "running"
  BY <1>1 DEF Accept, text, Running
<1>3. /\ Nodes' = Nodes /\ Root' = Root /\ CheckedNodes' = CheckedNodes
      /\ CheckedUnder' = CheckedUnder
      /\ WrongVisited' <=> WrongVisited
      /\ \A j : Done(j)' <=> Done(j)
  BY <1>2, FrozenText, FrozenTypes
<1>4. /\ Len(calls') = n + 1 /\ DOMAIN calls' = 1..(n + 1)
      /\ \A k \in 1..n : calls'[k] = calls[k]
      /\ calls'[n + 1].node = d /\ calls'[n + 1].done = 0 /\ d \in Nodes
  BY <1>1, Pushed DEF Known
<1>5. /\ n \in Nat /\ n >= 1 /\ DOMAIN calls = 1..n /\ Top = calls[n] /\ i \in Nodes
      /\ Top.done \in Nat /\ Len(Visits) \in Nat
      /\ \A k \in DOMAIN calls : calls[k].node \in Nodes /\ calls[k].done \in Nat
  BY <1>1, TopOfCalls DEF Known
<1>6. /\ Node = nodes[i] /\ Visits = CheckerVisits(nodes[i])
      /\ CheckedUnder[i] \in SUBSET CheckedNodes /\ DOMAIN Visits = 1..Len(Visits)
      /\ Node.kind = "array" => \A m \in 1..(Top.done - 2) :
           TypeOfChild(m) = TypeOfChild(1) /\ ~ Untyped(1)
  BY <1>1, Here
<1>7. CheckedUnder[d] \in SUBSET CheckedNodes
  <2>1. Top.done + 1 \in DOMAIN Visits
    BY <1>1, <1>5, <1>6
  <2> QED
    BY <1>5, <1>6, <2>1, BelowNodes DEF Known
<1>8. ASSUME nodes[i].kind = "array", NEW m \in 1..(Top.done - 1)
      PROVE  types[c[m]] = types[c[1]] /\ types[c[1]] # NoType
  <2>1. \A k : TypeOfChild(k) = types[c[k]]
    BY <1>6 DEF TypeOfChild, Child
  <2>2. Top.done > 1 /\ (m \in 1..(Top.done - 2) \/ m = Top.done - 1)
    BY <1>5
  <2>3. TypeOfChild(Top.done - 1) # NoType /\ TypeOfChild(Top.done - 1) = Clone(TypeOfChild(1))
    <3>1. /\ Running("check") /\ calls # <<>> /\ Node.kind = "array" /\ Top.done > 1
          /\ Top.done > 0 /\ Top.done # 1
      BY <1>1, <1>5, <1>6, <1>8, <2>2
    <3>2. ~ Untyped(Top.done - 1)
      BY <1>1, <3>1 DEF ReadsNull
    <3> QED
      BY <1>1, <3>1, <3>2 DEF Mixed, Untyped, Element1
  <2>4. Clone(types[c[1]]) = types[c[1]]
    <3>1. c # <<>>
      <4>1. c = <<>> => Visits = <<>>
        BY <1>5, <1>6, <1>8, VisitsByKind DEF Known
      <4>2. Visits = <<>> => Len(Visits) = 0
        OBVIOUS
      <4> QED
        BY <1>1, <1>5, <4>1, <4>2
    <3>2. 1 \in DOMAIN c
      BY <1>1, <1>6, <1>8, <3>1, ElementVisits
    <3>3. c[1] \in Nodes
      BY <1>5, <3>2, BelowNodes DEF Known
    <3> QED
      BY <1>2, <3>3 DEF Known, Filled
  <2> QED
    BY <1>6, <1>8, <2>1, <2>2, <2>3, <2>4 DEF Untyped
<1> HIDE DEF n, i, c, d
<1>9. ASSUME NEW k \in 1..n
      PROVE  /\ CheckedUnder[calls[k].node] \in SUBSET CheckedNodes
             /\ \A m \in 1..calls[k].done : Done(CheckerVisits(nodes[calls[k].node])[m])
             /\ nodes[calls[k].node].kind = "array" => \A m \in 1..(calls[k].done - 1) :
                  types[nodes[calls[k].node].children[m]] = types[nodes[calls[k].node].children[1]]
                    /\ types[nodes[calls[k].node].children[1]] # NoType
  <2>1. /\ CheckedUnder[calls[k].node] \in SUBSET CheckedNodes
        /\ \A m \in 1..calls[k].done : Done(CheckerVisits(nodes[calls[k].node])[m])
        /\ nodes[calls[k].node].kind = "array" => \A m \in 1..Compared(k) :
             types[nodes[calls[k].node].children[m]] = types[nodes[calls[k].node].children[1]]
               /\ types[nodes[calls[k].node].children[1]] # NoType
    BY <1>2, <1>5 DEF Known, Checking
  <2>2. CASE k = n
    BY <1>5, <1>8, <2>1, <2>2 DEF i, c
  <2>3. CASE k # n
    <3>1. Compared(k) = calls[k].done - 1
      BY <2>3 DEF Compared, n
    <3> QED
      BY <2>1, <3>1
  <2> QED
    BY <2>2, <2>3
<1>10. ASSUME NEW k \in DOMAIN calls'
       PROVE  /\ CheckedUnder'[calls'[k].node] \in SUBSET CheckedNodes'
              /\ \A m \in 1..calls'[k].done : Done(CheckerVisits(nodes[calls[k].node])[m])'
              /\ nodes'[calls'[k].node].kind = "array" => \A m \in 1..Compared(k)' :
                   /\ types'[nodes'[calls'[k].node].children[m]]
                        = types'[nodes'[calls'[k].node].children[1]]
                   /\ types'[nodes'[calls'[k].node].children[1]] # NoType
  <2>1. CASE k \in 1..n
    <3>1. calls'[k] = calls[k] /\ k # n + 1
      BY <1>4, <1>5, <2>1
    <3>2. Compared(k)' = calls[k].done - 1
      BY <1>4, <3>1 DEF Compared
    <3>3. CheckerVisits(nodes'[calls'[k].node]) = CheckerVisits(nodes[calls[k].node])
      BY <1>2, <3>1
    <3> QED
      BY <1>2, <1>3, <1>9, <2>1, <3>1, <3>2, <3>3
  <2>2. CASE k = n + 1
    <3>1. calls'[k].node = d /\ calls'[k].done = 0
      BY <1>4, <2>2
    <3>2. Compared(k)' = 0 - 2
      BY <1>4, <2>2, <3>1 DEF Compared
    <3>3. 1..Compared(k)' = {} /\ 1..calls'[k].done = {}
      BY <3>1, <3>2
    <3> QED
      BY <1>3, <1>7, <3>1, <3>3
  <2> QED
    BY <1>4, <1>5, <2>1, <2>2
<1>11. calls' # <<>> /\ IsChecked(use.kind)
  <2>1. IsChecked(use.kind)
    BY <1>1, <1>2 DEF Known, Checking
  <2>2. calls' # <<>>
    BY <1>4, <1>5
  <2> QED
    BY <2>1, <2>2
<1>12. errors > 0 => WrongVisited
  BY <1>2 DEF Known, Checking
<1> QED
  BY <1>2, <1>3, <1>10, <1>11, <1>12 DEF Checking

(***************************************************************************)
(* The steps, by what they change.                                         *)
(***************************************************************************)
GenerateReturns == Running("generate") /\ calls # <<>> /\ \E value : Evaluated(value)
Stops ==
  /\ outcome = "running" /\ pass # "parse"
  /\ \E how \in {"threw", "undefined", "malformed"} : Ends(how)
Completes == Running("generate") /\ calls = <<>> /\ \E value : Consumes(value)

LEMMA CheckSteps ==
  ASSUME Known,
         \/ CheckLiteral \/ CheckId \/ CheckArithmetic \/ CheckMinus \/ CheckLogical
         \/ CheckComparison \/ CheckCall \/ CheckAccess \/ CheckMixed \/ CheckArray
         \/ CheckUndefined \/ CheckStatementUndefined
  PROVE  CheckReturns \/ Stops
<1>1. CheckUndefined => Stops
  BY DEF CheckUndefined, ReadsNull, Visited, Running, Stops
<1>2. CheckStatementUndefined => Stops
  BY DEF CheckStatementUndefined, Running, Stops
<1> HIDE DEF Known
<1> QED
  BY <1>1, <1>2, JudgedLiteral, JudgedId, JudgedArithmetic, JudgedMinus, JudgedLogical,
     JudgedComparison, JudgedCall, JudgedAccess, JudgedMixed, JudgedArray

LEMMA GenerateSteps ==
  ASSUME \/ GenerateRefused \/ GenerateNull \/ GenerateLiteral
         \/ GenerateId \/ GenerateLess \/ GenerateArithmetic \/ GenerateEq
         \/ GenerateUnary \/ GenerateCall \/ GenerateAccess \/ GenerateArray
         \/ StoreLet \/ StoreReturn \/ PrintValue \/ PrintFormatted
  PROVE  GenerateReturns \/ Stops \/ Completes
<1>1. ASSUME NEW kinds, Ready(kinds)
      PROVE  /\ Running("generate") /\ calls # <<>> /\ outcome = "running" /\ pass # "parse"
             /\ \A value : Evaluated(value) => GenerateReturns
             /\ \A how \in {"threw", "undefined", "malformed"} : Ends(how) => Stops
  BY <1>1 DEF Ready, Finishes, Visited, Running, GenerateReturns, Stops
<1>2. ASSUME NEW kind, Generated(kind)
      PROVE  /\ \A value : Consumes(value) => Completes
             /\ \A how \in {"threw", "undefined", "malformed"} : Ends(how) => Stops
  BY <1>2 DEF Generated, Running, Completes, Stops
<1>3. CASE GenerateRefused \/ GenerateNull
  BY <1>3 DEF GenerateRefused, GenerateNull, Entered, Running, Stops
<1>4. CASE GenerateLiteral
  BY <1>1, <1>4 DEF GenerateLiteral
<1>5. CASE GenerateId
  BY <1>1, <1>5 DEF GenerateId
<1>6. CASE GenerateLess
  BY <1>1, <1>6 DEF GenerateLess
<1>7. CASE GenerateArithmetic
  BY <1>1, <1>7 DEF GenerateArithmetic, GenerateOperands
<1>8. CASE GenerateEq
  BY <1>1, <1>8 DEF GenerateEq
<1>9. CASE GenerateUnary
  BY <1>1, <1>9 DEF GenerateUnary
<1>10. CASE GenerateCall
  BY <1>1, <1>10 DEF GenerateCall
<1>11. CASE GenerateAccess
  BY <1>1, <1>11 DEF GenerateAccess
<1>12. CASE GenerateArray
  BY <1>1, <1>12 DEF GenerateArray
<1>13. CASE StoreLet
  BY <1>2, <1>13 DEF StoreLet
<1>14. CASE StoreReturn
  BY <1>2, <1>14 DEF StoreReturn
<1>15. CASE PrintValue
  BY <1>2, <1>15 DEF PrintValue
<1>16. CASE PrintFormatted
  BY <1>2, <1>16 DEF PrintFormatted
<1> QED
  BY <1>3, <1>4, <1>5, <1>6, <1>7, <1>8, <1>9, <1>10, <1>11, <1>12, <1>13, <1>14, <1>15, <1>16

LEMMA Steps ==
  ASSUME Known, Next
  PROVE  \/ AddLeaf \/ AddBranch \/ ParseStatement
         \/ CheckReturns \/ CheckAccept \/ CheckStatement \/ Stops
         \/ GenerateAccept \/ GenerateReturns \/ Completes
<1> HIDE DEF Known
<1> QED
  BY CheckSteps, GenerateSteps DEF Next

LEMMA FirstFrame ==
  ASSUME Tree, Root \in Nodes, nodes' = nodes,
         calls' = <<Frame(Root)>> \/ calls' = <<>>
  PROVE  Nested'
<1>1. CASE calls' = <<>>
  BY <1>1 DEF Nested
<1>2. CASE calls' = <<Frame(Root)>>
  <2> DEFINE r == Root
  <2>1. Nodes' = Nodes /\ Root' = r
    BY DEF Nodes, Root
  <2>2. r \in Nat
    BY NodesCounted
  <2>3. Frame(r) \in [node : Nat, done : Nat] /\ Frame(r).node = r /\ Frame(r).done = 0
    BY <2>2 DEF Frame
  <2>4. /\ CheckerVisits(nodes[r]) \in Seq(Members(nodes[r].children))
        /\ GeneratorVisits(nodes[r]) \in Seq(Members(nodes[r].children))
    BY VisitedOperands
  <2>5. Len(CheckerVisits(nodes[r])) \in Nat /\ Len(GeneratorVisits(nodes[r])) \in Nat
    BY <2>4, SeqElements
  <2>6. 0 <= Len(IF pass' = "check" THEN CheckerVisits(nodes'[r]) ELSE GeneratorVisits(nodes'[r]))
    BY <2>5
  <2> HIDE DEF r
  <2>7. /\ calls' \in Seq([node : Nat, done : Nat]) /\ Len(calls') = 1
        /\ DOMAIN calls' = {1} /\ calls'[1] = Frame(r)
    BY <1>2, <2>3 DEF r
  <2>8. ASSUME NEW k \in DOMAIN calls'
        PROVE  /\ k = 1 /\ calls'[k].node = r /\ calls'[k].done = 0 /\ r \in Nodes
    BY <2>1, <2>3, <2>7 DEF r
  <2>9. 0 <= Len(VisitsOf(r)')
    BY <2>6 DEF VisitsOf
  <2>10. \A k \in DOMAIN calls' :
           /\ calls'[k].node \in Nodes'
           /\ calls'[k].done <= Len(VisitsOf(calls[k].node)')
           /\ k < Len(calls') => calls'[k].done < Len(VisitsOf(calls[k].node)')
           /\ calls'[k].node = r
    BY <2>1, <2>7, <2>8, <2>9
  <2>11. \A k, m \in DOMAIN calls' : k < m => calls'[m].node < calls'[k].node
    BY <2>8
  <2> QED
    BY <2>1, <2>7, <2>8, <2>10, <2>11 DEF Nested
<1> QED
  BY <1>1, <1>2

LEMMA TreeStep ==
  ASSUME Known, [Next]_vars
  PROVE  Tree'
<1>1. CASE AddLeaf \/ AddBranch
  BY <1>1, TreeParsed DEF Known
<1>2. ASSUME nodes' = nodes, open' = open PROVE Tree'
  BY <1>2 DEF Known, Tree, Shaped, Opened, ClosedOnce, Nodes, Root
<1>3. CASE ParseStatement
  BY <1>2, <1>3 DEF ParseStatement
<1>4. CASE CheckReturns
  BY <1>2, <1>4 DEF CheckReturns, Datatype, text
<1>5. CASE CheckAccept \/ GenerateAccept
  BY <1>2, <1>5 DEF CheckAccept, GenerateAccept, Accept, text
<1>6. CASE CheckStatement
  BY <1>2, <1>6 DEF CheckStatement, text
<1>7. CASE Stops
  BY <1>2, <1>7 DEF Stops, Ends, text
<1>8. CASE GenerateReturns
  BY <1>2, <1>8 DEF GenerateReturns, Evaluated, text
<1>9. CASE Completes
  BY <1>2, <1>9 DEF Completes, Consumes, text
<1>10. CASE UNCHANGED vars
  BY <1>2, <1>10 DEF vars
<1> HIDE DEF Known
<1> QED
  BY <1>1, <1>3, <1>4, <1>5, <1>6, <1>7, <1>8, <1>9, <1>10, Steps

LEMMA NestedStep ==
  ASSUME Known, [Next]_vars
  PROVE  Nested'
<1>1. ASSUME nodes' = nodes, calls' = calls, pass' = pass PROVE Nested'
  BY <1>1 DEF Known, Nested, VisitsOf, Nodes, Root
<1>2. CASE AddLeaf \/ AddBranch
  <2>1. calls' = <<>>
    BY <1>2 DEF AddLeaf, AddBranch, AddNode, Known, Filled
  <2> QED
    BY <2>1 DEF Nested
<1>3. CASE ParseStatement
  <2>1. nodes' = nodes /\ (calls' = <<Frame(Root)>> \/ calls' = <<>>)
    BY <1>3 DEF ParseStatement
  <2>2. Root \in Nodes
    <3>1. open \in Seq(Nat) /\ Len(open) = 1
      BY <1>3 DEF ParseStatement, Known, Tree, Opened
    <3>2. 1 \in DOMAIN open /\ open # <<>>
      BY <3>1
    <3> QED
      BY <3>1, <3>2 DEF Known, Tree, Opened
  <2> QED
    BY <2>1, <2>2, FirstFrame DEF Known
<1>4. CASE CheckReturns \/ GenerateReturns
  BY <1>4, Popped DEF CheckReturns, Datatype, GenerateReturns, Evaluated, text, Known
<1>5. CASE CheckAccept \/ GenerateAccept
  BY <1>5, Pushed DEF CheckAccept, GenerateAccept, Known
<1>6. CASE CheckStatement
  BY <1>6, FirstFrame DEF CheckStatement, text, Known, Filled, Running
<1>7. CASE Stops
  BY <1>1, <1>7 DEF Stops, Ends, text
<1>8. CASE Completes
  BY <1>1, <1>8 DEF Completes, Consumes, text
<1>9. CASE UNCHANGED vars
  BY <1>1, <1>9 DEF vars
<1> HIDE DEF Known
<1> QED
  BY <1>2, <1>3, <1>4, <1>5, <1>6, <1>7, <1>8, <1>9, Steps

LEMMA FilledStep ==
  ASSUME Known, [Next]_vars
  PROVE  Filled'
<1>1. CASE AddLeaf \/ AddBranch
  BY <1>1 DEF AddLeaf, AddBranch, AddNode, Known, Filled
<1>2. CASE ParseStatement
  <2>1. open \in Seq(Nat) /\ Len(open) = 1 /\ nodes' = nodes /\ open' = open
    BY <1>2 DEF ParseStatement, Known, Tree, Opened
  <2>2. open = <<Root>> /\ Root \in Nodes
    <3>1. 1 \in DOMAIN open /\ open # <<>>
      BY <2>1, SeqElements
    <3>2. open[1] = Root /\ open[1] \in Nodes
      BY <2>1, <3>1 DEF Known, Tree, Opened
    <3> HIDE DEF Root, Nodes
    <3>3. open = <<Root>>
      BY <2>1, <3>2
    <3> QED
      BY <3>2, <3>3
  <2>3. PICK v \in Spelt(nodes) : use' \in v.uses
    BY <1>2 DEF ParseStatement
  <2>4. IsStatement(use)'
    BY <2>3, EntriesAssumption DEF Spelt, IsStatement
  <2>5. /\ pass' = "check" /\ errors' = 0 /\ outcome' = "running"
        /\ types' = [i \in Nodes |-> NoType] /\ values' = [i \in Nodes |-> NoValue]
        /\ Nodes' = Nodes /\ Root' = Root
    BY <1>2, <2>1 DEF ParseStatement, Known, Filled, Nodes, Root
  <2>6. Clone(NoType) = NoType
    BY TypeSets, Clones
  <2> QED
    BY <2>1, <2>2, <2>4, <2>5, <2>6 DEF Filled
<1>3. CASE CheckReturns
  <2>1. PICK type \in {NoType} \cup Types : \E reported \in {0, 1} :
          Judged(Top.node, type, reported) /\ Datatype(type, reported)
    BY <1>3 DEF CheckReturns
  <2>2. PICK reported \in {0, 1} : Judged(Top.node, type, reported) /\ Datatype(type, reported)
    BY <2>1
  <2>3. Running("check") /\ calls # <<>>
    BY <1>3 DEF CheckReturns
  <2>4. /\ DOMAIN types' = Nodes
        /\ \A j \in Nodes : types'[j] \in {type, types[j]}
    BY <2>2, <2>3, DoneStays
  <2>5. /\ Clone(type) = type /\ errors' \in Nat
        /\ UNCHANGED <<nodes, open, use, pass, values, outcome>>
    BY <2>2 DEF Judged, Datatype, text, Known, Filled
  <2>6. Nodes' = Nodes /\ Root' = Root
    BY <2>5 DEF Nodes, Root
  <2> QED
    BY <2>3, <2>4, <2>5, <2>6 DEF Known, Filled, Running, IsStatement
<1>4. CASE CheckAccept \/ GenerateAccept
  <2>1. UNCHANGED <<nodes, open, use, pass, types, errors, values, outcome>> /\ pass # "parse"
    BY <1>4 DEF CheckAccept, GenerateAccept, Accept, text, Running
  <2>2. Nodes' = Nodes /\ Root' = Root
    BY <2>1 DEF Nodes, Root
  <2> QED
    BY <2>1, <2>2 DEF Known, Filled, IsStatement
<1>5. CASE CheckStatement
  <2>1. UNCHANGED <<nodes, open, use, types, values>> /\ pass = "check"
    BY <1>5 DEF CheckStatement, text, Running
  <2>2. Nodes' = Nodes /\ Root' = Root
    BY <2>1 DEF Nodes, Root
  <2>3. /\ errors' \in Nat /\ (pass' = "generate" => errors' = 0)
        /\ pass' \in {"check", "generate"} /\ outcome' \in {"running", "rejected"}
    <3>1. errors \in Nat
      BY DEF Known, Filled
    <3>2. errors' \in Nat
      BY <1>5, <3>1 DEF CheckStatement
    <3> QED
      BY <1>5, <2>1, <3>2 DEF CheckStatement, Running
  <2> QED
    BY <2>1, <2>2, <2>3 DEF Known, Filled, IsStatement
<1>6. CASE Stops
  <2>1. UNCHANGED <<nodes, open, use, pass, types, errors, values>> /\ pass # "parse"
        /\ outcome' \in {"threw", "undefined", "malformed"}
    BY <1>6 DEF Stops, Ends, text
  <2>2. Nodes' = Nodes /\ Root' = Root
    BY <2>1 DEF Nodes, Root
  <2> QED
    BY <2>1, <2>2 DEF Known, Filled, IsStatement
<1>7. CASE GenerateReturns
  <2>1. PICK value : Evaluated(value)
    BY <1>7 DEF GenerateReturns
  <2>2. /\ UNCHANGED <<nodes, open, use, pass, types, errors, outcome>> /\ pass = "generate"
        /\ values' = [values EXCEPT ![Top.node] = value]
    BY <1>7, <2>1 DEF GenerateReturns, Evaluated, text, Running
  <2>3. Nodes' = Nodes /\ Root' = Root /\ DOMAIN values' = DOMAIN values
    BY <2>2 DEF Nodes, Root
  <2> QED
    BY <2>2, <2>3 DEF Known, Filled, IsStatement
<1>8. CASE Completes
  <2>1. UNCHANGED <<nodes, open, use, pass, types, errors, values>> /\ pass = "generate"
        /\ outcome' = "generated"
    BY <1>8 DEF Completes, Consumes, text, Running
  <2>2. Nodes' = Nodes /\ Root' = Root
    BY <2>1 DEF Nodes, Root
  <2> QED
    BY <2>1, <2>2 DEF Known, Filled, IsStatement
<1>9. CASE UNCHANGED vars
  <2>1. UNCHANGED <<nodes, open, use, pass, calls, types, errors, values, outcome>>
    BY <1>9 DEF vars
  <2>2. Nodes' = Nodes /\ Root' = Root
    BY <2>1 DEF Nodes, Root
  <2> QED
    BY <2>1, <2>2 DEF Known, Filled, IsStatement
<1> HIDE DEF Known
<1> QED
  BY <1>1, <1>2, <1>3, <1>4, <1>5, <1>6, <1>7, <1>8, <1>9, Steps

(***************************************************************************)
(* What the checker leaves to the generator, or rejects.                   *)
(***************************************************************************)
Settled ==
  /\ pass # "parse" => \A i \in Nodes : i \notin CheckedNodes => types[i] = NoType
  /\ pass = "generate" =>
       /\ \A i \in CheckedNodes : TypedAs(i, types[i])
       /\ use.kind = "let" => types[Root] \in {Dirty, use.type}
  /\ RejectedIsWrong

LEMMA CheckingStep ==
  ASSUME Known, [Next]_vars
  PROVE  Checking'
<1>1. ASSUME pass' # "check" PROVE Checking'
  BY <1>1 DEF Checking
<1>2. ASSUME UNCHANGED <<nodes, use, pass, calls, types, errors>>,
             outcome' = outcome \/ outcome' # "running"
      PROVE  Checking'
  <2>1. /\ Nodes' = Nodes /\ Root' = Root /\ CheckedNodes' = CheckedNodes
        /\ CheckedUnder' = CheckedUnder
        /\ WrongVisited' <=> WrongVisited
        /\ \A j : Done(j)' <=> Done(j)
    BY <1>2, FrozenText, FrozenTypes
  <2>2. \A k : Compared(k)' = Compared(k)
    BY <1>2 DEF Compared
  <2> QED
    BY <1>2, <2>1, <2>2 DEF Known, Checking
<1>3. CASE AddLeaf \/ AddBranch
  BY <1>1, <1>3 DEF AddLeaf, AddBranch, AddNode
<1>4. CASE ParseStatement
  <2> DEFINE r == Root
  <2>1. /\ nodes' = nodes /\ errors' = errors /\ outcome' = outcome /\ errors = 0
        /\ calls' = IF IsChecked(use'.kind) THEN <<Frame(Root)>> ELSE <<>>
    BY <1>4 DEF ParseStatement, Known, Filled
  <2>2. Nodes' = Nodes /\ Root' = r /\ CheckedUnder' = CheckedUnder
    BY <2>1 DEF Nodes, Root, CheckedUnder, Members, CheckerVisits
  <2>3. CheckedNodes' = IF IsChecked(use'.kind) THEN CheckedUnder[r] ELSE {}
    BY <2>2 DEF CheckedNodes, IsChecked
  <2> HIDE DEF r
  <2>4. CASE IsChecked(use'.kind)
    <3>1. DOMAIN calls' = {1} /\ calls'[1].node = r /\ calls'[1].done = 0 /\ Len(calls') = 1
          /\ calls' # <<>>
      BY <2>1, <2>4 DEF Frame, r
    <3>2. Compared(1)' = 0 - 2
      BY <3>1 DEF Compared
    <3>3. 1..Compared(1)' = {} /\ 1..calls'[1].done = {}
      BY <3>1, <3>2
    <3> QED
      BY <2>1, <2>2, <2>3, <2>4, <3>1, <3>3 DEF Checking, IsChecked
  <2>5. CASE ~ IsChecked(use'.kind)
    BY <2>1, <2>2, <2>5 DEF Checking, IsChecked
  <2> QED
    BY <2>4, <2>5
<1>5. CASE CheckReturns
  BY <1>5, CheckingReturns
<1>6. CASE CheckAccept
  BY <1>6, CheckingAccepts
<1>7. CASE CheckStatement
  <2>1. CASE pass' = "generate"
    BY <1>1, <2>1
  <2>2. CASE pass' # "generate"
    <3>1. /\ UNCHANGED <<nodes, use, pass, calls, types>> /\ pass = "check" /\ calls = <<>>
          /\ outcome' = "rejected" /\ errors' > 0
      BY <1>7, <2>2 DEF CheckStatement, text, Running
    <3>2. /\ Root' = Root
          /\ \A j : LeftUntyped(j)' <=> LeftUntyped(j)
      BY <3>1, FrozenText DEF Root
    <3>3. \A j : Done(j) => Done(j)'
      BY <3>1, <3>2 DEF Done
    <3> QED
      BY <3>1, <3>2, <3>3 DEF Known, Checking, IsChecked
  <2> QED
    BY <2>1, <2>2
<1>8. CASE Stops
  BY <1>2, <1>8 DEF Stops, Ends, text
<1>9. CASE GenerateAccept
  BY <1>1, <1>9 DEF GenerateAccept, Accept, Running
<1>10. CASE GenerateReturns
  BY <1>1, <1>10 DEF GenerateReturns, Evaluated, Running
<1>11. CASE Completes
  BY <1>1, <1>11 DEF Completes, Consumes, Running
<1>12. CASE UNCHANGED vars
  BY <1>2, <1>12 DEF vars
<1> HIDE DEF Known
<1> QED
  BY <1>3, <1>4, <1>5, <1>6, <1>7, <1>8, <1>9, <1>10, <1>11, <1>12, Steps

LEMMA SettledStatement ==
  ASSUME Known, Settled, CheckStatement
  PROVE  Settled'
<1>1. /\ Running("check") /\ pass = "check" /\ calls = <<>> /\ outcome = "running"
      /\ use.kind = "let" => types[Root] # NoType
      /\ errors' = errors + IF Incompatible THEN 1 ELSE 0
      /\ IF errors' > 0 THEN outcome' = "rejected" /\ pass' = pass
         ELSE pass' = "generate" /\ outcome' = outcome
      /\ UNCHANGED <<nodes, use, types>>
  BY DEF CheckStatement, Running, text
<1>2. /\ Nodes' = Nodes /\ Root' = Root /\ CheckedNodes' = CheckedNodes /\ Meaning' = Meaning
      /\ \A j, t : TypedAs(j, t)' <=> TypedAs(j, t)
  BY <1>1, FrozenText
<1>3. errors \in Nat /\ Root \in Nodes /\ Root \in CheckedUnder[Root]
  <2>1. errors \in Nat /\ Root \in Nodes
    BY <1>1 DEF Known, Filled
  <2> QED
    BY <2>1, BelowNodes DEF Known
<1>4. CASE errors' > 0
  <2>1. \/ WrongVisited
        \/ use.kind = "let" /\ Meaning[Root] # use.type
        \/ \E i \in CheckedNodes : Meaning[i].base = "Slice"
    <3>1. CASE errors > 0
      BY <1>1, <3>1 DEF Known, Checking
    <3>2. CASE errors = 0
      <4>1. use.kind = "let" /\ types[Root] \notin {Dirty, use.type} /\ types[Root] # NoType
        BY <1>1, <1>3, <1>4, <3>2 DEF Incompatible
      <4>2. Root \in CheckedNodes /\ CheckedUnder[Root] \in SUBSET CheckedNodes
        BY <1>3, <4>1 DEF CheckedNodes, IsChecked
      <4>3. Done(Root)
        BY <1>1, <4>1 DEF Known, Checking, IsChecked
      <4>4. /\ types[Root] \in Types
            /\ WrongVisited \/ types[Root] = Clone(Meaning[Root])
        BY <1>1, <1>3, <3>2, <4>1, <4>2, <4>3, Operand
      <4>5. Clone(Meaning[Root]) # Meaning[Root] => Meaning[Root].base = "Slice"
        BY <1>3, MeaningByKind, Clones DEF Known
      <4> QED
        BY <4>1, <4>2, <4>4, <4>5
    <3> QED
      BY <1>3, <3>1, <3>2
  <2> QED
    BY <1>1, <1>2, <1>4, <2>1 DEF Settled, RejectedIsWrong, WrongVisited
<1>5. CASE ~ (errors' > 0)
  <2>1. errors = 0 /\ ~ Incompatible /\ pass' = "generate" /\ outcome' = "running"
    BY <1>1, <1>3, <1>5
  <2>2. \A i \in CheckedNodes : TypedAs(i, types[i])
    <3>1. CASE IsChecked(use.kind)
      BY <1>1, <2>1, <3>1 DEF Known, Checking, Done, CheckedNodes
    <3>2. CASE ~ IsChecked(use.kind)
      BY <3>2 DEF CheckedNodes
    <3> QED
      BY <3>1, <3>2
  <2> QED
    BY <1>1, <1>2, <2>1, <2>2 DEF Settled, RejectedIsWrong, Incompatible
<1> QED
  BY <1>4, <1>5

LEMMA SettledStep ==
  ASSUME Known, Settled, [Next]_vars
  PROVE  Settled'
<1>1. ASSUME UNCHANGED <<nodes, use, pass, types>>, outcome' = outcome \/ outcome' # "rejected"
      PROVE  Settled'
  <2>1. /\ Nodes' = Nodes /\ Root' = Root /\ CheckedNodes' = CheckedNodes /\ Meaning' = Meaning
        /\ \A j, t : TypedAs(j, t)' <=> TypedAs(j, t)
    BY <1>1, FrozenText
  <2> QED
    BY <1>1, <2>1 DEF Settled, RejectedIsWrong
<1>2. CASE AddLeaf \/ AddBranch
  BY <1>2 DEF AddLeaf, AddBranch, AddNode, Known, Filled, Settled, RejectedIsWrong
<1>3. CASE ParseStatement
  <2>1. /\ pass' = "check" /\ outcome' = "running" /\ nodes' = nodes
        /\ types' = [i \in DOMAIN nodes |-> NoType]
    BY <1>3 DEF ParseStatement, Known, Filled
  <2> QED
    BY <2>1 DEF Settled, RejectedIsWrong, Nodes
<1>4. CASE CheckReturns
  <2>1. PICK type \in {NoType} \cup Types : \E reported \in {0, 1} :
          Judged(Top.node, type, reported) /\ Datatype(type, reported)
    BY <1>4 DEF CheckReturns
  <2>2. PICK reported \in {0, 1} : Judged(Top.node, type, reported) /\ Datatype(type, reported)
    BY <2>1
  <2>3. Running("check") /\ calls # <<>>
    BY <1>4 DEF CheckReturns
  <2>4. /\ \A j \in Nodes : types'[j] = IF j = Top.node THEN type ELSE types[j]
        /\ Top.node \in CheckedNodes
    BY <2>2, <2>3, DoneStays, Here
  <2>5. UNCHANGED <<nodes, use, pass, outcome>> /\ pass = "check" /\ outcome = "running"
    BY <2>2, <2>3 DEF Datatype, text, Running
  <2>6. Nodes' = Nodes /\ CheckedNodes' = CheckedNodes
    BY <2>5, FrozenText
  <2> QED
    BY <2>4, <2>5, <2>6 DEF Settled, RejectedIsWrong
<1>5. CASE CheckAccept \/ GenerateAccept
  BY <1>1, <1>5 DEF CheckAccept, GenerateAccept, Accept, text
<1>6. CASE CheckStatement
  BY <1>6, SettledStatement
<1>7. CASE Stops
  BY <1>1, <1>7 DEF Stops, Ends, text
<1>8. CASE GenerateReturns
  BY <1>1, <1>8 DEF GenerateReturns, Evaluated, text
<1>9. CASE Completes
  BY <1>1, <1>9 DEF Completes, Consumes, text
<1>10. CASE UNCHANGED vars
  BY <1>1, <1>10 DEF vars
<1> HIDE DEF Known
<1> QED
  BY <1>2, <1>3, <1>4, <1>5, <1>6, <1>7, <1>8, <1>9, <1>10, Steps

(***************************************************************************)
(* The checker: types, and what is accepted and rejected.                  *)
(***************************************************************************)
LEMMA KnownInit == Init => Known /\ Settled
<1> SUFFICES ASSUME Init PROVE Known /\ Settled
  OBVIOUS
<1>1. Tree
  BY TreeInit
<1>2. Nested
  BY DEF Init, Nested
<1>3. Filled /\ Checking /\ Settled
  BY DEF Init, Filled, Checking, Settled, RejectedIsWrong
<1> QED
  BY <1>1, <1>2, <1>3 DEF Known

LEMMA KnownAlways == Spec => [](Known /\ Settled)
<1>1. Init => Known /\ Settled
  BY KnownInit
<1>2. Known /\ Settled /\ [Next]_vars => (Known /\ Settled)'
  <2> SUFFICES ASSUME Known, Settled, [Next]_vars PROVE Known' /\ Settled'
    OBVIOUS
  <2> HIDE DEF Settled
  <2>1. Tree' /\ Nested' /\ Filled' /\ Checking' /\ Settled'
    BY TreeStep, NestedStep, FilledStep, CheckingStep, SettledStep
  <2> QED
    BY <2>1 DEF Known
<1> QED
  BY <1>1, <1>2, PTL DEF Spec

(* The visits nest as the nodes do, whatever the expression, and each pass *)
(* writes only what is its own.                                            *)
THEOREM VisitsNest == Spec => []TypeOK
<1>1. Known => TypeOK
  <2> SUFFICES ASSUME Known PROVE TypeOK
    OBVIOUS
  <2>1. \A k \in DOMAIN calls : calls[k].node =
          IF k = 1 THEN Root
          ELSE LET caller == calls[k - 1] IN
            (IF pass = "check" THEN CheckerVisits(nodes[caller.node])
             ELSE GeneratorVisits(nodes[caller.node]))[caller.done + 1]
    BY DEF Known, Nested, VisitsOf
  <2> QED
    BY <2>1 DEF Known, Filled, TypeOK
<1> QED
  BY <1>1, KnownAlways, PTL

(* In a statement the checker accepts, every node it has visited has the   *)
(* type the text gives it: dirty types, visits that are left early and the *)
(* second visit of first elements lose no error, in expressions of any     *)
(* size and shape.                                                         *)
THEOREM AcceptedStatementsAreTyped == Spec => []AcceptedIsTyped
<1>1. Known /\ Settled => AcceptedIsTyped
  <2> SUFFICES ASSUME Known, Settled, pass = "generate", NEW i \in CheckedNodes
               PROVE  \/ LeftUntyped(i) /\ types[i] = NoType
                      \/ HasDirty(types[i]) /\ \E j \in CheckedUnder[i] : CallsVariable(j)
                      \/ /\ types[i] = Clone(Meaning[i])
                         /\ i = Root /\ use.kind = "let" => Clone(Meaning[i]) = use.type
    BY DEF AcceptedIsTyped
  <2>1. TypedAs(i, types[i]) /\ (use.kind = "let" => types[Root] \in {Dirty, use.type})
    BY DEF Settled
  <2>2. i \in Nodes
    BY CheckedUnderNodes DEF Known, Filled, CheckedNodes
  <2>3. Clone(Meaning[i]) # Dirty
    <3>1. Meaning[i] \in Written \cup {Wrong} /\ Meaning[i] \in AnyType
      BY <2>2, MeaningByKind DEF Known
    <3>2. ~ HasDirty(Meaning[i]) /\ HasDirty(Dirty)
      BY <3>1, TypeSets DEF HasDirty, Dirty, Scalar
    <3>3. ~ HasDirty(Clone(Meaning[i]))
      BY <3>1, <3>2, Clones
    <3> QED
      BY <3>2, <3>3
  <2> QED
    BY <2>1, <2>3 DEF TypedAs
<1> QED
  BY <1>1, KnownAlways, PTL

(* A statement is rejected for something wrong in it, or for the copy of a *)
(* slice's type being that of a pointer.                                   *)
THEOREM RejectionsHaveReasons == Spec => []RejectedIsWrong
<1>1. Settled => RejectedIsWrong
  BY DEF Settled
<1> QED
  BY <1>1, KnownAlways, PTL

(***************************************************************************)
(* What the code generator makes of one statement the type checker has     *)
(* accepted.                                                               *)
(***************************************************************************)
AllSupported == \A i \in Nodes : Supported(i)

(* A call by name of local variables that have the types of the parameters. *)
Parameters(i) == Functions[nodes[nodes[i].children[1]].name].params
Fits(i) ==
  LET args == Tail(nodes[i].children) IN
  /\ nodes[i].kind = "call"
  /\ \A k \in DOMAIN args : Holds(nodes[args[k]]) /\ IsLocal(args[k])
  /\ [k \in DOMAIN args |-> Meaning[args[k]]] = Parameters(i)
Passable(i) ==
  \A k \in DOMAIN Parameters(i) :
    Sized(Parameters(i)[k]) /\ ~ OnHeap(Tail(nodes[i].children)[k])

(* What is known of the value generated for a node. *)
Made(i, value) ==
  /\ \/ Meaning[i] = Wrong
     \/ \E j \in Under[i] : nodes[j].kind = "less"
     \/ Lowered(value.type) =
          IF nodes[i].kind = "call" THEN Prototype(Meaning[i]) ELSE Lowered(Meaning[i])
  /\ \/ nodes[i].kind = "less"
     \/ /\ value.form \in {"value", "alloca", "heap", "gep"}
        /\ value.form = "alloca" <=> IsLocal(i) /\ ~ OnHeap(i)
        /\ value.form = "heap" <=> OnHeap(i)
        /\ value.form = "gep" <=> nodes[i].kind = "access"
        /\ value.form = "gep" => IsChecked(use.kind)
  /\ nodes[i].kind = "id" => value.type = Meaning[i]
  /\ AllSupported /\ IntegerOperand(i) => value.type = Int32
  /\ Fits(i) => Passable(i)
Present(i) == values[i] # NoValue \/ nodes[i].kind = "less"

UntypedNode ==
  \/ \E i \in Nodes : LeftUntyped(i)
  \/ \E i \in CheckedNodes : nodes[i].kind = "not"
  \/ \E i \in Nodes \ CheckedNodes :
       nodes[i].kind = "array"
         \/ \E j \in Nodes : nodes[j].kind = "access" /\ nodes[j].children[1] = i

Generating ==
  /\ pass = "generate" =>
       /\ \A i \in Nodes : values[i] = NoValue \/ Made(i, values[i])
       /\ calls = <<>> => Present(Root)
       /\ \A k \in DOMAIN calls : LET i == calls[k].node IN
            /\ \A m \in 1..calls[k].done : Present(GeneratorVisits(nodes[i])[m])
            /\ AllSupported /\ IsChecked(use.kind) => CheckedUnder[i] \in SUBSET CheckedNodes
       /\ AllSupported => outcome \in {"running", "generated"}
  /\ outcome = "generated" => pass = "generate" /\ calls = <<>>
  /\ outcome = "malformed" => (Fits(Root) => ~ Passable(Root))
  /\ outcome = "undefined" => UntypedNode
  /\ AddressesOfNamesAreStored

Inv == Known /\ Settled /\ Generating

(* The ways the generator returns from a visit, stops and completes. *)
Judges(i, value) == Made(i, value) /\ (value # NoValue \/ nodes[i].kind = "less")
MakesValue ==
  /\ Running("generate") /\ calls # <<>>
  /\ \E value : Judges(Top.node, value) /\ Evaluated(value)
StopsFor(how) ==
  /\ Ends(how)
  /\ pass = "generate" => ~ AllSupported
  /\ how = "malformed" => (Fits(Root) => ~ Passable(Root))
  /\ how = "undefined" => UntypedNode
StopsDuly ==
  /\ outcome = "running" /\ pass # "parse"
  /\ \E how \in {"threw", "undefined", "malformed"} : StopsFor(how)
StoresDuly(value) ==
  (\A i \in Nodes : nodes[i].kind # "less") =>
    value.form =
      IF use.kind = "let" /\ IsLarge(use.type) THEN "null"
      ELSE IF OnHeap(Root) THEN "heap"
      ELSE IF use.kind \in {"print", "print_f"} THEN "value"
      ELSE IF IsLocal(Root) THEN "alloca"
      ELSE IF nodes[Root].kind = "access" THEN "gep"
      ELSE "value"
CompletesDuly ==
  /\ Running("generate") /\ calls = <<>>
  /\ \E value : StoresDuly(value) /\ Consumes(value)

-----------------------------------------------------------------------------
(* Types as LLVM has them. *)
LowBase(base) == IF base \in {"String", "Slice", "Pointer"} THEN "ptr" ELSE base
LEMMA LoweredRecord ==
  ASSUME NEW d, NEW b
  PROVE  Lowered([dims |-> d, base |-> b]) = [dims |-> d, base |-> LowBase(b)]
<1> DEFINE t == [dims |-> d, base |-> b]
<1>1. t.base = b /\ \A c : [t EXCEPT !.base = c] = [dims |-> d, base |-> c]
  OBVIOUS
<1>2. Lowered(t) = [t EXCEPT !.base = LowBase(t.base)]
  BY DEF Lowered, LowBase
<1> QED
  BY <1>1, <1>2

LEMMA CloneRecord ==
  ASSUME NEW d, NEW b
  PROVE  Clone([dims |-> d, base |-> b])
           = [dims |-> d, base |-> IF b = "Slice" THEN "Pointer" ELSE b]
BY DEF Clone

LEMMA LoweredTypes ==
  ASSUME NEW t \in AnyType
  PROVE  /\ Lowered(Clone(t)) = Lowered(t) /\ Lowered(t).dims = t.dims
         /\ Lowered(Lowered(t)) = Lowered(t)
         /\ Prototype(Clone(t)) = Prototype(t) /\ Lowered(Prototype(t)) = Prototype(t)
         /\ Prototype(t) \in {Int32, Bool} => Prototype(t) = Lowered(t)
         /\ Lowered(t) = Prototype(t) <=> Sized(t)
<1> DEFINE cloned == IF t.base = "Slice" THEN "Pointer" ELSE t.base
           tens == [k \in DOMAIN t.dims |-> 10]
           low == LowBase(t.base)
<1>1. t = [dims |-> t.dims, base |-> t.base] /\ t.dims \in Seq(Nat)
  BY DEF AnyType
<1>2. LowBase(low) = low /\ LowBase(cloned) = low
  BY DEF LowBase
<1>3. Clone(t) = [dims |-> t.dims, base |-> cloned]
  BY <1>1, CloneRecord
<1>4. Lowered(t) = [dims |-> t.dims, base |-> low]
  BY <1>1, LoweredRecord
<1> HIDE DEF cloned, tens, low
<1>5. /\ Lowered([dims |-> t.dims, base |-> low]) = [dims |-> t.dims, base |-> low]
      /\ Lowered([dims |-> t.dims, base |-> cloned]) = [dims |-> t.dims, base |-> low]
  BY <1>2, LoweredRecord
<1>6. Clone(t) \in AnyType /\ Clone(t).dims = t.dims /\ Clone(t).base = cloned
  BY <1>3, Clones
<1>7. /\ [t EXCEPT !.dims = [k \in DOMAIN @ |-> 10]] = [dims |-> tens, base |-> t.base]
      /\ [Clone(t) EXCEPT !.dims = [k \in DOMAIN @ |-> 10]] = [dims |-> tens, base |-> cloned]
  <2>1. /\ [t EXCEPT !.dims = tens] = [dims |-> tens, base |-> t.base]
        /\ [Clone(t) EXCEPT !.dims = tens] = [dims |-> tens, base |-> cloned]
    BY <1>6, Redimensioned
  <2> QED
    BY <1>6, <2>1 DEF tens
<1>8. Prototype(t) = [dims |-> tens, base |-> low] /\ Prototype(Clone(t)) = Prototype(t)
  <2>1. LowBase(t.base) = low
    BY DEF low
  <2> QED
    BY <1>2, <1>7, <2>1, LoweredRecord DEF Prototype
<1>9. Lowered(Prototype(t)) = Prototype(t)
  BY <1>2, <1>8, LoweredRecord
<1>10. tens = t.dims <=> Sized(t)
  <2>1. DOMAIN tens = DOMAIN t.dims /\ \A k \in DOMAIN t.dims : tens[k] = 10
    BY DEF tens
  <2>2. Sized(t) => tens = t.dims
    BY <1>1 DEF Sized, tens
  <2> QED
    BY <2>1, <2>2 DEF Sized
<1>11. [dims |-> tens, base |-> low] \in {Int32, Bool} => tens = t.dims
  <2>1. [dims |-> tens, base |-> low] \in {Int32, Bool} => tens = <<>>
    BY DEF Int32, Bool, Scalar
  <2>2. tens = <<>> => DOMAIN t.dims = {}
    BY DEF tens
  <2>3. DOMAIN t.dims = {} => t.dims = <<>>
    BY <1>1, SeqElements
  <2> QED
    BY <2>1, <2>2, <2>3
<1>12. [dims |-> t.dims, base |-> low] = [dims |-> tens, base |-> low] <=> t.dims = tens
  OBVIOUS
<1> QED
  BY <1>3, <1>4, <1>5, <1>8, <1>9, <1>10, <1>11, <1>12

-----------------------------------------------------------------------------
(* The statements that compile. *)
LEMMA PrototypesOfArrays ==
  ASSUME NEW t \in AnyType, t.dims # <<>>
  PROVE  Prototype(t) # Scalar("ptr")
<1> DEFINE tens == [k \in DOMAIN t.dims |-> 10]
<1>1. [t EXCEPT !.dims = tens] = [dims |-> tens, base |-> t.base] /\ t.dims \in Seq(Nat)
  BY DEF AnyType
<1>2. Prototype(t) = Lowered([t EXCEPT !.dims = tens])
  BY DEF Prototype
<1>3. Prototype(t).dims = tens
  <2>1. Prototype(t) = Lowered([dims |-> tens, base |-> t.base])
    BY <1>1, <1>2
  <2> HIDE DEF tens
  <2>2. Lowered([dims |-> tens, base |-> t.base]) = [dims |-> tens, base |-> LowBase(t.base)]
    BY LoweredRecord
  <2> QED
    BY <2>1, <2>2
<1>4. tens # <<>>
  <2>1. tens = <<>> => DOMAIN t.dims = {}
    OBVIOUS
  <2>2. DOMAIN t.dims = {} => t.dims = <<>>
    BY <1>1, SeqElements
  <2> QED
    BY <2>1, <2>2
<1> QED
  BY <1>3, <1>4 DEF Scalar

LEMMA SupportedByKind ==
  ASSUME Tree, NEW i \in Nodes, Supported(i)
  PROVE  LET c == nodes[i].children IN
         /\ nodes[i].kind \in LeafKinds \cup ArithmeticKinds \cup {"minus", "access", "array"}
         /\ nodes[i].kind \in ArithmeticKinds => IntegerOperand(c[1]) /\ IntegerOperand(c[2])
         /\ nodes[i].kind = "minus" => IntegerOperand(c[1]) /\ ~ IsLocal(c[1])
         /\ nodes[i].kind = "access" =>
              /\ i = Root /\ use.kind = "print"
              /\ IsLocal(c[1]) /\ IntegerOperand(c[2]) /\ ~ Uninitialised(nodes[c[2]])
         /\ nodes[i].kind = "id" => Holds(nodes[i]) /\ Meaning[i].base \notin {"Slice", "Pointer"}
         /\ nodes[i].kind = "array" => use.kind \in {"let", "print"}
<1> DEFINE kind == nodes[i].kind
           c == nodes[i].children
<1>1. kind \in LeafKinds \cup BranchKinds
  BY Operands DEF Kinds
<1>2. kind \in ArithmeticKinds => IntegerOperand(c[1]) /\ IntegerOperand(c[2])
  BY DEF Supported, LeafKinds, ArithmeticKinds
<1>3. kind = "minus" => IntegerOperand(c[1]) /\ ~ IsLocal(c[1])
  BY DEF Supported, LeafKinds, ArithmeticKinds
<1>4. kind = "access" =>
        /\ i = Root /\ use.kind = "print"
        /\ IsLocal(c[1]) /\ IntegerOperand(c[2]) /\ ~ Uninitialised(nodes[c[2]])
  BY DEF Supported, LeafKinds, ArithmeticKinds
<1>5. kind = "id" => Holds(nodes[i]) /\ Meaning[i].base \notin {"Slice", "Pointer"}
  BY DEF Supported, LeafKinds, ArithmeticKinds
<1>6. kind = "array" => use.kind \in {"let", "print"}
  BY DEF Supported, LeafKinds, ArithmeticKinds
<1>7. kind \notin {"not", "eq", "less", "logical", "call"}
  BY DEF Supported, LeafKinds, ArithmeticKinds
<1> QED
  BY <1>1, <1>2, <1>3, <1>4, <1>5, <1>6, <1>7 DEF BranchKinds

(* Nothing in them is a slice or a pointer. *)
LEMMA SupportedMeanings ==
  ASSUME Tree, AllSupported
  PROVE  \A i \in Nodes : Meaning[i].base \notin {"Slice", "Pointer"}
<1> DEFINE addresses == {"Slice", "Pointer"}
           bad == {i \in Nodes : Meaning[i].base \in addresses}
<1>1. ASSUME bad # {} PROVE FALSE
  <2>1. PICK i \in bad : \A k \in bad : i <= k
    <3>1. bad \in SUBSET Nat
      BY NodesCounted
    <3> HIDE DEF bad
    <3> QED
      BY <3>1, <1>1, Least
  <2> DEFINE c == nodes[i].children
             part == Clone(Meaning[c[1]])
  <2>2. i \in Nodes /\ Supported(i)
    BY DEF AllSupported
  <2>3. ASSUME 1 \in DOMAIN c
        PROVE  part \in AnyType /\ part.base \notin addresses
    <3>1. c[1] \in Nodes /\ c[1] < i /\ i \in Nat /\ c[1] \in Nat
      <4>1. c[1] \in Nodes /\ c[1] < i
        BY <2>2, <2>3, BelowNodes
      <4> HIDE DEF bad, c
      <4> QED
        BY <2>2, <4>1, NodesCounted
    <3>2. c[1] \notin bad
      BY <2>1, <3>1
    <3>3. Meaning[c[1]].base \notin addresses /\ Meaning[c[1]] \in AnyType
      BY <3>1, <3>2, MeaningByKind
    <3> QED
      BY <3>3, Clones
  <2>4. Wrong.base \notin addresses
    BY DEF Wrong, Scalar
  <2>5. Len(c) \in Nat /\ DOMAIN c = 1..Len(c)
    BY <2>2, Operands
  <2>6. CASE nodes[i].kind \in LeafKinds \ {"id"}
    <3>1. Meaning[i] = LiteralType(nodes[i].kind)
      BY <2>2, <2>6, MeaningByKind
    <3> QED
      BY <2>6, <3>1 DEF LiteralType, LeafKinds, Int32, Bool, Str, Scalar
  <2>7. CASE nodes[i].kind = "id"
    BY <2>2, <2>7, SupportedByKind
  <2>8. CASE nodes[i].kind \in ArithmeticKinds
    <3>1. 1 \in DOMAIN c /\ Meaning[i] \in {part, Wrong}
      BY <2>2, <2>5, <2>8, MeaningByKind, Operands
    <3> QED
      BY <2>3, <2>4, <3>1
  <2>9. CASE nodes[i].kind = "minus"
    <3>1. 1 \in DOMAIN c /\ Meaning[i] = part
      BY <2>2, <2>5, <2>9, MeaningByKind, Operands
    <3> QED
      BY <2>3, <3>1
  <2>10. CASE nodes[i].kind = "access"
    <3>1. /\ 1 \in DOMAIN c
          /\ \/ Meaning[i] = Wrong
             \/ part.dims # <<>> /\ Meaning[i] = Element(part)
      BY <2>2, <2>5, <2>10, MeaningByKind, Operands
    <3>2. part.dims # <<>> => Element(part).base = part.base
      BY <2>3, <3>1, Elements
    <3> QED
      BY <2>3, <2>4, <3>1, <3>2
  <2>11. CASE nodes[i].kind = "array"
    <3>1. \/ Meaning[i] = Wrong
          \/ c # <<>> /\ Meaning[i] = ArrayOf(Len(c), part)
      BY <2>2, <2>11, MeaningByKind
    <3>2. c # <<>> => 1 \in DOMAIN c
      BY <2>2, <2>5, Operands, SeqElements
    <3>3. c # <<>> => ArrayOf(Len(c), part).base = part.base
      BY <2>3, <2>5, <3>2, Arrays
    <3> QED
      BY <2>3, <2>4, <3>1, <3>2, <3>3
  <2>12. nodes[i].kind \in LeafKinds \cup ArithmeticKinds \cup {"minus", "access", "array"}
    BY <2>2, SupportedByKind
  <2> QED
    BY <2>6, <2>7, <2>8, <2>9, <2>10, <2>11, <2>12
<1> QED
  BY <1>1

-----------------------------------------------------------------------------
(* The generator in the middle of a visit. *)
LEMMA TypesGenerated ==
  ASSUME Known, Settled, pass = "generate", NEW i \in Nodes
  PROVE  /\ types[i] # NoType =>
              /\ i \in CheckedNodes /\ IsChecked(use.kind) /\ types[i] \in Types
              /\ types[i] \in AnyType
              /\ HasDirty(types[i]) \/ types[i] = Clone(Meaning[i])
         /\ i \in CheckedNodes /\ types[i] = NoType => LeftUntyped(i)
         /\ i \in CheckedNodes /\ AllSupported =>
              types[i] # NoType /\ ~ HasDirty(types[i])
<1>1. ASSUME types[i] # NoType
      PROVE  i \in CheckedNodes /\ IsChecked(use.kind) /\ types[i] \in Types /\ types[i] \in AnyType
  <2>1. i \in CheckedNodes
    BY <1>1 DEF Settled
  <2>2. types[i] \in Types
    BY <1>1 DEF Known, Filled
  <2> QED
    BY <2>1, <2>2, TypeSets DEF CheckedNodes
<1>2. i \in CheckedNodes => TypedAs(i, types[i])
  BY DEF Settled
<1>3. Meaning[i] \in AnyType /\ Meaning[i] \in Written \cup {Wrong}
  BY MeaningByKind DEF Known
<1>4. Clone(Meaning[i]) # NoType /\ ~ HasDirty(Clone(Meaning[i])) /\ ~ HasDirty(NoType)
  <2>1. Meaning[i] # NoType /\ ~ HasDirty(Meaning[i]) /\ ~ HasDirty(NoType)
    BY <1>3, TypeSets
  <2> QED
    BY <2>1, <1>3, Clones
<1>5. types[i] # NoType /\ i \in CheckedNodes => HasDirty(types[i]) \/ types[i] = Clone(Meaning[i])
  BY <1>2 DEF TypedAs
<1>6. i \in CheckedNodes /\ types[i] = NoType => LeftUntyped(i)
  BY <1>2, <1>4 DEF TypedAs
<1>7. ASSUME i \in CheckedNodes, AllSupported
      PROVE  types[i] # NoType /\ ~ HasDirty(types[i])
  <2>1. ~ LeftUntyped(i)
    <3>1. Supported(i)
      BY <1>7 DEF AllSupported
    <3> QED
      BY <3>1, SupportedByKind DEF Known, LeftUntyped, LeafKinds, ArithmeticKinds
  <2>2. ASSUME NEW j \in CheckedUnder[i], CallsVariable(j) PROVE FALSE
    <3>1. j \in Nodes
      BY CheckedUnderNodes DEF Known
    <3>2. Supported(j) /\ nodes[j].kind = "call"
      BY <1>7, <2>2, <3>1 DEF AllSupported, CallsVariable
    <3> QED
      BY <3>1, <3>2, SupportedByKind DEF Known, LeafKinds, ArithmeticKinds
  <2> QED
    BY <1>2, <1>4, <1>7, <2>1, <2>2 DEF TypedAs
<1> QED
  BY <1>1, <1>5, <1>6, <1>7

LEMMA OrderingUntyped ==
  ASSUME Known, NEW i \in Nodes, nodes[i].kind = "less"
  PROVE  UntypedNode /\ ~ AllSupported
<1>1. UntypedNode
  BY DEF UntypedNode, LeftUntyped
<1>2. Supported(i) => FALSE
  BY SupportedByKind DEF Known, LeafKinds, ArithmeticKinds
<1> QED
  BY <1>1, <1>2 DEF AllSupported

LEMMA GeneratorHere ==
  ASSUME Known, Generating, Running("generate"), calls # <<>>
  PROVE  /\ pass = "generate" /\ outcome = "running"
         /\ Top.node \in Nodes /\ Node = nodes[Top.node]
         /\ Visits = GeneratorVisits(nodes[Top.node])
         /\ Top.done \in Nat /\ Len(Visits) \in Nat /\ Top.done <= Len(Visits)
         /\ DOMAIN Visits = 1..Len(Visits)
         /\ \A m \in 1..Top.done : Visits[m] \in Nodes /\ Present(Visits[m])
         /\ \A i \in Nodes : values[i] = NoValue \/ Made(i, values[i])
         /\ AllSupported /\ IsChecked(use.kind) =>
              CheckedUnder[Top.node] \in SUBSET CheckedNodes
<1>1. /\ Top.node \in Nodes /\ Node = nodes[Top.node] /\ Visits = VisitsOf(Top.node)
      /\ Top.done \in Nat /\ Len(Visits) \in Nat /\ Top.done <= Len(Visits)
      /\ Len(calls) \in DOMAIN calls /\ Top = calls[Len(calls)]
  BY TopOfCalls DEF Known
<1>2. Visits = GeneratorVisits(nodes[Top.node]) /\ pass = "generate" /\ outcome = "running"
  BY <1>1 DEF Running, VisitsOf
<1>3. DOMAIN Visits = 1..Len(Visits) /\ \A m \in 1..Len(Visits) : Visits[m] \in Nodes
  BY <1>1, VisitsOfNode DEF Known
<1>4. /\ \A m \in 1..Top.done : Present(GeneratorVisits(nodes[Top.node])[m])
      /\ AllSupported /\ IsChecked(use.kind) => CheckedUnder[Top.node] \in SUBSET CheckedNodes
      /\ \A i \in Nodes : values[i] = NoValue \/ Made(i, values[i])
  BY <1>1, <1>2 DEF Generating
<1>5. \A m \in 1..Top.done : m \in 1..Len(Visits)
  BY <1>1
<1> QED
  BY <1>1, <1>2, <1>3, <1>4, <1>5

LEMMA GeneratedOperand ==
  ASSUME Known, Generating, Running("generate"), calls # <<>>,
         NEW k \in DOMAIN Node.children, NEW m \in 1..Top.done, Visits[m] = Child(k)
  PROVE  /\ Child(k) = nodes[Top.node].children[k] /\ Child(k) \in Nodes
         /\ ValueOfChild(k) = values[Child(k)] /\ TypeOfChild(k) = types[Child(k)]
         /\ Under[Child(k)] \in SUBSET Under[Top.node]
         /\ Null(k) => UntypedNode /\ ~ AllSupported
         /\ ~ Null(k) => Made(Child(k), ValueOfChild(k))
<1>1. /\ Top.node \in Nodes /\ Node = nodes[Top.node]
      /\ Visits[m] \in Nodes /\ Present(Visits[m])
      /\ \A i \in Nodes : values[i] = NoValue \/ Made(i, values[i])
  BY GeneratorHere
<1>2. /\ Child(k) = nodes[Top.node].children[k] /\ Child(k) \in Nodes
      /\ ValueOfChild(k) = values[Child(k)] /\ TypeOfChild(k) = types[Child(k)]
  BY <1>1 DEF Child, ValueOfChild, TypeOfChild
<1>3. Under[Child(k)] \in SUBSET Under[Top.node]
  BY <1>1, <1>2, BelowNodes DEF Known
<1>4. Null(k) => nodes[Child(k)].kind = "less"
  BY <1>1, <1>2 DEF Null, Present
<1>5. Null(k) => UntypedNode /\ ~ AllSupported
  BY <1>2, <1>4, OrderingUntyped
<1>6. ~ Null(k) => Made(Child(k), ValueOfChild(k))
  BY <1>1, <1>2 DEF Null
<1> QED
  BY <1>2, <1>3, <1>5, <1>6

(* A call whose arguments are names has no visits but theirs under it. *)
LEMMA UnderFits ==
  ASSUME Known, pass = "generate", calls # <<>>, Fits(Root), Node.kind # "id"
  PROVE  Top.node = Root
<1> DEFINE n == Len(calls)
           visits(k) == GeneratorVisits(nodes[calls[k].node])
<1>1. /\ n \in Nat /\ n >= 1 /\ DOMAIN calls = 1..n
      /\ Top = calls[n] /\ Node = nodes[Top.node]
      /\ \A k \in DOMAIN calls : calls[k].node \in Nodes /\ calls[k].done \in Nat
  BY TopOfCalls DEF Known
<1>2. /\ \A k \in DOMAIN calls :
           calls[k].node = IF k = 1 THEN Root ELSE VisitsOf(calls[k - 1].node)[calls[k - 1].done + 1]
      /\ \A k \in DOMAIN calls : k < n => calls[k].done < Len(VisitsOf(calls[k].node))
  BY DEF Known, Nested
<1>3. \A k \in DOMAIN calls : VisitsOf(calls[k].node) = visits(k)
  BY DEF VisitsOf
<1>4. 1 \in DOMAIN calls /\ calls[1].node = Root
  <2>1. 1 \in DOMAIN calls
    BY <1>1
  <2> HIDE DEF n, visits
  <2> QED
    BY <1>2, <2>1
<1>5. SUFFICES ASSUME n # 1 PROVE FALSE
  BY <1>1, <1>4
<1>6. 1 \in DOMAIN calls /\ 2 \in DOMAIN calls /\ 1 < n
  BY <1>1, <1>5
<1>7. Root \in Nodes /\ nodes[Root].kind = "call"
  BY <1>1, <1>4, <1>6 DEF Fits
<1>8. nodes[calls[2].node].kind = "id"
  <2> DEFINE args == Tail(nodes[Root].children)
             m == calls[1].done + 1
  <2>1. visits(1) = args
    BY <1>4, <1>7, VisitsByKind DEF Known
  <2>2. calls[2].node = args[m] /\ calls[1].done \in Nat /\ calls[1].done < Len(args)
    <3>1. calls[2].node = VisitsOf(calls[1].node)[m]
      <4>1. 2 - 1 = 1 /\ 2 # 1
        OBVIOUS
      <4> HIDE DEF n, visits
      <4> QED
        BY <1>2, <1>6, <4>1
    <3>2. VisitsOf(calls[1].node) = args
      BY <1>3, <1>6, <2>1
    <3> HIDE DEF args, visits
    <3> QED
      BY <1>1, <1>2, <1>6, <3>1, <3>2
  <2>3. VisitsOf(Root) = args /\ DOMAIN args = 1..Len(args) /\ Len(args) \in Nat
    <3>1. VisitsOf(Root) = args
      BY <1>3, <1>4, <1>6, <2>1
    <3> QED
      BY <1>7, <3>1, VisitsOfNode DEF Known
  <2>4. m \in DOMAIN args
    <3> HIDE DEF args
    <3> QED
      BY <2>2, <2>3
  <2>5. Holds(nodes[args[m]])
    BY <2>4 DEF Fits
  <2> QED
    BY <2>2, <2>5 DEF Holds
<1>9. n # 2
  BY <1>1, <1>8
<1>10. 2 < n
  BY <1>1, <1>5, <1>9
<1>11. visits(2) = <<>>
  BY <1>1, <1>6, <1>8, VisitsByKind DEF Known, LeafKinds
<1>12. calls[2].done < 0 /\ calls[2].done \in Nat
  <2>1. calls[2].done < Len(VisitsOf(calls[2].node)) /\ VisitsOf(calls[2].node) = <<>>
    BY <1>2, <1>3, <1>6, <1>10, <1>11
  <2>2. Len(<<>>) = 0
    OBVIOUS
  <2> QED
    BY <1>1, <1>6, <2>1, <2>2
<1> QED
  BY <1>12

-----------------------------------------------------------------------------
(* What each visit returns, and what it stops for. *)
LEMMA Forms ==
  /\ \A type : /\ Value(type).form = "value" /\ Value(type).type = type
               /\ Alloca(type).form = "alloca" /\ Alloca(type).type = type
               /\ Malloced(type).form = "heap" /\ Malloced(type).type = type
               /\ ElementPtr(type).form = "gep" /\ ElementPtr(type).type = type
  /\ NoValue.form = "null" /\ NoValue.type = NoType
BY DEF Value, Alloca, Malloced, ElementPtr, NoValue

LEMMA MadeValue ==
  ASSUME NEW i \in Nodes, NEW type, nodes[i].kind \notin {"id", "access"},
         \/ Meaning[i] = Wrong
         \/ \E j \in Under[i] : nodes[j].kind = "less"
         \/ Lowered(type) =
              IF nodes[i].kind = "call" THEN Prototype(Meaning[i]) ELSE Lowered(Meaning[i]),
         AllSupported /\ IntegerOperand(i) => type = Int32,
         Fits(i) => Passable(i)
  PROVE  Judges(i, Value(type))
<1>1. ~ IsLocal(i) /\ ~ OnHeap(i)
  BY DEF OnHeap, IsLocal, Holds
<1>2. Value(type).form = "value" /\ Value(type).type = type /\ Value(type) # NoValue
  BY Forms
<1> QED
  BY <1>1, <1>2 DEF Judges, Made

LEMMA Makes ==
  ASSUME Running("generate"), calls # <<>>, NEW value, Judges(Top.node, value), Evaluated(value)
  PROVE  MakesValue
BY DEF MakesValue

LEMMA StopsSupported ==
  ASSUME outcome = "running", pass # "parse", NEW how \in {"threw", "undefined", "malformed"},
         Ends(how),
         pass = "generate" => ~ AllSupported,
         how = "malformed" => (Fits(Root) => ~ Passable(Root)),
         how = "undefined" => UntypedNode
  PROVE  StopsDuly
BY DEF StopsDuly, StopsFor

LEMMA MakesLiteral ==
  ASSUME Inv, GenerateLiteral
  PROVE  MakesValue
<1>1. /\ Running("generate") /\ calls # <<>> /\ Node.kind \in LeafKinds \ {"id"}
      /\ Evaluated(Value(LiteralType(Node.kind)))
  BY DEF GenerateLiteral, Ready, Finishes, Visited
<1>2. Top.node \in Nodes /\ Node = nodes[Top.node]
  BY <1>1, GeneratorHere DEF Inv
<1>3. Meaning[Top.node] = LiteralType(Node.kind)
  BY <1>1, <1>2, MeaningByKind DEF Inv, Known
<1>4. nodes[Top.node].kind \notin {"id", "access", "call"} /\ nodes[Top.node].kind \in LeafKinds
  BY <1>1, <1>2 DEF LeafKinds
<1>5. IntegerOperand(Top.node) => LiteralType(Node.kind) = Int32
  BY <1>2, <1>4 DEF IntegerOperand, Holds, LeafKinds, ArithmeticKinds, LiteralType
<1>6. ~ Fits(Top.node)
  BY <1>4 DEF Fits
<1>7. Judges(Top.node, Value(LiteralType(Node.kind)))
  BY <1>2, <1>3, <1>4, <1>5, <1>6, MadeValue
<1> QED
  BY <1>1, <1>7, Makes

LEMMA MakesId ==
  ASSUME Inv, GenerateId
  PROVE  MakesValue \/ StopsDuly
<1> DEFINE i == Top.node
           x == Variables[Node.name]
           value == IF x.place = "local" THEN LocalAddress(x.type) ELSE Value(x.type)
<1>1. /\ Running("generate") /\ calls # <<>> /\ Node.kind = "id"
      /\ IF Node.name \in DOMAIN Variables THEN Evaluated(value) ELSE Ends("threw")
  BY DEF GenerateId, Ready, Finishes, Visited
<1>2. i \in Nodes /\ Node = nodes[i] /\ pass = "generate" /\ outcome = "running"
  BY <1>1, GeneratorHere DEF Inv
<1>3. CASE Node.name \in DOMAIN Variables
  <2>1. Meaning[i] = x.type
    BY <1>1, <1>2, <1>3, MeaningByKind DEF Inv, Known
  <2>2. x.place \in {"local", "global"}
    BY <1>3, EntriesAssumption DEF VariableEntries
  <2>3. /\ value.type = x.type /\ value.form \in {"value", "alloca", "heap"}
        /\ value.form = "alloca" <=> x.place = "local" /\ ~ IsLarge(x.type)
        /\ value.form = "heap" <=> x.place = "local" /\ IsLarge(x.type)
    BY <2>2, Forms DEF LocalAddress
  <2>4. /\ Holds(nodes[i])
        /\ IsLocal(i) <=> x.place = "local"
        /\ OnHeap(i) <=> x.place = "local" /\ IsLarge(x.type)
    BY <1>1, <1>2, <1>3 DEF OnHeap, IsLocal, Holds
  <2>5. IntegerOperand(i) => x.type = Int32
    BY <1>1, <1>2 DEF IntegerOperand, ArithmeticKinds
  <2>6. ~ Fits(i)
    BY <1>1, <1>2 DEF Fits
  <2>7. value # NoValue
    BY <2>3, Forms
  <2> HIDE DEF value, x, i
  <2>8. Judges(i, value)
    BY <1>1, <1>2, <2>1, <2>3, <2>4, <2>5, <2>6, <2>7 DEF Judges, Made
  <2> QED
    BY <1>1, <1>3, <2>8, Makes DEF i
<1>4. CASE Node.name \notin DOMAIN Variables
  <2>1. ~ Supported(i)
    BY <1>1, <1>2, <1>4, SupportedByKind DEF Inv, Known, Holds
  <2>2. ~ AllSupported
    BY <1>2, <2>1 DEF AllSupported
  <2> QED
    BY <1>1, <1>2, <1>4, <2>2, StopsSupported
<1> QED
  BY <1>3, <1>4

LEMMA MakesLess ==
  ASSUME Inv, GenerateLess
  PROVE  MakesValue
<1>1. Running("generate") /\ calls # <<>> /\ Node.kind = "less" /\ Evaluated(lastValue)
  BY DEF GenerateLess, Ready, Finishes, Visited
<1>2. Top.node \in Nodes /\ nodes[Top.node].kind = "less"
  BY <1>1, GeneratorHere DEF Inv
<1>3. Top.node \in Under[Top.node]
  BY <1>2, BelowNodes DEF Inv, Known
<1>4. ~ IntegerOperand(Top.node) /\ ~ Fits(Top.node)
  BY <1>2 DEF IntegerOperand, Fits, Holds, ArithmeticKinds
<1>5. Judges(Top.node, lastValue)
  BY <1>2, <1>3, <1>4 DEF Judges, Made
<1> QED
  BY <1>1, <1>5, Makes

(* An operand LLVM takes for an integer. *)
LEMMA Loads ==
  ASSUME NEW value, value.form \in {"value", "alloca", "heap", "gep"}
  PROVE  /\ value.form \in {"value", "alloca"} => IRType(LoadAlloca(value)) = Lowered(value.type)
         /\ value.form \in {"heap", "gep"} => IRType(LoadAlloca(value)) = Scalar("ptr")
         /\ value.form = "value" => IRType(value) = Lowered(value.type)
         /\ value.form \in {"alloca", "heap", "gep"} => IRType(value) = Scalar("ptr")
BY Forms DEF LoadAlloca, IRType

LEMMA Integrals ==
  /\ IsIntegral(Int32) /\ IsIntegral(Bool) /\ ~ IsIntegral(Scalar("ptr"))
  /\ Lowered(Int32) = Int32 /\ Lowered(Bool) = Bool
  /\ \A irType : IsIntegral(irType) => Lowered(irType) = irType /\ irType \in {Int32, Bool}
<1>1. Lowered(Int32) = Int32 /\ Lowered(Bool) = Bool
  BY LoweredRecord DEF Int32, Bool, Scalar, LowBase
<1>2. ~ IsIntegral(Scalar("ptr"))
  BY DEF IsIntegral, Int32, Bool, Scalar
<1> QED
  BY <1>1, <1>2 DEF IsIntegral

LEMMA IntegralOperand ==
  ASSUME Known, NEW i \in Nodes, NEW value, Made(i, value),
         NEW loaded \in {value, LoadAlloca(value)}, IsIntegral(IRType(loaded))
  PROVE  \/ Meaning[i] = Wrong
         \/ \E j \in Under[i] : nodes[j].kind = "less"
         \/ IRType(loaded) = Lowered(Clone(Meaning[i]))
<1>1. CASE nodes[i].kind = "less"
  BY <1>1, BelowNodes DEF Known
<1>2. CASE nodes[i].kind # "less"
  <2>1. value.form \in {"value", "alloca", "heap", "gep"}
    BY <1>2 DEF Made
  <2>2. IRType(loaded) = Lowered(value.type)
    BY <2>1, Loads, Integrals
  <2>3. Meaning[i] \in AnyType
    BY MeaningByKind DEF Known
  <2>4. SUFFICES ASSUME Meaning[i] # Wrong, ~ \E j \in Under[i] : nodes[j].kind = "less"
                 PROVE  IRType(loaded) = Lowered(Clone(Meaning[i]))
    OBVIOUS
  <2>5. IRType(loaded) \in {Prototype(Meaning[i]), Lowered(Meaning[i])}
    BY <2>2, <2>4 DEF Made
  <2>6. IRType(loaded) \in {Int32, Bool}
    BY Integrals
  <2> QED
    BY <2>3, <2>5, <2>6, LoweredTypes
<1> QED
  BY <1>1, <1>2

LEMMA IntegerLoaded ==
  ASSUME AllSupported, NEW i \in Nodes, IntegerOperand(i), NEW value, Made(i, value)
  PROVE  /\ IRType(LoadAlloca(value)) = Int32
         /\ ~ IsLocal(i) => IRType(value) = Int32
<1>1. nodes[i].kind \notin {"less", "access"}
  BY DEF IntegerOperand, Holds, ArithmeticKinds
<1>2. ~ OnHeap(i)
  <2>1. Holds(nodes[i]) => Variables[nodes[i].name].type = Int32
    BY DEF IntegerOperand, Holds, ArithmeticKinds
  <2>2. ~ IsLarge(Int32)
    BY DEF IsLarge, Int32, Scalar
  <2> QED
    BY <2>1, <2>2 DEF OnHeap, IsLocal
<1>3. value.form \in {"value", "alloca"} /\ value.type = Int32 /\ (value.form = "alloca" => IsLocal(i))
  BY <1>1, <1>2 DEF Made
<1> QED
  BY <1>3, Loads, Integrals

(* Arithmetic, comparisons and negations. *)
LEMMA GeneratedOperands ==
  ASSUME Known, Generating, Finishes("generate", ArithmeticKinds \cup {"eq", "minus", "not"})
  PROVE  /\ Running("generate") /\ calls # <<>> /\ Top.node \in Nodes /\ Node = nodes[Top.node]
         /\ Node.kind \in ArithmeticKinds \cup {"eq", "minus", "not"}
         /\ \A k \in {1} \cup (IF Node.kind \in {"minus", "not"} THEN {} ELSE {2}) :
              /\ k \in DOMAIN Node.children /\ k \in 1..Top.done /\ Visits[k] = Child(k)
<1>1. /\ Running("generate") /\ calls # <<>> /\ Top.done = Len(Visits)
      /\ Node.kind \in ArithmeticKinds \cup {"eq", "minus", "not"}
  BY DEF Finishes, Visited
<1>2. /\ Top.node \in Nodes /\ Node = nodes[Top.node] /\ Visits = GeneratorVisits(nodes[Top.node])
  BY <1>1, GeneratorHere
<1>3. Visits = Node.children
  BY <1>1, <1>2, VisitsByKind DEF Known
<1>4. /\ DOMAIN Node.children = 1..Len(Node.children)
      /\ Node.kind \in {"minus", "not"} => Len(Node.children) = 1
      /\ Node.kind \notin {"minus", "not"} => Len(Node.children) = 2
  BY <1>1, <1>2, Operands DEF Known
<1>5. \A k \in {1, 2} : k \in 1..Top.done <=> k \in DOMAIN Node.children
  BY <1>1, <1>3, <1>4
<1>6. \A k \in {1, 2} : Visits[k] = Child(k)
  BY <1>3 DEF Child
<1>7. /\ 1 \in DOMAIN Node.children
      /\ Node.kind \notin {"minus", "not"} => 2 \in DOMAIN Node.children
  <2>1. 1 \in 1..1 /\ {1, 2} \in SUBSET (1..2)
    OBVIOUS
  <2>2. CASE Node.kind \in {"minus", "not"}
    BY <1>4, <2>1, <2>2
  <2>3. CASE Node.kind \notin {"minus", "not"}
    BY <1>4, <2>1, <2>3
  <2> QED
    BY <2>2, <2>3
<1> QED
  BY <1>1, <1>2, <1>5, <1>6, <1>7

LEMMA NotInFits ==
  ASSUME Known, pass = "generate", calls # <<>>, Node = nodes[Top.node],
         Node.kind \notin {"id", "call"}
  PROVE  ~ Fits(Root) /\ ~ Fits(Top.node)
<1>1. Fits(Root) => Top.node = Root
  BY UnderFits
<1> QED
  BY <1>1 DEF Fits

LEMMA MakesArithmetic ==
  ASSUME Inv, GenerateArithmetic
  PROVE  MakesValue \/ StopsDuly
<1> DEFINE i == Top.node
           c == nodes[i].children
           left == LoadAlloca(ValueOfChild(1))
           right == LoadAlloca(ValueOfChild(2))
           fine == IRType(left) = IRType(right) /\ IsIntegral(IRType(left))
<1>1. /\ Finishes("generate", ArithmeticKinds)
      /\ Finishes("generate", ArithmeticKinds \cup {"eq", "minus", "not"})
      /\ IF Null(1) \/ Null(2) THEN Ends("undefined")
         ELSE IF fine THEN Evaluated(Value(IRType(left))) ELSE Ends("malformed")
  BY DEF GenerateArithmetic, Ready, GenerateOperands, Finishes
<1>2. /\ Running("generate") /\ calls # <<>> /\ i \in Nodes /\ Node = nodes[i]
      /\ Node.kind \in ArithmeticKinds /\ Node.kind \notin {"minus", "not", "id", "access", "call"}
      /\ pass = "generate" /\ outcome = "running"
  BY <1>1, GeneratedOperands DEF Inv, Finishes, ArithmeticKinds, Running
<1>3. /\ \A k \in {1, 2} : k \in DOMAIN Node.children /\ k \in 1..Top.done /\ Visits[k] = Child(k)
  BY <1>1, <1>2, GeneratedOperands DEF Inv
<1>4. ASSUME NEW k \in {1, 2}
      PROVE  /\ Child(k) = c[k] /\ c[k] \in Nodes /\ Under[c[k]] \in SUBSET Under[i]
             /\ Null(k) => UntypedNode /\ ~ AllSupported
             /\ ~ Null(k) => Made(c[k], ValueOfChild(k))
  BY <1>2, <1>3, GeneratedOperand DEF Inv
<1>5. AllSupported => IntegerOperand(c[1]) /\ IntegerOperand(c[2])
  BY <1>2, SupportedByKind DEF AllSupported, Inv, Known
<1>6. ~ Fits(Root) /\ ~ Fits(i)
  BY <1>2, NotInFits DEF Inv
<1>7. CASE Null(1) \/ Null(2)
  <2>1. Ends("undefined") /\ UntypedNode /\ ~ AllSupported
    BY <1>1, <1>4, <1>7
  <2> QED
    BY <1>2, <2>1, StopsSupported
<1>8. CASE ~ Null(1) /\ ~ Null(2) /\ fine
  <2>1. \/ Meaning[c[1]] = Wrong
        \/ \E j \in Under[c[1]] : nodes[j].kind = "less"
        \/ IRType(left) = Lowered(Clone(Meaning[c[1]]))
    BY <1>4, <1>8, IntegralOperand DEF Inv
  <2>2. Meaning[i] \in {Clone(Meaning[c[1]]), Wrong}
    BY <1>2, MeaningByKind DEF Inv, Known
  <2>3. Meaning[c[1]] = Wrong => Meaning[i] = Wrong
    BY <1>4, <2>2, MeaningByKind, Clones DEF Inv, Known
  <2>4. Lowered(IRType(left)) = IRType(left)
    BY <1>8, Integrals
  <2>5. \/ Meaning[i] = Wrong
        \/ \E j \in Under[i] : nodes[j].kind = "less"
        \/ Lowered(IRType(left)) = Lowered(Meaning[i])
    BY <1>4, <2>1, <2>2, <2>3, <2>4
  <2>6. AllSupported => IRType(left) = Int32
    BY <1>4, <1>5, <1>8, IntegerLoaded
  <2> HIDE DEF left, right, i
  <2>7. Judges(i, Value(IRType(left)))
    BY <1>2, <1>6, <2>5, <2>6, MadeValue
  <2>8. Evaluated(Value(IRType(left)))
    BY <1>1, <1>8
  <2> QED
    BY <1>2, <2>7, <2>8, Makes DEF i
<1>9. CASE ~ Null(1) /\ ~ Null(2) /\ ~ fine
  <2>1. AllSupported => IRType(left) = Int32 /\ IRType(right) = Int32
    BY <1>4, <1>5, <1>9, IntegerLoaded
  <2>2. Ends("malformed") /\ ~ AllSupported
    BY <1>1, <1>9, <2>1, Integrals
  <2> QED
    BY <1>2, <1>6, <2>2, StopsSupported
<1> QED
  BY <1>7, <1>8, <1>9

LEMMA MakesEq ==
  ASSUME Inv, GenerateEq
  PROVE  MakesValue \/ StopsDuly
<1> DEFINE i == Top.node
           left == IRType(ValueOfChild(1))
           right == IRType(ValueOfChild(2))
<1>1. /\ Finishes("generate", {"eq"})
      /\ Finishes("generate", ArithmeticKinds \cup {"eq", "minus", "not"})
      /\ IF Null(1) \/ Null(2) THEN Ends("undefined")
         ELSE IF left = right /\ Comparable(left) THEN Evaluated(Value(Bool))
         ELSE Ends("malformed")
  BY DEF GenerateEq, Ready, Finishes
<1>2. /\ Running("generate") /\ calls # <<>> /\ i \in Nodes /\ Node = nodes[i]
      /\ Node.kind = "eq" /\ pass = "generate" /\ outcome = "running"
  BY <1>1, GeneratedOperands DEF Inv, Finishes, Running
<1>3. \A k \in {1, 2} : k \in DOMAIN Node.children /\ k \in 1..Top.done /\ Visits[k] = Child(k)
  BY <1>1, <1>2, GeneratedOperands DEF Inv
<1>4. \A k \in {1, 2} : Null(k) => UntypedNode
  BY <1>2, <1>3, GeneratedOperand DEF Inv
<1>5. ~ Fits(Root) /\ ~ Fits(i)
  BY <1>2, NotInFits DEF Inv
<1>6. ~ AllSupported /\ ~ IntegerOperand(i)
  <2>1. ~ Supported(i)
    BY <1>2, SupportedByKind DEF Inv, Known, LeafKinds, ArithmeticKinds
  <2> QED
    BY <1>2, <2>1 DEF AllSupported, IntegerOperand, Holds, ArithmeticKinds
<1>7. Judges(i, Value(Bool))
  <2>1. Meaning[i] = Bool
    BY <1>2, MeaningByKind DEF Inv, Known
  <2> QED
    BY <1>2, <1>5, <1>6, <2>1, MadeValue
<1>8. CASE Evaluated(Value(Bool))
  BY <1>2, <1>7, <1>8, Makes
<1>9. CASE Ends("malformed")
  BY <1>2, <1>5, <1>6, <1>9, StopsSupported
<1>10. CASE Ends("undefined") /\ (Null(1) \/ Null(2))
  BY <1>2, <1>4, <1>6, <1>10, StopsSupported
<1> QED
  BY <1>1, <1>8, <1>9, <1>10

LEMMA MakesUnary ==
  ASSUME Inv, GenerateUnary
  PROVE  MakesValue \/ StopsDuly
<1> DEFINE i == Top.node
           c == nodes[i].children
           value == ValueOfChild(1)
<1>1. /\ Finishes("generate", {"minus", "not"})
      /\ Finishes("generate", ArithmeticKinds \cup {"eq", "minus", "not"})
      /\ IF Null(1) THEN Ends("undefined")
         ELSE IF IsIntegral(IRType(value)) THEN Evaluated(Value(IRType(value)))
         ELSE Ends("malformed")
  BY DEF GenerateUnary, Ready, Finishes
<1>2. /\ Running("generate") /\ calls # <<>> /\ i \in Nodes /\ Node = nodes[i]
      /\ Node.kind \in {"minus", "not"} /\ pass = "generate" /\ outcome = "running"
  BY <1>1, GeneratedOperands DEF Inv, Finishes, Running
<1>3. 1 \in DOMAIN Node.children /\ 1 \in 1..Top.done /\ Visits[1] = Child(1)
  BY <1>1, <1>2, GeneratedOperands DEF Inv
<1>4. /\ Child(1) = c[1] /\ c[1] \in Nodes /\ Under[c[1]] \in SUBSET Under[i]
      /\ Null(1) => UntypedNode /\ ~ AllSupported
      /\ ~ Null(1) => Made(c[1], value)
  BY <1>2, <1>3, GeneratedOperand DEF Inv
<1>5. AllSupported => IntegerOperand(c[1]) /\ ~ IsLocal(c[1])
  <2>1. AllSupported => Supported(i)
    BY <1>2 DEF AllSupported
  <2>2. Supported(i) => nodes[i].kind # "not"
    BY <1>2, SupportedByKind DEF Inv, Known, LeafKinds, ArithmeticKinds
  <2> QED
    BY <1>2, <2>1, <2>2, SupportedByKind DEF Inv, Known
<1>6. ~ Fits(Root) /\ ~ Fits(i)
  BY <1>2, NotInFits DEF Inv
<1>7. CASE Null(1)
  BY <1>1, <1>2, <1>4, <1>7, StopsSupported
<1>8. AllSupported /\ ~ Null(1) => IRType(value) = Int32
  BY <1>4, <1>5, IntegerLoaded
<1>9. CASE ~ Null(1) /\ IsIntegral(IRType(value))
  <2>1. \/ Meaning[c[1]] = Wrong
        \/ \E j \in Under[c[1]] : nodes[j].kind = "less"
        \/ IRType(value) = Lowered(Clone(Meaning[c[1]]))
    BY <1>4, <1>9, IntegralOperand DEF Inv
  <2>2. Meaning[i] = Clone(Meaning[c[1]])
    BY <1>2, MeaningByKind DEF Inv, Known
  <2>3. Meaning[c[1]] = Wrong => Meaning[i] = Wrong
    BY <1>4, <2>2, MeaningByKind, Clones DEF Inv, Known
  <2>4. Lowered(IRType(value)) = IRType(value)
    BY <1>9, Integrals
  <2> HIDE DEF value, i
  <2>5. Judges(i, Value(IRType(value)))
    BY <1>2, <1>4, <1>6, <1>8, <1>9, <2>1, <2>2, <2>3, <2>4, MadeValue
  <2> QED
    BY <1>1, <1>2, <1>9, <2>5, Makes DEF i
<1>10. CASE ~ Null(1) /\ ~ IsIntegral(IRType(value))
  BY <1>1, <1>2, <1>6, <1>8, <1>10, Integrals, StopsSupported
<1> QED
  BY <1>7, <1>9, <1>10

(* Calls. *)
Arguments == [k \in 1 .. Len(Node.children) - 1 |-> LoadAlloca(ValueOfChild(k + 1))]
Accepted(f) ==
  [k \in DOMAIN Arguments |-> IRType(Arguments[k])]
    = [k \in DOMAIN f.params |-> Prototype(f.params[k])]
Callee == Functions[nodes[Child(1)].name]

LEMMA CallHere ==
  ASSUME Inv, GenerateCall
  PROVE  /\ Running("generate") /\ calls # <<>> /\ Top.node \in Nodes /\ Node = nodes[Top.node]
         /\ Node.kind = "call" /\ pass = "generate" /\ outcome = "running"
         /\ Child(1) = nodes[Top.node].children[1] /\ Child(1) \in Nodes
         /\ nodes[Child(1)].kind = "id" /\ nodes[Child(1)].name \in DOMAIN Functions
         /\ DOMAIN Arguments = 1..(Len(Node.children) - 1)
         /\ LET args == Tail(nodes[Top.node].children) IN
            /\ DOMAIN args = DOMAIN Arguments
            /\ \A k \in DOMAIN Arguments :
                 /\ args[k] \in Nodes /\ Arguments[k] = LoadAlloca(values[args[k]])
                 /\ Arguments[k] = NoValue => UntypedNode
                 /\ Arguments[k] # NoValue => Made(args[k], values[args[k]])
<1> DEFINE c == nodes[Top.node].children
           args == Tail(c)
<1>1. /\ Running("generate") /\ calls # <<>> /\ Top.done = Len(Visits)
      /\ Node.kind = "call" /\ ~ RefusedEarly
  BY DEF GenerateCall, Ready, Finishes, Visited
<1>2. /\ Top.node \in Nodes /\ Node = nodes[Top.node] /\ Visits = GeneratorVisits(nodes[Top.node])
      /\ pass = "generate" /\ outcome = "running" /\ DOMAIN Visits = 1..Len(Visits)
  BY <1>1, GeneratorHere DEF Inv
<1>3. /\ Visits = args /\ Len(args) = Len(c) - 1
      /\ \A k \in 1..(Len(c) - 1) : args[k] = c[k + 1]
  BY <1>1, <1>2, VisitsByKind DEF Inv, Known
<1>4. Len(c) \in Nat /\ Len(c) >= 1 /\ DOMAIN c = 1..Len(c)
  BY <1>1, <1>2, Operands DEF Inv, Known
<1>5. DOMAIN args = 1..(Len(c) - 1) /\ DOMAIN Arguments = 1..(Len(c) - 1)
  BY <1>2, <1>3 DEF Arguments
<1>6. Child(1) = c[1] /\ c[1] \in Nodes
  <2>1. 1 \in DOMAIN c
    BY <1>4
  <2> QED
    BY <1>2, <2>1, BelowNodes DEF Inv, Known, Child
<1>7. nodes[Child(1)].kind = "id" /\ nodes[Child(1)].name \in DOMAIN Functions
  BY <1>1 DEF RefusedEarly, IsNamed
<1>8. ASSUME NEW k \in DOMAIN Arguments
      PROVE  /\ args[k] \in Nodes /\ Arguments[k] = LoadAlloca(values[args[k]])
             /\ Arguments[k] = NoValue => UntypedNode
             /\ Arguments[k] # NoValue => Made(args[k], values[args[k]])
  <2>1. k \in 1..(Len(c) - 1) /\ k + 1 \in DOMAIN Node.children /\ k \in 1..Top.done
    BY <1>1, <1>2, <1>3, <1>4, <1>5
  <2>2. Visits[k] = Child(k + 1) /\ Child(k + 1) = args[k]
    BY <1>2, <1>3, <2>1 DEF Child
  <2>3. /\ args[k] \in Nodes /\ ValueOfChild(k + 1) = values[args[k]]
        /\ Null(k + 1) => UntypedNode
        /\ ~ Null(k + 1) => Made(args[k], ValueOfChild(k + 1))
    BY <1>1, <2>1, <2>2, GeneratedOperand DEF Inv
  <2>4. Arguments[k] = LoadAlloca(ValueOfChild(k + 1))
    BY <1>2, <2>1 DEF Arguments
  <2>5. \A v : LoadAlloca(v) = NoValue <=> v = NoValue
    BY Forms DEF LoadAlloca
  <2> QED
    BY <2>3, <2>4, <2>5 DEF Null
<1> QED
  BY <1>1, <1>2, <1>5, <1>6, <1>7, <1>8

(* LLVM takes the arguments of a call by name if they have ten elements    *)
(* and are on the stack.                                                   *)
LEMMA CallFits ==
  ASSUME Inv, GenerateCall, Fits(Top.node), \A k \in DOMAIN Arguments : Arguments[k] # NoValue
  PROVE  Accepted(Callee) <=> Passable(Top.node)
<1> DEFINE i == Top.node
           args == Tail(nodes[i].children)
           P == Parameters(i)
<1>1. /\ DOMAIN args = DOMAIN Arguments
      /\ \A k \in DOMAIN Arguments :
           /\ args[k] \in Nodes /\ Arguments[k] = LoadAlloca(values[args[k]])
           /\ Made(args[k], values[args[k]])
      /\ Child(1) = nodes[i].children[1]
  BY CallHere
<1>2. /\ \A k \in DOMAIN args : Holds(nodes[args[k]]) /\ IsLocal(args[k])
      /\ [k \in DOMAIN args |-> Meaning[args[k]]] = P
  BY DEF Fits
<1>3. Callee.params = P
  BY <1>1 DEF Callee, Parameters
<1> HIDE DEF P, args, i
<1>4. DOMAIN P = DOMAIN Arguments /\ \A k \in DOMAIN Arguments : P[k] = Meaning[args[k]]
  BY <1>1, <1>2
<1>5. ASSUME NEW k \in DOMAIN Arguments
      PROVE  (IRType(Arguments[k]) = Prototype(P[k])) <=> (Sized(P[k]) /\ ~ OnHeap(args[k]))
  <2> DEFINE v == values[args[k]]
  <2>1. nodes[args[k]].kind = "id" /\ IsLocal(args[k])
    BY <1>1, <1>2 DEF Holds
  <2>2. /\ v.type = Meaning[args[k]]
        /\ v.form = IF OnHeap(args[k]) THEN "heap" ELSE "alloca"
    BY <1>1, <2>1 DEF Made
  <2>3. P[k] \in AnyType /\ P[k] = v.type
    BY <1>1, <1>4, <2>2, MeaningByKind DEF Inv, Known
  <2>4. CASE ~ OnHeap(args[k])
    <3>1. IRType(LoadAlloca(v)) = Lowered(v.type)
      BY <2>2, <2>4, Loads
    <3> QED
      BY <1>1, <2>3, <2>4, <3>1, LoweredTypes
  <2>5. CASE OnHeap(args[k])
    <3>1. IRType(LoadAlloca(v)) = Scalar("ptr")
      BY <2>2, <2>5, Loads
    <3>2. Meaning[args[k]].dims # <<>>
      <4>1. Meaning[args[k]] = Variables[nodes[args[k]].name].type
        BY <1>1, <1>2, <2>1, MeaningByKind DEF Inv, Known, Holds
      <4> QED
        BY <2>5, <4>1 DEF OnHeap, IsLarge
    <3>3. Prototype(P[k]) # Scalar("ptr")
      BY <1>4, <2>3, <3>2, PrototypesOfArrays
    <3> QED
      BY <1>1, <2>5, <3>1, <3>3
  <2> QED
    BY <2>4, <2>5
<1>6. Accepted(Callee) <=> \A k \in DOMAIN Arguments : IRType(Arguments[k]) = Prototype(P[k])
  BY <1>3, <1>4 DEF Accepted
<1>7. Passable(i) <=> \A k \in DOMAIN Arguments : Sized(P[k]) /\ ~ OnHeap(args[k])
  BY <1>4 DEF Passable, P, args
<1> QED
  BY <1>5, <1>6, <1>7 DEF i

LEMMA MakesCall ==
  ASSUME Inv, GenerateCall
  PROVE  MakesValue \/ StopsDuly
<1> DEFINE i == Top.node
           f == Callee
<1>1. /\ Running("generate") /\ calls # <<>> /\ i \in Nodes /\ Node = nodes[i]
      /\ Node.kind = "call" /\ pass = "generate" /\ outcome = "running"
      /\ Child(1) = nodes[i].children[1] /\ Child(1) \in Nodes
      /\ nodes[Child(1)].kind = "id" /\ nodes[Child(1)].name \in DOMAIN Functions
      /\ \A k \in DOMAIN Arguments : Arguments[k] = NoValue => UntypedNode
  BY CallHere
<1>2. IF \E k \in DOMAIN Arguments : Arguments[k] = NoValue THEN Ends("undefined")
      ELSE IF Accepted(f) THEN Evaluated(Value(Prototype(f.ret))) ELSE Ends("malformed")
  BY DEF GenerateCall, Arguments, Accepted, Callee
<1>3. ~ AllSupported /\ ~ IntegerOperand(i)
  <2>1. ~ Supported(i)
    BY <1>1, SupportedByKind DEF Inv, Known, LeafKinds, ArithmeticKinds
  <2> QED
    BY <1>1, <2>1 DEF AllSupported, IntegerOperand, Holds, ArithmeticKinds
<1>4. CASE \E k \in DOMAIN Arguments : Arguments[k] = NoValue
  BY <1>1, <1>2, <1>3, <1>4, StopsSupported
<1>5. CASE (\A k \in DOMAIN Arguments : Arguments[k] # NoValue) /\ Accepted(f)
  <2>1. Meaning[i] = Wrong \/ Lowered(Prototype(f.ret)) = Prototype(Meaning[i])
    <3>1. f.ret \in AnyType
      BY <1>1, EntriesAssumption, TypeSets DEF Callee, FunctionEntries
    <3>2. /\ Lowered(Prototype(f.ret)) = Prototype(f.ret)
          /\ Prototype(Clone(f.ret)) = Prototype(f.ret)
      BY <3>1, LoweredTypes
    <3>3. CASE Callable(nodes[Child(1)].name)
      <4>1. Meaning[Child(1)] = f.ret
        BY <1>1, <3>3, MeaningByKind DEF Inv, Known, Callable, Callee
      <4>2. Meaning[i] = Clone(Meaning[Child(1)])
        BY <1>1, <3>3, MeaningByKind DEF Inv, Known
      <4> QED
        BY <3>2, <4>1, <4>2
    <3>4. CASE ~ Callable(nodes[Child(1)].name)
      BY <1>1, <3>4, MeaningByKind DEF Inv, Known
    <3> QED
      BY <3>3, <3>4
  <2>2. Fits(i) => Passable(i)
    BY <1>5, CallFits
  <2>3. Judges(i, Value(Prototype(f.ret)))
    BY <1>1, <1>3, <2>1, <2>2, MadeValue
  <2> QED
    BY <1>1, <1>2, <1>5, <2>3, Makes
<1>6. CASE (\A k \in DOMAIN Arguments : Arguments[k] # NoValue) /\ ~ Accepted(f)
  <2>1. Fits(Root) => ~ Passable(Root)
    <3>1. Fits(Root) => i = Root
      BY <1>1, UnderFits DEF Inv
    <3>2. Fits(i) => ~ Passable(i)
      BY <1>6, CallFits
    <3> QED
      BY <3>1, <3>2
  <2> QED
    BY <1>1, <1>2, <1>3, <1>6, <2>1, StopsSupported
<1> QED
  BY <1>4, <1>5, <1>6

(* Subscripts. *)
LEMMA AccessHere ==
  ASSUME Inv, GenerateAccess
  PROVE  /\ Running("generate") /\ calls # <<>> /\ Top.node \in Nodes /\ Node = nodes[Top.node]
         /\ Node.kind = "access" /\ pass = "generate" /\ outcome = "running"
         /\ \A k \in {1, 2} :
              /\ k \in DOMAIN nodes[Top.node].children
              /\ Child(k) = nodes[Top.node].children[k] /\ Child(k) \in Nodes
              /\ TypeOfChild(k) = types[Child(k)]
              /\ Null(k) => UntypedNode /\ ~ AllSupported
              /\ ~ Null(k) => Made(Child(k), ValueOfChild(k))
<1>1. Running("generate") /\ calls # <<>> /\ Top.done = Len(Visits) /\ Node.kind = "access"
  BY DEF GenerateAccess, Ready, Finishes, Visited
<1>2. /\ Top.node \in Nodes /\ Node = nodes[Top.node] /\ Visits = GeneratorVisits(nodes[Top.node])
      /\ pass = "generate" /\ outcome = "running"
  BY <1>1, GeneratorHere DEF Inv
<1>3. Visits = Node.children
  BY <1>1, <1>2, VisitsByKind DEF Inv, Known
<1>4. DOMAIN Node.children = 1..2 /\ Top.done = 2
  BY <1>1, <1>2, <1>3, Operands DEF Inv, Known
<1>5. \A k \in {1, 2} : k \in DOMAIN Node.children /\ k \in 1..Top.done /\ Visits[k] = Child(k)
  BY <1>3, <1>4 DEF Child
<1> QED
  BY <1>1, <1>2, <1>5, GeneratedOperand DEF Inv

LEMMA MakesAccess ==
  ASSUME Inv, GenerateAccess
  PROVE  MakesValue \/ StopsDuly
<1> DEFINE i == Top.node
           c == nodes[i].children
           type == types[c[1]]
           array == ValueOfChild(1)
           index == LoadAlloca(ValueOfChild(2))
           fine == IRType(array) = Scalar("ptr") /\ IsIntegral(IRType(index))
           value == ElementPtr(Element(type))
<1>1. /\ Running("generate") /\ calls # <<>> /\ i \in Nodes /\ Node = nodes[i]
      /\ nodes[i].kind = "access" /\ pass = "generate" /\ outcome = "running"
      /\ c[1] \in Nodes /\ c[2] \in Nodes /\ 1 \in DOMAIN c /\ 2 \in DOMAIN c
      /\ TypeOfChild(1) = type
      /\ Null(1) \/ Null(2) => UntypedNode /\ ~ AllSupported
      /\ ~ Null(1) => Made(c[1], array)
      /\ ~ Null(2) => Made(c[2], ValueOfChild(2))
  BY AccessHere
<1>2. IF type = NoType \/ Null(1) \/ Null(2) THEN Ends("undefined")
      ELSE IF HasDirty(type) THEN Ends("threw")
      ELSE IF fine THEN Evaluated(value) ELSE Ends("malformed")
  BY <1>1 DEF GenerateAccess
<1>3. ~ Fits(Root) /\ ~ Fits(i)
  BY <1>1, NotInFits DEF Inv
<1>4. ASSUME AllSupported
      PROVE  /\ c[1] \in CheckedNodes /\ IsLocal(c[1]) /\ IntegerOperand(c[2])
             /\ type # NoType /\ ~ HasDirty(type)
  <2>1. /\ i = Root /\ use.kind = "print"
        /\ IsLocal(c[1]) /\ IntegerOperand(c[2])
    BY <1>1, <1>4, SupportedByKind DEF AllSupported, Inv, Known
  <2>2. CheckerVisits(nodes[i]) = <<c[2], c[1]>>
    BY <1>1, VisitsByKind DEF Inv, Known
  <2>3. CheckedUnder[c[1]] \in SUBSET CheckedUnder[i] /\ c[1] \in CheckedUnder[c[1]]
    <3>1. 2 \in DOMAIN CheckerVisits(nodes[i]) /\ CheckerVisits(nodes[i])[2] = c[1]
      BY <2>2
    <3> QED
      BY <1>1, <3>1, BelowNodes DEF Inv, Known
  <2>4. c[1] \in CheckedNodes
    BY <2>1, <2>3 DEF CheckedNodes, IsChecked
  <2> QED
    BY <1>1, <1>4, <2>1, <2>4, TypesGenerated DEF Inv
<1>5. CASE type = NoType \/ Null(1) \/ Null(2)
  <2>1. UntypedNode
    <3>1. CASE type = NoType /\ c[1] \in CheckedNodes
      BY <1>1, <3>1, TypesGenerated DEF Inv, UntypedNode
    <3>2. CASE c[1] \notin CheckedNodes
      BY <1>1, <3>2 DEF UntypedNode
    <3> QED
      BY <1>1, <1>5, <3>1, <3>2
  <2> QED
    BY <1>1, <1>2, <1>4, <1>5, <2>1, StopsSupported
<1>6. CASE ~ Null(1) /\ ~ Null(2) /\ type # NoType /\ HasDirty(type)
  BY <1>1, <1>2, <1>4, <1>6, StopsSupported
<1>7. CASE ~ Null(1) /\ ~ Null(2) /\ type # NoType /\ ~ HasDirty(type) /\ fine
  <2>1. IsChecked(use.kind) /\ type = Clone(Meaning[c[1]])
    BY <1>1, <1>7, TypesGenerated DEF Inv
  <2>2. Meaning[i] \in {Wrong, Element(type)}
    BY <1>1, <2>1, MeaningByKind DEF Inv, Known
  <2>3. value.form = "gep" /\ value.type = Element(type) /\ value # NoValue
    BY Forms
  <2>4. ~ IsLocal(i) /\ ~ OnHeap(i) /\ ~ IntegerOperand(i)
    BY <1>1 DEF OnHeap, IsLocal, IntegerOperand, Holds, ArithmeticKinds
  <2> HIDE DEF value, i
  <2>5. Judges(i, value)
    BY <1>1, <1>3, <2>1, <2>2, <2>3, <2>4 DEF Judges, Made
  <2> QED
    BY <1>1, <1>2, <1>7, <2>5, Makes DEF i
<1>8. CASE ~ Null(1) /\ ~ Null(2) /\ type # NoType /\ ~ HasDirty(type) /\ ~ fine
  <2>1. ASSUME AllSupported PROVE fine
    <3>1. IRType(index) = Int32
      BY <1>1, <1>4, <1>8, <2>1, IntegerLoaded
    <3>2. nodes[c[1]].kind = "id"
      BY <1>4, <2>1 DEF IsLocal, Holds
    <3>3. array.form \in {"alloca", "heap"}
      BY <1>1, <1>4, <1>8, <2>1, <3>2 DEF Made
    <3> QED
      BY <3>1, <3>3, Loads, Integrals
  <2> QED
    BY <1>1, <1>2, <1>3, <1>8, <2>1, StopsSupported
<1> QED
  BY <1>5, <1>6, <1>7, <1>8

(* Literals of arrays. *)
LEMMA ArrayTyped ==
  ASSUME Inv, Running("generate"), calls # <<>>, Node.kind = "array", AllSupported
  PROVE  types[Top.node] # NoType /\ ~ HasDirty(types[Top.node])
<1>1. /\ Top.node \in Nodes /\ Node = nodes[Top.node] /\ pass = "generate"
      /\ AllSupported /\ IsChecked(use.kind) => CheckedUnder[Top.node] \in SUBSET CheckedNodes
  BY GeneratorHere DEF Inv
<1>2. IsChecked(use.kind)
  BY <1>1, SupportedByKind DEF AllSupported, IsChecked, Inv, Known
<1>3. Top.node \in CheckedNodes
  BY <1>1, <1>2, BelowNodes DEF Inv, Known
<1> QED
  BY <1>1, <1>3, TypesGenerated DEF Inv

LEMMA MakesArray ==
  ASSUME Inv, GenerateArray
  PROVE  MakesValue \/ StopsDuly
<1> DEFINE i == Top.node
<1>1. /\ Running("generate") /\ calls # <<>> /\ Top.done = Len(Visits)
      /\ Node.kind = "array" /\ ~ RefusedEarly /\ ~ NullEarly
      /\ IF \E k \in DOMAIN Node.children : Null(k)
           THEN Ends("undefined") ELSE Evaluated(Value(types[i]))
  BY DEF GenerateArray, Ready, Finishes, Visited
<1>2. /\ i \in Nodes /\ Node = nodes[i] /\ Visits = GeneratorVisits(nodes[i])
      /\ pass = "generate" /\ outcome = "running"
  BY <1>1, GeneratorHere DEF Inv
<1>3. Visits = Node.children /\ DOMAIN Node.children = 1..Top.done
  BY <1>1, <1>2, VisitsByKind, Operands DEF Inv, Known
<1>4. \A k \in DOMAIN Node.children : Null(k) => UntypedNode /\ ~ AllSupported
  <2> TAKE k \in DOMAIN Node.children
  <2>1. k \in 1..Top.done /\ Visits[k] = Child(k)
    BY <1>3 DEF Child
  <2> QED
    BY <1>1, <2>1, GeneratedOperand DEF Inv
<1>5. CASE \E k \in DOMAIN Node.children : Null(k)
  BY <1>1, <1>2, <1>4, <1>5, StopsSupported
<1>6. CASE ~ \E k \in DOMAIN Node.children : Null(k)
  <2>1. types[i] # NoType /\ ~ HasDirty(types[i])
    BY <1>1 DEF RefusedEarly, NullEarly
  <2>2. types[i] = Clone(Meaning[i])
    BY <1>2, <2>1, TypesGenerated DEF Inv
  <2>3. Lowered(types[i]) = Lowered(Meaning[i])
    BY <1>2, <2>2, MeaningByKind, LoweredTypes DEF Inv, Known
  <2>4. ~ IntegerOperand(i) /\ ~ Fits(i)
    BY <1>1, <1>2 DEF IntegerOperand, Holds, ArithmeticKinds, Fits
  <2>5. Judges(i, Value(types[i]))
    BY <1>1, <1>2, <2>3, <2>4, MadeValue
  <2> QED
    BY <1>1, <1>6, <2>5, Makes
<1> QED
  BY <1>5, <1>6

LEMMA StopsEarly ==
  ASSUME Inv, GenerateRefused \/ GenerateNull
  PROVE  StopsDuly
<1>1. /\ Running("generate") /\ calls # <<>>
      /\ \/ RefusedEarly /\ Ends("threw")
         \/ NullEarly /\ Ends("undefined")
  BY DEF GenerateRefused, GenerateNull, Entered
<1>2. /\ Top.node \in Nodes /\ Node = nodes[Top.node] /\ pass = "generate" /\ outcome = "running"
  BY <1>1, GeneratorHere DEF Inv
<1>3. ~ AllSupported
  <2>1. CASE Node.kind \in {"logical", "call"}
    BY <1>2, <2>1, SupportedByKind DEF AllSupported, Inv, Known, LeafKinds, ArithmeticKinds
  <2>2. CASE Node.kind = "array" /\ (HasDirty(types[Top.node]) \/ types[Top.node] = NoType)
    BY <1>1, <2>2, ArrayTyped
  <2> QED
    BY <1>1, <2>1, <2>2 DEF RefusedEarly, NullEarly
<1>4. NullEarly => UntypedNode
  <2> SUFFICES ASSUME NullEarly PROVE UntypedNode
    OBVIOUS
  <2>1. nodes[Top.node].kind = "array" /\ types[Top.node] = NoType
    BY <1>2 DEF NullEarly
  <2>2. Top.node \in CheckedNodes => LeftUntyped(Top.node)
    BY <1>2, <2>1, TypesGenerated DEF Inv
  <2> QED
    BY <1>2, <2>1, <2>2 DEF UntypedNode
<1> QED
  BY <1>1, <1>2, <1>3, <1>4, StopsSupported

(* The checker reads the type of a node it has left without one. *)
LEMMA ReadUntyped ==
  ASSUME Known, Running("check"), calls # <<>>,
         NEW k, NEW m \in 1..Top.done, Visits[m] = Child(k), Untyped(k)
  PROVE  UntypedNode
<1>1. Visits[m] \in Nodes /\ Done(Visits[m])
  BY Here
<1>2. types[Visits[m]] = NoType
  BY DEF Untyped, TypeOfChild
<1> QED
  BY <1>1, <1>2 DEF Done, UntypedNode

LEMMA ChecksUndefined ==
  ASSUME Inv, CheckUndefined
  PROVE  StopsDuly
<1>1. ReadsNull /\ Ends("undefined") /\ Running("check") /\ calls # <<>> /\ Known
  BY DEF CheckUndefined, ReadsNull, Visited, Inv
<1>2. /\ Top.node \in Nodes /\ Node = nodes[Top.node] /\ Visits = CheckerVisits(nodes[Top.node])
      /\ Top.node \in CheckedNodes /\ Top.done \in Nat /\ Len(Visits) \in Nat
      /\ pass = "check" /\ outcome = "running" /\ Top.done <= Len(Visits)
  BY <1>1, Here DEF Running
<1> SUFFICES UntypedNode
  BY <1>1, <1>2, StopsSupported
<1>3. CASE Visited("check") /\ Node.kind = "not"
  BY <1>2, <1>3 DEF UntypedNode
<1>4. CASE Visited("check") /\ Node.kind \in ArithmeticKinds /\ (Untyped(1) \/ Untyped(2))
  <2>1. \A k \in {1, 2} : k \in 1..Top.done /\ Visits[k] = Child(k)
    BY <1>1, <1>4, BothOperands DEF ArithmeticKinds
  <2> QED
    BY <1>1, <1>4, <2>1, ReadUntyped
<1>5. CASE Visited("check") /\ Node.kind = "minus" /\ Untyped(1)
  BY <1>1, <1>5, BothOperands, ReadUntyped
<1>6. CASE Visited("check") /\ Node.kind = "call" /\ Untyped(1)
  <2>1. Visits = <<Child(1)>> /\ Top.done = Len(Visits)
    BY <1>1, <1>2, <1>6, VisitsByKind DEF Known, Child, Visited
  <2>2. 1 \in 1..Top.done /\ Visits[1] = Child(1)
    BY <2>1
  <2> QED
    BY <1>1, <1>6, <2>2, ReadUntyped
<1>7. CASE Visited("check") /\ Node.kind = "access" /\ (Untyped(1) \/ Untyped(2))
  <2>1. Visits = <<Child(2), Child(1)>> /\ Top.done = Len(Visits)
    BY <1>1, <1>2, <1>7, VisitsByKind DEF Known, Child, Visited
  <2>2. 1 \in 1..Top.done /\ Visits[1] = Child(2) /\ 2 \in 1..Top.done /\ Visits[2] = Child(1)
    BY <2>1
  <2> QED
    BY <1>1, <1>7, <2>2, ReadUntyped
<1>8. CASE /\ Node.kind = "array" /\ Top.done > 0
           /\ Untyped(IF Top.done = 1 THEN 1 ELSE Top.done - 1)
  <2>1. Node.children # <<>>
    <3>1. Node.children = <<>> => Len(Visits) = 0
      BY <1>1, <1>2, <1>8, VisitsByKind DEF Known
    <3> QED
      BY <1>2, <1>8, <3>1
  <2>2. /\ 1 \in 1..Top.done /\ Visits[1] = Child(1)
        /\ \A k \in 1..(Top.done - 1) : k + 1 \in 1..Top.done /\ Visits[k + 1] = Child(k)
    <3>1. Top.done >= 1
      BY <1>2, <1>8
    <3>2. 1 \in 1..Top.done /\ Visits[1] = nodes[Top.node].children[1]
      BY <1>1, <1>8, <2>1, <3>1, ElementVisits
    <3>3. \A k \in 1..(Top.done - 1) : k + 1 \in 1..Top.done /\ Visits[k + 1] = Child(k)
      BY <1>1, <1>8, <2>1, ElementVisits
    <3> QED
      BY <1>2, <3>2, <3>3 DEF Child
  <2>3. CASE Top.done = 1
    BY <1>1, <1>8, <2>2, <2>3, ReadUntyped
  <2>4. CASE Top.done # 1
    <3> DEFINE k == Top.done - 1
    <3>1. k \in 1..(Top.done - 1) /\ Untyped(k)
      BY <1>2, <1>8, <2>4
    <3> HIDE DEF k
    <3> QED
      BY <1>1, <2>2, <3>1, ReadUntyped
  <2> QED
    BY <2>3, <2>4
<1> QED
  BY <1>1, <1>3, <1>4, <1>5, <1>6, <1>7, <1>8 DEF ReadsNull

LEMMA ChecksStatementUndefined ==
  ASSUME Inv, CheckStatementUndefined
  PROVE  StopsDuly
<1>1. /\ pass = "check" /\ outcome = "running" /\ calls = <<>> /\ use.kind = "let"
      /\ types[Root] = NoType /\ Ends("undefined")
  BY DEF CheckStatementUndefined, Running
<1>2. Root \in Nodes /\ Done(Root)
  BY <1>1 DEF Inv, Known, Filled, Checking, IsChecked
<1>3. UntypedNode
  BY <1>1, <1>2 DEF Done, UntypedNode
<1> QED
  BY <1>1, <1>3, StopsSupported

-----------------------------------------------------------------------------
(* What the statement consumes. *)
LEMMA RootGenerated ==
  ASSUME Inv, NEW kind, Generated(kind)
  PROVE  /\ Running("generate") /\ calls = <<>> /\ use.kind = kind
         /\ pass = "generate" /\ outcome = "running" /\ Root \in Nodes
         /\ values[Root] = NoValue =>
              UntypedNode /\ ~ AllSupported /\ nodes[Root].kind = "less"
         /\ values[Root] # NoValue => Made(Root, values[Root])
         /\ IsChecked(kind) => Root \in CheckedNodes
<1>1. /\ Running("generate") /\ calls = <<>> /\ use.kind = kind
      /\ pass = "generate" /\ outcome = "running"
  BY DEF Generated, Running
<1>2. Root \in Nodes
  BY <1>1 DEF Inv, Known, Filled
<1>3. Present(Root) /\ (values[Root] = NoValue \/ Made(Root, values[Root]))
  BY <1>1, <1>2 DEF Inv, Generating
<1>4. IsChecked(kind) => Root \in CheckedNodes
  BY <1>1, <1>2, BelowNodes DEF Inv, Known, CheckedNodes
<1> QED
  BY <1>1, <1>2, <1>3, <1>4, OrderingUntyped DEF Inv, Present

LEMMA Stores ==
  ASSUME Running("generate"), calls = <<>>, NEW value, StoresDuly(value), Consumes(value)
  PROVE  CompletesDuly
BY DEF CompletesDuly

(* A return, and a declaration of what is on the stack, take the value as  *)
(* it is.                                                                  *)
LEMMA AsItIs ==
  ASSUME Inv, NEW kind \in {"let", "return"}, Generated(kind), values[Root] # NoValue,
         kind = "let" => ~ IsLarge(use.type)
  PROVE  StoresDuly(values[Root])
<1>1. use.kind = kind /\ Root \in Nodes /\ Made(Root, values[Root])
  BY RootGenerated
<1>2. OnHeap(Root) => IsLocal(Root)
  BY DEF OnHeap
<1>3. IsLocal(Root) => nodes[Root].kind = "id"
  BY DEF IsLocal, Holds
<1> QED
  BY <1>1, <1>2, <1>3 DEF StoresDuly, Made

LEMMA CompletesLet ==
  ASSUME Inv, StoreLet
  PROVE  CompletesDuly
<1>1. /\ Generated("let")
      /\ Consumes(IF IsLarge(use.type) THEN NoValue
                  ELSE IF values[Root] = NoValue THEN Value(use.type)
                  ELSE values[Root])
  BY DEF StoreLet
<1>2. /\ Running("generate") /\ calls = <<>> /\ Root \in Nodes /\ use.kind = "let"
      /\ values[Root] = NoValue => nodes[Root].kind = "less"
  BY <1>1, RootGenerated
<1>3. CASE IsLarge(use.type)
  BY <1>1, <1>2, <1>3, Forms, Stores DEF StoresDuly
<1>4. CASE ~ IsLarge(use.type) /\ values[Root] = NoValue
  BY <1>1, <1>2, <1>4, Stores DEF StoresDuly
<1>5. CASE ~ IsLarge(use.type) /\ values[Root] # NoValue
  BY <1>1, <1>2, <1>5, AsItIs, Stores
<1> QED
  BY <1>3, <1>4, <1>5

LEMMA CompletesReturn ==
  ASSUME Inv, StoreReturn
  PROVE  CompletesDuly \/ StopsDuly
<1>1. /\ Generated("return")
      /\ IF values[Root] = NoValue THEN Ends("undefined") ELSE Consumes(values[Root])
  BY DEF StoreReturn
<1>2. /\ Running("generate") /\ calls = <<>> /\ pass = "generate" /\ outcome = "running"
      /\ values[Root] = NoValue => UntypedNode /\ ~ AllSupported
  BY <1>1, RootGenerated
<1>3. CASE values[Root] = NoValue
  BY <1>1, <1>2, <1>3, StopsSupported
<1>4. CASE values[Root] # NoValue
  BY <1>1, <1>2, <1>4, AsItIs, Stores
<1> QED
  BY <1>3, <1>4

LEMMA CompletesFormatted ==
  ASSUME Inv, PrintFormatted
  PROVE  CompletesDuly \/ StopsDuly
<1> DEFINE value == values[Root]
<1>1. /\ Generated("print_f")
      /\ IF value = NoValue THEN Ends("threw") ELSE Consumes(LoadAlloca(value))
  BY DEF PrintFormatted
<1>2. /\ Running("generate") /\ calls = <<>> /\ pass = "generate" /\ outcome = "running"
      /\ value = NoValue => ~ AllSupported
      /\ value # NoValue => Made(Root, value)
      /\ use.kind = "print_f" /\ Root \in Nodes
  BY <1>1, RootGenerated
<1>3. CASE value = NoValue
  BY <1>1, <1>2, <1>3, StopsSupported
<1>4. CASE value # NoValue
  <2>1. nodes[Root].kind # "less" =>
          /\ value.form \in {"value", "alloca", "heap"}
          /\ value.form = "heap" <=> OnHeap(Root)
    BY <1>2, <1>4 DEF Made, IsChecked
  <2>2. nodes[Root].kind # "less" =>
          LoadAlloca(value).form = IF OnHeap(Root) THEN "heap" ELSE "value"
    BY <2>1, Forms DEF LoadAlloca
  <2> HIDE DEF value
  <2>3. StoresDuly(LoadAlloca(value))
    BY <1>2, <2>2 DEF StoresDuly
  <2> QED
    BY <1>1, <1>2, <1>4, <2>3, Stores
<1> QED
  BY <1>3, <1>4

LEMMA CompletesPrint ==
  ASSUME Inv, PrintValue
  PROVE  CompletesDuly \/ StopsDuly
<1> DEFINE value == values[Root]
           type == types[Root]
<1>1. /\ Generated("print")
      /\ IF HasDirty(type) \/ value = NoValue THEN Ends("threw")
         ELSE IF type = NoType THEN Ends("undefined")
         ELSE IF GetKind(type) \notin PrintKinds THEN Ends("threw")
         ELSE Consumes(LoadAny(value))
  BY DEF PrintValue
<1>2. /\ Running("generate") /\ calls = <<>> /\ pass = "generate" /\ outcome = "running"
      /\ value = NoValue => ~ AllSupported
      /\ value # NoValue => Made(Root, value)
      /\ use.kind = "print" /\ Root \in Nodes /\ Root \in CheckedNodes
  BY <1>1, RootGenerated DEF IsChecked
<1>3. /\ type = NoType => UntypedNode /\ ~ AllSupported
      /\ HasDirty(type) => ~ AllSupported
  BY <1>2, TypesGenerated DEF Inv, UntypedNode
<1>4. CASE HasDirty(type) \/ value = NoValue
  BY <1>1, <1>2, <1>3, <1>4, StopsSupported
<1>5. CASE ~ HasDirty(type) /\ value # NoValue /\ type = NoType
  BY <1>1, <1>2, <1>3, <1>5, StopsSupported
<1>6. CASE ~ HasDirty(type) /\ value # NoValue /\ type # NoType /\ GetKind(type) \notin PrintKinds
  <2>1. ASSUME AllSupported PROVE FALSE
    <3>1. type \in Types /\ type = Clone(Meaning[Root])
      BY <1>2, <1>6, TypesGenerated DEF Inv
    <3>2. Meaning[Root].base \notin {"Slice", "Pointer"} /\ Meaning[Root] \in AnyType
      BY <1>2, <2>1, SupportedMeanings, MeaningByKind DEF Inv, Known
    <3>3. type.base \in Bases \ {"Slice", "Pointer", "Dirty"}
      BY <1>6, <3>1, <3>2, Clones DEF Types, HasDirty
    <3> QED
      BY <1>6, <3>3 DEF GetKind, PrintKinds, Bases
  <2> QED
    BY <1>1, <1>2, <1>6, <2>1, StopsSupported
<1>7. CASE ~ HasDirty(type) /\ value # NoValue /\ type # NoType /\ GetKind(type) \in PrintKinds
  <2>1. nodes[Root].kind # "less" =>
          LoadAny(value).form = IF OnHeap(Root) THEN "heap" ELSE "value"
    BY <1>2, <1>7, Forms DEF Made, LoadAny
  <2> HIDE DEF value
  <2>2. StoresDuly(LoadAny(value))
    BY <1>2, <2>1 DEF StoresDuly
  <2> QED
    BY <1>1, <1>2, <1>7, <2>2, Stores
<1> QED
  BY <1>4, <1>5, <1>6, <1>7

-----------------------------------------------------------------------------
(***************************************************************************)
(* The steps.                                                              *)
(***************************************************************************)
LEMMA GeneratorSteps ==
  ASSUME Inv, Next
  PROVE  \/ AddLeaf \/ AddBranch \/ ParseStatement
         \/ CheckReturns \/ CheckAccept \/ CheckStatement
         \/ GenerateAccept \/ MakesValue \/ CompletesDuly \/ StopsDuly
<1>1. CASE \/ CheckLiteral \/ CheckId \/ CheckArithmetic \/ CheckMinus \/ CheckLogical
           \/ CheckComparison \/ CheckCall \/ CheckAccess \/ CheckMixed \/ CheckArray
  BY <1>1, JudgedLiteral, JudgedId, JudgedArithmetic, JudgedMinus, JudgedLogical,
     JudgedComparison, JudgedCall, JudgedAccess, JudgedMixed, JudgedArray DEF Inv
<1>2. CASE CheckUndefined \/ CheckStatementUndefined
  BY <1>2, ChecksUndefined, ChecksStatementUndefined
<1>3. CASE \/ GenerateRefused \/ GenerateNull \/ GenerateLiteral \/ GenerateId \/ GenerateLess
           \/ GenerateArithmetic \/ GenerateEq \/ GenerateUnary \/ GenerateCall
           \/ GenerateAccess \/ GenerateArray
  BY <1>3, StopsEarly, MakesLiteral, MakesId, MakesLess, MakesArithmetic, MakesEq, MakesUnary,
     MakesCall, MakesAccess, MakesArray
<1>4. CASE StoreLet \/ StoreReturn \/ PrintValue \/ PrintFormatted
  BY <1>4, CompletesLet, CompletesReturn, CompletesPrint, CompletesFormatted
<1> QED
  BY <1>1, <1>2, <1>3, <1>4 DEF Next

LEMMA FrozenGenerator ==
  ASSUME nodes' = nodes, use' = use
  PROVE  /\ AllSupported' <=> AllSupported
         /\ UntypedNode' <=> UntypedNode
         /\ \A i : Fits(i)' <=> Fits(i)
         /\ \A i : Passable(i)' <=> Passable(i)
         /\ \A i, v : Made(i, v)' <=> Made(i, v)
         /\ \A i : GeneratorVisits(nodes[i])' = GeneratorVisits(nodes[i])
         /\ \A i : IsLocal(i)' <=> IsLocal(i)
         /\ \A i : OnHeap(i)' <=> OnHeap(i)
<1>1. /\ Nodes' = Nodes /\ Root' = Root /\ CheckedNodes' = CheckedNodes
      /\ CheckedUnder' = CheckedUnder /\ Meaning' = Meaning /\ Under' = Under
      /\ \A i : LeftUntyped(i)' <=> LeftUntyped(i)
  BY FrozenText
<1>2. /\ \A i : IsLocal(i)' <=> IsLocal(i)
      /\ \A i : OnHeap(i)' <=> OnHeap(i)
      /\ \A i : IntegerOperand(i)' <=> IntegerOperand(i)
  BY DEF OnHeap, IsLocal, IntegerOperand, Holds, IsLarge
<1>3. \A i : Supported(i)' <=> Supported(i)
  BY <1>1, <1>2 DEF Supported, Holds, Uninitialised, Callable
<1>4. AllSupported' <=> AllSupported
  BY <1>1, <1>3 DEF AllSupported
<1>5. UntypedNode' <=> UntypedNode
  BY <1>1 DEF UntypedNode
<1>6. /\ \A i : Parameters(i)' = Parameters(i)
      /\ \A i : Passable(i)' <=> Passable(i)
  BY <1>2 DEF Parameters, Passable
<1>7. \A i : Fits(i)' <=> Fits(i)
  BY <1>1, <1>2, <1>6 DEF Fits, Holds
<1>8. \A i, v : Made(i, v)' <=> Made(i, v)
  BY <1>1, <1>2, <1>4, <1>6, <1>7 DEF Made
<1>9. \A i : GeneratorVisits(nodes[i])' = GeneratorVisits(nodes[i])
  BY DEF GeneratorVisits
<1> QED
  BY <1>2, <1>4, <1>5, <1>6, <1>7, <1>8, <1>9

LEMMA NotGenerating ==
  ASSUME pass' # "generate", outcome' \notin {"generated", "malformed", "undefined"}
  PROVE  Generating'
BY DEF Generating, AddressesOfNamesAreStored

LEMMA GeneratingStarts ==
  ASSUME Inv, CheckStatement
  PROVE  Generating'
<1>1. /\ pass = "check" /\ outcome = "running" /\ UNCHANGED <<nodes, use, values>>
      /\ \/ pass' = pass /\ outcome' = "rejected"
         \/ pass' = "generate" /\ calls' = <<Frame(Root)>> /\ outcome' = outcome
  BY DEF CheckStatement, Running, text
<1>2. CASE pass' = pass /\ outcome' = "rejected"
  BY <1>1, <1>2, NotGenerating
<1>3. CASE pass' = "generate" /\ calls' = <<Frame(Root)>> /\ outcome' = outcome
  <2>1. /\ Nodes' = Nodes /\ CheckedUnder' = CheckedUnder /\ CheckedNodes' = CheckedNodes
    BY <1>1, FrozenText
  <2>2. \A i \in Nodes' : values'[i] = NoValue
    BY <1>1, <2>1 DEF Inv, Known, Filled
  <2>3. /\ calls' # <<>> /\ DOMAIN calls' = {1}
        /\ calls'[1].node = Root /\ calls'[1].done = 0
    BY <1>3 DEF Frame
  <2>4. IsChecked(use'.kind) => CheckedUnder'[Root] \in SUBSET CheckedNodes'
    BY <1>1, <2>1 DEF CheckedNodes
  <2>5. \A k \in DOMAIN calls' :
          /\ calls'[k].done = 0
          /\ IsChecked(use'.kind) => CheckedUnder'[calls'[k].node] \in SUBSET CheckedNodes'
    BY <2>3, <2>4
  <2> QED
    BY <1>1, <1>3, <2>2, <2>3, <2>5 DEF Generating, AddressesOfNamesAreStored
<1> QED
  BY <1>1, <1>2, <1>3

LEMMA GeneratingStops ==
  ASSUME Inv, StopsDuly
  PROVE  Generating'
<1>1. PICK how \in {"threw", "undefined", "malformed"} : StopsFor(how)
  BY DEF StopsDuly
<1>2. /\ outcome' = how /\ UNCHANGED <<nodes, use, pass, calls, values>>
      /\ pass = "generate" => ~ AllSupported
      /\ how = "malformed" => (Fits(Root) => ~ Passable(Root))
      /\ how = "undefined" => UntypedNode
  BY <1>1 DEF StopsFor, Ends, text
<1>3. /\ Nodes' = Nodes /\ Root' = Root /\ CheckedUnder' = CheckedUnder
      /\ CheckedNodes' = CheckedNodes
  BY <1>2, FrozenText
<1>4. /\ AllSupported' <=> AllSupported
      /\ UntypedNode' <=> UntypedNode
      /\ \A i : Fits(i)' <=> Fits(i)
      /\ \A i : Passable(i)' <=> Passable(i)
      /\ \A i, v : Made(i, v)' <=> Made(i, v)
      /\ \A i : GeneratorVisits(nodes[i])' = GeneratorVisits(nodes[i])
  BY <1>2, FrozenGenerator
<1>5. \A i : Present(i)' <=> Present(i)
  BY <1>2 DEF Present
<1>6. pass' = "generate" =>
        /\ \A i \in Nodes' : values'[i] = NoValue \/ Made(i, values[i])'
        /\ calls' = <<>> => \A i : i = Root => Present(i)'
        /\ ~ AllSupported'
        /\ \A k \in DOMAIN calls' :
             \A m \in 1..calls'[k].done : Present(GeneratorVisits(nodes[calls[k].node])[m])'
  BY <1>2, <1>3, <1>4, <1>5 DEF Inv, Generating
<1>7. outcome' # "generated"
  BY <1>2
<1>8. outcome' = "malformed" => (Fits(Root) => ~ Passable(Root))'
  BY <1>2, <1>3, <1>4
<1>9. outcome' = "undefined" => UntypedNode'
  BY <1>2, <1>4
<1> QED
  BY <1>3, <1>6, <1>7, <1>8, <1>9 DEF Generating, AddressesOfNamesAreStored

LEMMA GeneratingCompletes ==
  ASSUME Inv, CompletesDuly
  PROVE  Generating'
<1>1. PICK value : StoresDuly(value) /\ Consumes(value)
  BY DEF CompletesDuly
<1>2. /\ calls = <<>> /\ pass = "generate" /\ stored' = value /\ outcome' = "generated"
      /\ UNCHANGED <<nodes, use, pass, calls, values>>
  BY <1>1 DEF CompletesDuly, Consumes, Running, text
<1>3. /\ Nodes' = Nodes /\ Root' = Root
  BY <1>2, FrozenText
<1>4. /\ \A i, v : Made(i, v)' <=> Made(i, v)
      /\ \A i : IsLocal(i)' <=> IsLocal(i)
      /\ \A i : OnHeap(i)' <=> OnHeap(i)
  BY <1>2, FrozenGenerator
<1>5. \A i : Present(i)' <=> Present(i)
  BY <1>2 DEF Present
<1>6. /\ \A i \in Nodes' : values'[i] = NoValue \/ Made(i, values[i])'
      /\ \A i : i = Root => Present(i)'
  BY <1>2, <1>3, <1>4, <1>5 DEF Inv, Generating
<1>7. AddressesOfNamesAreStored'
  BY <1>1, <1>2, <1>3, <1>4 DEF StoresDuly, AddressesOfNamesAreStored
<1> QED
  BY <1>2, <1>3, <1>6, <1>7 DEF Generating

(* What compiles is visited by the checker wherever the generator is. *)
LEMMA SupportedChecked ==
  ASSUME Known, AllSupported, NEW i \in Nodes, NEW m \in DOMAIN GeneratorVisits(nodes[i])
  PROVE  CheckedUnder[GeneratorVisits(nodes[i])[m]] \in SUBSET CheckedUnder[i]
<1> DEFINE c == nodes[i].children
           check == CheckerVisits(nodes[i])
           generate == GeneratorVisits(nodes[i])
<1>1. /\ DOMAIN c = 1..Len(c) /\ Len(c) \in Nat
      /\ \A k \in DOMAIN check : CheckedUnder[check[k]] \in SUBSET CheckedUnder[i]
  BY Operands, BelowNodes DEF Known
<1>2. nodes[i].kind \in LeafKinds \cup ArithmeticKinds \cup {"minus", "access", "array"}
  BY SupportedByKind DEF Known, AllSupported
<1>3. SUFFICES \E k \in DOMAIN check : check[k] = generate[m]
  BY <1>1
<1>4. CASE nodes[i].kind \in LeafKinds \cup ArithmeticKinds \cup {"minus"}
  <2>1. check = generate
    BY <1>4, VisitsByKind DEF Known
  <2> QED
    BY <2>1
<1>5. CASE nodes[i].kind = "access"
  <2>1. check = <<c[2], c[1]>> /\ generate = c /\ Len(c) = 2
    BY <1>5, VisitsByKind, Operands DEF Known
  <2>2. m \in {1, 2}
    BY <1>1, <2>1
  <2>3. /\ 1 \in DOMAIN check /\ check[1] = c[2]
        /\ 2 \in DOMAIN check /\ check[2] = c[1]
    BY <2>1
  <2> HIDE DEF check, c, generate
  <2> QED
    BY <2>1, <2>2, <2>3
<1>6. CASE nodes[i].kind = "array"
  <2>1. generate = c /\ m \in 1..Len(c)
    BY <1>1, <1>6, VisitsByKind DEF Known
  <2>2. c # <<>>
    <3>1. c = <<>> => Len(c) = 0
      OBVIOUS
    <3> QED
      BY <1>1, <2>1, <3>1
  <2>3. Len(check) = Len(c) + 1 /\ check[m + 1] = c[m]
    BY <1>6, <2>1, <2>2, VisitsByKind DEF Known
  <2>4. DOMAIN check = 1..Len(check)
    BY VisitedOperands, SeqElements DEF Known
  <2>5. m + 1 \in DOMAIN check
    <3> HIDE DEF check, c
    <3> QED
      BY <1>1, <2>1, <2>3, <2>4
  <2> QED
    BY <2>1, <2>3, <2>5
<1> QED
  BY <1>2, <1>4, <1>5, <1>6

LEMMA GeneratingAccepts ==
  ASSUME Inv, GenerateAccept
  PROVE  Generating'
<1> DEFINE n == Len(calls)
<1>1. Running("generate") /\ calls # <<>> /\ Top.done < Len(Visits) /\ Accept
  BY DEF GenerateAccept
<1>2. /\ pass = "generate" /\ outcome = "running" /\ UNCHANGED <<nodes, use, pass, values, outcome>>
  BY <1>1 DEF Accept, text, Running
<1>3. /\ Len(calls') = n + 1 /\ DOMAIN calls' = 1..(n + 1)
      /\ \A k \in 1..n : calls'[k] = calls[k]
      /\ calls'[n + 1].node = Visits[Top.done + 1]
      /\ calls'[n + 1].done = 0
  BY <1>1, Pushed DEF Inv, Known
<1>4. n \in Nat /\ DOMAIN calls = 1..n
  BY <1>1, TopOfCalls DEF Inv, Known
<1>5. /\ Top.node \in Nodes /\ Visits = GeneratorVisits(nodes[Top.node])
      /\ Top.done \in Nat /\ Len(Visits) \in Nat /\ DOMAIN Visits = 1..Len(Visits)
      /\ AllSupported /\ IsChecked(use.kind) => CheckedUnder[Top.node] \in SUBSET CheckedNodes
  BY <1>1, GeneratorHere DEF Inv
<1>6. /\ Nodes' = Nodes /\ Root' = Root /\ CheckedUnder' = CheckedUnder
      /\ CheckedNodes' = CheckedNodes
  BY <1>2, FrozenText
<1>7. /\ AllSupported' <=> AllSupported
      /\ \A i, v : Made(i, v)' <=> Made(i, v)
      /\ \A i : GeneratorVisits(nodes[i])' = GeneratorVisits(nodes[i])
  BY <1>2, FrozenGenerator
<1>8. \A i : Present(i)' <=> Present(i)
  BY <1>2 DEF Present
<1>9. \A i \in Nodes' : values'[i] = NoValue \/ Made(i, values[i])'
  BY <1>2, <1>6, <1>7 DEF Inv, Generating
<1>10. calls' # <<>>
  <2>1. 1 \in DOMAIN calls'
    BY <1>3, <1>4
  <2> QED
    BY <2>1
<1>11. ASSUME NEW k \in DOMAIN calls'
       PROVE  /\ \A m \in 1..calls'[k].done :
                   Present(GeneratorVisits(nodes[calls[k].node])[m])'
              /\ AllSupported /\ IsChecked(use.kind)
                   => CheckedUnder[calls'[k].node] \in SUBSET CheckedNodes
  <2>1. CASE k \in 1..n
    <3>1. calls'[k] = calls[k] /\ k \in DOMAIN calls
      BY <1>3, <1>4, <2>1
    <3>2. /\ \A m \in 1..calls[k].done : Present(GeneratorVisits(nodes[calls[k].node])[m])
          /\ AllSupported /\ IsChecked(use.kind)
               => CheckedUnder[calls[k].node] \in SUBSET CheckedNodes
      BY <1>2, <3>1 DEF Inv, Generating
    <3> QED
      BY <1>2, <1>7, <1>8, <3>1, <3>2
  <2>2. CASE k = n + 1
    <3>1. calls'[k].node = Visits[Top.done + 1] /\ calls'[k].done = 0
      BY <1>3, <2>2
    <3>2. Top.done + 1 \in DOMAIN Visits
      BY <1>1, <1>5
    <3>3. AllSupported => CheckedUnder[Visits[Top.done + 1]] \in SUBSET CheckedUnder[Top.node]
      BY <1>5, <3>2, SupportedChecked DEF Inv
    <3>4. 1..0 = {}
      OBVIOUS
    <3> QED
      BY <1>5, <3>1, <3>3, <3>4
  <2> QED
    BY <1>3, <1>4, <2>1, <2>2
<1> QED
  BY <1>2, <1>6, <1>7, <1>9, <1>10, <1>11 DEF Generating, AddressesOfNamesAreStored

LEMMA GeneratingMakes ==
  ASSUME Inv, MakesValue
  PROVE  Generating'
<1> DEFINE n == Len(calls) - 1
           top == Top.node
<1>1. Running("generate") /\ calls # <<>>
  BY DEF MakesValue
<1>2. PICK value : Judges(top, value) /\ Evaluated(value)
  BY DEF MakesValue
<1>3. /\ pass = "generate" /\ outcome = "running" /\ UNCHANGED <<nodes, use, pass, outcome>>
      /\ values' = [values EXCEPT ![top] = value] /\ calls' = Returned
  BY <1>1, <1>2 DEF Evaluated, text, Running
<1>4. /\ DOMAIN calls' = 1..n
      /\ calls' = <<>> => top = Root
      /\ \A k \in 1..n :
           /\ calls'[k].node = calls[k].node
           /\ calls'[k].done = IF k = n THEN calls[k].done + 1 ELSE calls[k].done
      /\ n # 0 => top = VisitsOf(calls[n].node)[calls[n].done + 1]
  BY <1>1, <1>3, Popped DEF Inv, Known
<1>5. /\ n \in Nat /\ DOMAIN calls = 1..(n + 1) /\ top \in Nodes
      /\ \A k \in DOMAIN calls : calls[k].node \in Nodes /\ calls[k].done \in Nat
  BY <1>1, TopOfCalls DEF Inv, Known
<1>6. /\ Nodes' = Nodes /\ Root' = Root /\ CheckedUnder' = CheckedUnder
      /\ CheckedNodes' = CheckedNodes
  BY <1>3, FrozenText
<1>7. /\ AllSupported' <=> AllSupported
      /\ \A i, v : Made(i, v)' <=> Made(i, v)
      /\ \A i : GeneratorVisits(nodes[i])' = GeneratorVisits(nodes[i])
  BY <1>3, FrozenGenerator
<1>8. \A j \in Nodes : values'[j] = IF j = top THEN value ELSE values[j]
  BY <1>3, <1>5 DEF Inv, Known, Filled
<1>9. Made(top, value) /\ (value # NoValue \/ nodes[top].kind = "less")
  BY <1>2 DEF Judges
<1>10. \A i \in Nodes' : values'[i] = NoValue \/ Made(i, values[i])'
  <2> TAKE i \in Nodes'
  <2>1. i \in Nodes /\ (values[i] = NoValue \/ Made(i, values[i]))
    BY <1>3, <1>6 DEF Inv, Generating
  <2>2. values'[i] = NoValue \/ Made(i, values'[i])
    BY <1>8, <1>9, <2>1
  <2>3. \A v : v = values'[i] => (Made(i, v) <=> Made(i, values[i])')
    BY <1>7
  <2> QED
    BY <2>2, <2>3
<1>11. /\ \A j \in Nodes : Present(j) => Present(j)'
       /\ \A j \in Nodes : j = top => Present(j)'
  BY <1>3, <1>8, <1>9 DEF Present
<1>12. calls' = <<>> => \A j : j = Root => Present(j)'
  BY <1>4, <1>5, <1>11
<1>13. ASSUME NEW k \in DOMAIN calls'
       PROVE  /\ \A m \in 1..calls'[k].done :
                   Present(GeneratorVisits(nodes[calls[k].node])[m])'
              /\ AllSupported /\ IsChecked(use.kind)
                   => CheckedUnder[calls'[k].node] \in SUBSET CheckedNodes
  <2> DEFINE i == calls[k].node
  <2>1. /\ k \in 1..n /\ k \in DOMAIN calls /\ calls'[k].node = i /\ i \in Nodes
        /\ n # 0 /\ calls[k].done \in Nat
        /\ calls'[k].done = IF k = n THEN calls[k].done + 1 ELSE calls[k].done
    <3>1. k \in 1..n
      BY <1>4
    <3> HIDE DEF n
    <3>2. k \in 1..(n + 1) /\ n # 0
      BY <1>5, <3>1
    <3> QED
      BY <1>4, <1>5, <3>1, <3>2
  <2>2. /\ \A m \in 1..calls[k].done : Present(GeneratorVisits(nodes[i])[m])
        /\ AllSupported /\ IsChecked(use.kind) => CheckedUnder[i] \in SUBSET CheckedNodes
    BY <1>3, <2>1 DEF Inv, Generating
  <2>3. ASSUME NEW m \in 1..calls'[k].done
        PROVE  Present(GeneratorVisits(nodes[calls[k].node])[m])'
    <3> DEFINE j == GeneratorVisits(nodes[i])[m]
    <3>1. m \in 1..calls[k].done \/ (k = n /\ m = calls[k].done + 1)
      <4> HIDE DEF n, i
      <4> QED
        BY <2>1, <2>3
    <3>2. j \in Nodes
      <4>1. m \in 1..Len(GeneratorVisits(nodes[i]))
        <5>1. /\ VisitsOf(i) = GeneratorVisits(nodes[i]) /\ Len(VisitsOf(i)) \in Nat
              /\ calls[k].done < Len(VisitsOf(i))
          <6>1. VisitsOf(i) = GeneratorVisits(nodes[i])
            BY <1>3 DEF VisitsOf
          <6>2. Len(VisitsOf(i)) \in Nat
            BY <2>1, VisitsOfNode DEF Inv, Known
          <6>3. k < Len(calls)
            <7>1. Len(calls) \in Nat
              BY <1>1, TopOfCalls DEF Inv, Known
            <7> QED
              BY <2>1, <7>1
          <6> QED
            BY <2>1, <6>1, <6>2, <6>3 DEF Inv, Known, Nested
        <5>2. calls[k].done \in Nat
          BY <1>5, <2>1
        <5> HIDE DEF i
        <5> QED
          BY <3>1, <5>1, <5>2
      <4>2. VisitsOf(i) = GeneratorVisits(nodes[i])
        BY <1>3 DEF VisitsOf
      <4> QED
        BY <2>1, <4>1, <4>2, VisitsOfNode DEF Inv, Known
    <3>3. Present(j) \/ j = top
      <4>1. VisitsOf(calls[n].node) = GeneratorVisits(nodes[calls[n].node])
        BY <1>3 DEF VisitsOf
      <4>2. ASSUME k = n, m = calls[k].done + 1 PROVE j = top
        <5>1. top = GeneratorVisits(nodes[calls[n].node])[calls[n].done + 1]
          BY <1>4, <2>1, <4>1
        <5> HIDE DEF n, top
        <5> QED
          BY <4>2, <5>1
      <4> QED
        BY <2>2, <3>1, <4>2
    <3>4. \A x \in Nodes : x = j => Present(x)'
      BY <1>11, <3>3
    <3>5. GeneratorVisits(nodes[calls[k].node])[m]' = j
      BY <1>7, <2>1
    <3> HIDE DEF j
    <3> QED
      BY <3>2, <3>4, <3>5
  <2> QED
    BY <2>1, <2>2, <2>3
<1> QED
  BY <1>3, <1>6, <1>7, <1>10, <1>12, <1>13 DEF Generating, AddressesOfNamesAreStored

LEMMA GeneratingStep ==
  ASSUME Inv, [Next]_vars
  PROVE  Generating'
<1>1. CASE AddLeaf \/ AddBranch
  <2>1. pass = "parse" /\ pass' = pass /\ outcome' = outcome
    BY <1>1 DEF AddLeaf, AddBranch, AddNode
  <2> QED
    BY <2>1, NotGenerating DEF Inv, Known, Filled
<1>2. CASE ParseStatement
  <2>1. pass = "parse" /\ pass' = "check" /\ outcome' = outcome
    BY <1>2 DEF ParseStatement
  <2> QED
    BY <2>1, NotGenerating DEF Inv, Known, Filled
<1>3. CASE CheckReturns \/ CheckAccept
  <2>1. pass = "check" /\ outcome = "running" /\ pass' = pass /\ outcome' = outcome
    BY <1>3 DEF CheckReturns, Datatype, CheckAccept, Accept, Running
  <2> QED
    BY <2>1, NotGenerating
<1>4. CASE CheckStatement \/ GenerateAccept \/ MakesValue \/ CompletesDuly \/ StopsDuly
  BY <1>4, GeneratingStarts, GeneratingAccepts, GeneratingMakes, GeneratingCompletes,
     GeneratingStops
<1>5. CASE UNCHANGED vars
  <2>1. /\ UNCHANGED <<nodes, use, pass, calls, values, stored, outcome>>
    BY <1>5 DEF vars
  <2>2. /\ Nodes' = Nodes /\ Root' = Root /\ CheckedUnder' = CheckedUnder
        /\ CheckedNodes' = CheckedNodes
    BY <2>1, FrozenText
  <2>3. /\ AllSupported' <=> AllSupported
        /\ UntypedNode' <=> UntypedNode
        /\ \A i : Fits(i)' <=> Fits(i)
        /\ \A i : Passable(i)' <=> Passable(i)
        /\ \A i, v : Made(i, v)' <=> Made(i, v)
        /\ \A i : GeneratorVisits(nodes[i])' = GeneratorVisits(nodes[i])
        /\ \A i : IsLocal(i)' <=> IsLocal(i)
        /\ \A i : OnHeap(i)' <=> OnHeap(i)
    BY <2>1, FrozenGenerator
  <2>4. \A i : Present(i)' <=> Present(i)
    BY <2>1 DEF Present
  <2>5. AddressesOfNamesAreStored'
    BY <2>1, <2>2, <2>3 DEF Inv, Generating, AddressesOfNamesAreStored
  <2>6. /\ outcome' = "malformed" => (Fits(Root) => ~ Passable(Root))'
        /\ outcome' = "undefined" => UntypedNode'
        /\ outcome' = "generated" => pass' = "generate" /\ calls' = <<>>
    BY <2>1, <2>2, <2>3 DEF Inv, Generating
  <2>7. pass' = "generate" =>
          /\ \A i \in Nodes' : values'[i] = NoValue \/ Made(i, values[i])'
          /\ calls' = <<>> => \A i : i = Root => Present(i)'
          /\ AllSupported' => outcome' \in {"running", "generated"}
          /\ \A k \in DOMAIN calls' :
               /\ \A m \in 1..calls'[k].done : Present(GeneratorVisits(nodes[calls[k].node])[m])'
               /\ AllSupported' /\ IsChecked(use'.kind)
                    => CheckedUnder'[calls'[k].node] \in SUBSET CheckedNodes'
    BY <2>1, <2>2, <2>3, <2>4 DEF Inv, Generating
  <2> QED
    BY <2>2, <2>5, <2>6, <2>7 DEF Generating
<1> QED
  BY <1>1, <1>2, <1>3, <1>4, <1>5, GeneratorSteps

LEMMA InvAlways == Spec => []Inv
<1>1. Init => Generating
  BY DEF Init, Generating, AddressesOfNamesAreStored
<1>2. Inv /\ [Next]_vars => Generating'
  BY GeneratingStep
<1>3. Init /\ Known /\ Settled => Inv
  BY <1>1 DEF Inv
<1>4. (Known /\ Settled)' /\ Inv /\ [Next]_vars => Inv'
  BY <1>2 DEF Inv
<1> QED
  BY <1>3, <1>4, KnownAlways, PTL DEF Spec

(* No pass reads through a null pointer unless the statement has a node    *)
(* without a type: a comparison, a subscript by a variable that is not     *)
(* initialised or by a function, a negation, or a subscript or an array    *)
(* literal where the checker does not look.                                *)
THEOREM NullPointersHaveReasons == Spec => []NullOnlyIfUntyped
<1>1. Inv => NullOnlyIfUntyped
  BY DEF Inv, Generating, UntypedNode, NullOnlyIfUntyped
<1> QED
  BY <1>1, InvAlways, PTL

(* The value generated for a node has the type the checker gave the node,  *)
(* or is the address of one that has, except below an ordering and for the *)
(* sizes of the arrays functions return.                                   *)
THEOREM GeneratedValuesAreTyped == Spec => []ValuesHaveTheirTypes
<1>1. Inv => ValuesHaveTheirTypes
  <2> SUFFICES ASSUME Inv, NEW i \in DOMAIN values, values[i] # NoValue
               PROVE  \/ Meaning[i] = Wrong
                      \/ \E j \in Under[i] : nodes[j].kind = "less"
                      \/ Lowered(values[i].type) =
                           IF nodes[i].kind = "call"
                             THEN Prototype(Meaning[i]) ELSE Lowered(Meaning[i])
    BY DEF ValuesHaveTheirTypes
  <2>1. pass = "generate"
    BY DEF Inv, Known, Filled
  <2>2. i \in Nodes
    BY <2>1 DEF Inv, Known, Filled
  <2> QED
    BY <2>1, <2>2 DEF Inv, Generating, Made
<1> QED
  BY <1>1, InvAlways, PTL

(* What each statement stores or prints: the address of the variable or    *)
(* element where a declaration or a return is given nothing but its name   *)
(* or a subscript, nothing in a local above 64 KB, the address of such a   *)
(* local wherever its name stands alone, and a value otherwise.            *)
THEOREM AddressesAreStored == Spec => []AddressesOfNamesAreStored
<1>1. Inv => AddressesOfNamesAreStored
  BY DEF Inv, Generating
<1> QED
  BY <1>1, InvAlways, PTL

(* LLVM refuses a call the checker has accepted, whose arguments are local *)
(* variables with the types of the parameters, exactly when a parameter is *)
(* an array of another size than ten or an argument is above 64 KB.        *)
THEOREM ArrayCallsAreRefused == Spec => []CallsOfArraysRefused
<1>1. Inv => CallsOfArraysRefused
  <2> DEFINE Refusable ==
        \E k \in DOMAIN Parameters(Root) :
          ~ Sized(Parameters(Root)[k]) \/ OnHeap(Tail(nodes[Root].children)[k])
  <2> SUFFICES ASSUME Inv, outcome \in {"generated", "malformed"}, Fits(Root)
               PROVE  (outcome = "malformed") = Refusable
    BY DEF CallsOfArraysRefused, Fits, Parameters
  <2>1. Refusable <=> ~ Passable(Root)
    BY DEF Passable
  <2>2. outcome = "malformed" => ~ Passable(Root)
    BY DEF Inv, Generating
  <2>3. outcome = "generated" => Passable(Root)
    <3> SUFFICES ASSUME outcome = "generated" PROVE Passable(Root)
      OBVIOUS
    <3>1. pass = "generate" /\ calls = <<>>
      BY DEF Inv, Generating
    <3>2. Root \in Nodes
      BY <3>1 DEF Inv, Known, Filled
    <3>3. Present(Root) /\ (values[Root] = NoValue \/ Made(Root, values[Root]))
      BY <3>1, <3>2 DEF Inv, Generating
    <3>4. values[Root] # NoValue
      BY <3>3 DEF Present, Fits
    <3> QED
      BY <3>3, <3>4 DEF Made
  <2> QED
    BY <2>1, <2>2, <2>3
<1> QED
  BY <1>1, InvAlways, PTL

(* Statements whose operands are integers, with subscripts of local arrays *)
(* only where the whole of them is printed and no negation of a local, are *)
(* compiled once the checker has accepted them: the generator neither      *)
(* refuses them nor hands LLVM something it does not take.                 *)
THEOREM SupportedStatementsCompile == Spec => []SupportedIsCompiled
<1>1. Inv => SupportedIsCompiled
  BY DEF Inv, Generating, AllSupported, SupportedIsCompiled
<1> QED
  BY <1>1, InvAlways, PTL
==============================================================================
