------------------------------ MODULE LexerProofs ------------------------------
(***************************************************************************)
(* Proofs about modules Lexer, LexicalGrammar and Diagnostics, for any     *)
(* characters, any table of keywords and any sources: the tokens are       *)
(* pieces of the source, they are those the grammar has, and diagnostics   *)
(* point at them.                                                          *)
(***************************************************************************)
EXTENDS LexicalGrammar, SequenceTheorems, FiniteSetTheorems, NaturalsInduction,
        WellFoundedInduction, TLAPS

TokenRecords == [type : Types, value : Values, from : Nat, to : Nat]

(* The part of TypeOK about the tokens: ordered pieces below a position.   *)
Ordered(sequence, limit) ==
  /\ sequence \in Seq(TokenRecords)
  /\ \A k \in DOMAIN sequence :
       /\ (sequence[k].from = sequence[k].to) = (sequence[k].type = "END_OF_FILE")
       /\ sequence[k].from <= sequence[k].to
       /\ sequence[k].to <= limit
       /\ k > 1 => sequence[k - 1].to <= sequence[k].from
Unended(sequence) == \A k \in DOMAIN sequence : sequence[k].type # "END_OF_FILE"

Modes == {"start", "string", "escape", "number", "float", "word", "operator", "done"}
AtWork == mode \notin {"start", "done"}

(* TypeOK, with the last token replaced by all: only the last one ends the *)
(* file.                                                                   *)
IInv ==
  /\ read \in Seq(Characters)
  /\ ahead \in Characters \cup {End}
  /\ mode \in Modes
  /\ begin \in 0..pos
  /\ AtWork => begin < pos
  /\ literal \in Values
  /\ Ordered(tokens, IF AtWork THEN begin ELSE pos)
  /\ IF mode = "done" THEN tokens # <<>> /\ tokens[Len(tokens)].type = "END_OF_FILE"
     ELSE Unended(tokens)

LEMMA Implied == IInv => TypeOK
<1> SUFFICES ASSUME IInv PROVE TypeOK
  OBVIOUS
<1>1. (mode = "done") = (tokens # <<>> /\ tokens[Len(tokens)].type = "END_OF_FILE")
  <2>1. CASE mode = "done"
    BY <2>1 DEF IInv
  <2>2. CASE mode # "done"
    <3>1. tokens # <<>> => Len(tokens) \in DOMAIN tokens
      BY DEF IInv, Ordered
    <3> QED  BY <2>2, <3>1 DEF IInv, Unended
  <2> QED  BY <2>1, <2>2
<1> QED  BY <1>1 DEF IInv, TypeOK, Ordered, Modes, AtWork, TokenRecords

LEMMA InitIInv == Init => IInv
  BY CharactersAssumption
  DEF Init, IInv, Follow, pos, AtWork, Modes, Ordered, Unended, Values

(***************************************************************************)
(* Reading a character, and adding a token.                                *)
(***************************************************************************)
LEMMA Reads ==
  ASSUME IInv, NEW S, End \notin S, get(S)
  PROVE  /\ ahead \in Characters /\ ahead \in S
         /\ read' \in Seq(Characters) /\ ahead' \in Characters \cup {End}
         /\ pos' = pos + 1 /\ pos \in Nat
  BY DEF IInv, get, Follow, pos

LEMMA Peeks ==
  ASSUME IInv, peek
  PROVE  /\ read' \in Seq(Characters) /\ ahead' \in Characters \cup {End}
         /\ pos' = pos /\ pos \in Nat
  BY DEF IInv, peek, pos

LEMMA Moves ==
  ASSUME NEW sequence, NEW low \in Nat, NEW high \in Nat, low <= high, Ordered(sequence, low)
  PROVE  Ordered(sequence, high)
<1> SUFFICES ASSUME NEW k \in DOMAIN sequence PROVE sequence[k].to <= high
  BY DEF Ordered
<1>1. sequence[k] \in TokenRecords /\ sequence[k].to <= low
  BY DEF Ordered
<1>2. sequence[k].to \in Nat
  BY <1>1 DEF TokenRecords
<1> QED  BY <1>1, <1>2

LEMMA Adds ==
  ASSUME NEW sequence, NEW low \in Nat, NEW high \in Nat,
         Ordered(sequence, low),
         NEW token \in TokenRecords, low <= token.from, token.from <= token.to,
         token.to <= high,
         (token.from = token.to) = (token.type = "END_OF_FILE")
  PROVE  Ordered(Append(sequence, token), high)
<1> DEFINE longer == Append(sequence, token)
<1>1. sequence \in Seq(TokenRecords)
  BY DEF Ordered
<1>2. /\ longer \in Seq(TokenRecords)
      /\ Len(longer) = Len(sequence) + 1
      /\ longer[Len(sequence) + 1] = token
      /\ \A k \in 1..Len(sequence) : longer[k] = sequence[k] /\ sequence[k] \in TokenRecords
  BY <1>1
<1>3. DOMAIN longer = 1..(Len(sequence) + 1) /\ DOMAIN sequence = 1..Len(sequence)
  BY <1>1, <1>2
<1> HIDE DEF longer
<1>4. ASSUME NEW k \in DOMAIN longer
      PROVE  /\ (longer[k].from = longer[k].to) = (longer[k].type = "END_OF_FILE")
             /\ longer[k].from <= longer[k].to
             /\ longer[k].to <= high
             /\ k > 1 => longer[k - 1].to <= longer[k].from
  <2>1. CASE k \in DOMAIN sequence
    <3>1. longer[k] = sequence[k] /\ sequence[k] \in TokenRecords
      BY <1>2, <1>3, <2>1
    <3>2. k > 1 => longer[k - 1] = sequence[k - 1]
      BY <1>2, <1>3, <2>1, <1>1
    <3>3. sequence[k].to <= low /\ sequence[k].from <= sequence[k].to
      BY <2>1 DEF Ordered
    <3>4. low <= high
      BY DEF TokenRecords
    <3> QED  BY <2>1, <3>1, <3>2, <3>3, <3>4 DEF Ordered, TokenRecords
  <2>2. CASE k = Len(sequence) + 1
    <3>1. longer[k] = token
      BY <1>2, <2>2
    <3>2. k > 1 => longer[k - 1].to <= token.from
      <4> SUFFICES ASSUME k > 1 PROVE longer[k - 1].to <= token.from
        OBVIOUS
      <4>1. k - 1 \in 1..Len(sequence) /\ longer[k - 1] = sequence[k - 1]
        BY <1>1, <1>2, <2>2
      <4>2. sequence[k - 1].to <= low /\ sequence[k - 1] \in TokenRecords
        BY <1>2, <1>3, <4>1 DEF Ordered
      <4> QED  BY <4>1, <4>2 DEF TokenRecords
    <3> QED  BY <3>1, <3>2
  <2> QED  BY <1>1, <1>3, <2>1, <2>2
<1> QED  BY <1>2, <1>4 DEF Ordered, longer

LEMMA StaysUnended ==
  ASSUME NEW sequence \in Seq(TokenRecords), NEW token, Unended(sequence),
         token.type # "END_OF_FILE", token \in TokenRecords
  PROVE  Unended(Append(sequence, token))
  BY DEF Unended

(* The end of a token: the scanner starts anew behind it. *)
LEMMA Ends ==
  ASSUME IInv, AtWork, mode' = "start", begin' = begin, literal' \in Values,
         read' \in Seq(Characters), ahead' \in Characters \cup {End},
         pos' \in Nat, pos <= pos',
         NEW type \in Types, type # "END_OF_FILE",
         NEW value \in Values, NEW to \in Nat, begin < to, to <= pos',
         Push(type, value, to)
  PROVE  IInv'
<1>1. begin \in Nat /\ pos \in Nat /\ begin <= pos
  BY DEF IInv, pos
<1> DEFINE token == Token(type, value, begin, to)
<1>2. /\ token \in TokenRecords /\ token.type = type
      /\ token.from = begin /\ token.to = to
  BY <1>1 DEF Token, TokenRecords
<1>3. tokens' = Append(tokens, token)
  BY DEF Push
<1>4. Ordered(tokens, begin) /\ Unended(tokens) /\ tokens \in Seq(TokenRecords)
  BY DEF IInv, AtWork, Ordered
<1> HIDE DEF token
<1>5. Ordered(tokens', pos')
  BY <1>1, <1>2, <1>3, <1>4, Adds
<1>6. Unended(tokens')
  BY <1>2, <1>3, <1>4, StaysUnended
<1>7. begin' \in 0..pos'
  BY <1>1
<1> QED  BY <1>5, <1>6, <1>7 DEF IInv, AtWork, Modes, pos

(* A character inside a token, which leaves the tokens alone. *)
LEMMA Inside ==
  ASSUME IInv, AtWork, mode' \in Modes, AtWork', begin' = begin, tokens' = tokens,
         literal' \in Values,
         read' \in Seq(Characters), ahead' \in Characters \cup {End},
         pos' \in Nat, pos <= pos'
  PROVE  IInv'
<1>1. begin \in Nat /\ pos \in Nat /\ begin < pos
  BY DEF IInv, pos
<1>2. begin' \in 0..pos' /\ begin' < pos'
  BY <1>1
<1> QED  BY <1>2 DEF IInv, AtWork, pos, Ordered, Unended

(***************************************************************************)
(* One lemma for each group of steps.                                      *)
(***************************************************************************)
LEMMA Separators ==
  /\ End \notin Spaces /\ End \notin Digits /\ End # Quote /\ End # Backslash
  /\ End \notin Letters
  BY CharactersAssumption DEF End, Blank, Spaces, Digits, Quote, Backslash

LEMMA SkipStep == IInv /\ SkipSpace => IInv'
<1> SUFFICES ASSUME IInv, SkipSpace PROVE IInv'
  OBVIOUS
<1>1. /\ read' \in Seq(Characters) /\ ahead' \in Characters \cup {End}
      /\ pos' = pos + 1 /\ pos \in Nat
  BY Reads, Separators DEF SkipSpace
<1>2. Ordered(tokens, pos) /\ Unended(tokens)
  BY DEF IInv, SkipSpace, AtWork
<1>3. Ordered(tokens, pos')
  BY <1>1, <1>2, Moves
<1> QED  BY <1>1, <1>2, <1>3 DEF IInv, SkipSpace, AtWork, Modes, Unended, Ordered, pos

LEMMA BeginStep ==
  ASSUME IInv, NEW kind \in Modes \ {"start", "done"}, NEW S, End \notin S, Begins(kind, S)
  PROVE  IInv'
<1>1. /\ read' \in Seq(Characters) /\ ahead' \in Characters \cup {End}
      /\ pos' = pos + 1 /\ pos \in Nat
  BY Reads DEF Begins
<1>2. Ordered(tokens, pos) /\ Unended(tokens) /\ tokens' = tokens /\ begin' = pos
  BY DEF IInv, Begins, AtWork
<1>3. begin' \in 0..pos' /\ begin' < pos'
  BY <1>1, <1>2
<1>4. literal' \in Values /\ mode' = kind
  BY DEF Begins, Values
<1> QED  BY <1>1, <1>2, <1>3, <1>4 DEF IInv, AtWork, Modes, pos

LEMMA StringStep ==
  IInv /\ (ReadCharacter \/ OpenEscape \/ ReadEscaped \/ EndString) => IInv'
<1> SUFFICES ASSUME IInv, ReadCharacter \/ OpenEscape \/ ReadEscaped \/ EndString PROVE IInv'
  OBVIOUS
<1>1. CASE ReadCharacter
  <2>1. /\ ahead \in Characters /\ read' \in Seq(Characters)
        /\ ahead' \in Characters \cup {End} /\ pos' = pos + 1 /\ pos \in Nat
    BY <1>1, Reads, CharactersAssumption DEF ReadCharacter
  <2>2. literal' \in Values
    BY <1>1, <2>1 DEF ReadCharacter, IInv, Values
  <2> QED  BY <1>1, <2>1, <2>2, Inside DEF ReadCharacter, AtWork, Modes
<1>2. CASE OpenEscape
  <2>1. /\ read' \in Seq(Characters)
        /\ ahead' \in Characters \cup {End} /\ pos' = pos + 1 /\ pos \in Nat
    BY <1>2, Reads, Separators DEF OpenEscape
  <2>2. literal' \in Values
    BY <1>2 DEF OpenEscape, IInv
  <2> QED  BY <1>2, <2>1, <2>2, Inside DEF OpenEscape, AtWork, Modes
<1>3. CASE ReadEscaped
  <2>1. /\ read' \in Seq(Characters)
        /\ ahead' \in Characters \cup {End} /\ pos' \in Nat /\ pos <= pos'
    BY <1>3, Reads, Peeks, CharactersAssumption DEF ReadEscaped
  <2>2. Unescaped(ahead) \in Characters \cup {"\n", "\t", Nul}
    BY DEF IInv, Unescaped
  <2>3. literal' \in Values
    BY <1>3, <2>2 DEF ReadEscaped, IInv, Values
  <2> QED  BY <1>3, <2>1, <2>3, Inside DEF ReadEscaped, AtWork, Modes
<1>4. CASE EndString
  <2>1. pos \in Nat /\ begin \in Nat /\ begin < pos
    BY <1>4 DEF EndString, IInv, AtWork, pos
  <2>2. literal' \in Values /\ literal \in Values
    BY <1>4 DEF EndString, IInv, Values
  <2>3. {"STRING", "UNKNOWN"} \subseteq Types
    BY DEF Types
  <2>4. CASE get({Quote}) /\ Push("STRING", literal, pos + 1)
    <3>1. /\ read' \in Seq(Characters)
          /\ ahead' \in Characters \cup {End} /\ pos' = pos + 1
      BY <2>4, Reads, Separators
    <3> QED  BY <1>4, <2>1, <2>2, <2>3, <2>4, <3>1, Ends DEF EndString, AtWork
  <2>5. CASE peek /\ Push("UNKNOWN", literal, pos)
    <3>1. /\ read' \in Seq(Characters)
          /\ ahead' \in Characters \cup {End} /\ pos' = pos
      BY <2>5, Peeks
    <3> QED  BY <1>4, <2>1, <2>2, <2>3, <2>5, <3>1, Ends DEF EndString, AtWork
  <2> QED  BY <1>4, <2>4, <2>5 DEF EndString
<1> QED  BY <1>1, <1>2, <1>3, <1>4

(* The text of a token is made of characters. *)
LEMMA TextType == IInv => Text \in Values
<1> SUFFICES ASSUME IInv PROVE Text \in Values
  OBVIOUS
<1>1. begin + 1 \in 1..(Len(read) + 1) /\ Len(read) \in Nat /\ read \in Seq(Characters)
  BY DEF IInv, pos
<1>2. \A i \in (begin + 1)..Len(read) : read[i] \in Characters
  BY <1>1
<1>3. Text \in Seq(Characters)
  BY <1>1, <1>2 DEF Text, pos
<1> QED  BY <1>3 DEF Values

(* The steps that end a token without reading. *)
LEMMA EndStep ==
  ASSUME IInv, AtWork, peek, mode' = "start", UNCHANGED <<begin, literal>>,
         NEW type \in Types, type # "END_OF_FILE", Push(type, Text, pos)
  PROVE  IInv'
<1>1. /\ read' \in Seq(Characters)
      /\ ahead' \in Characters \cup {End} /\ pos' = pos /\ pos \in Nat
  BY Peeks
<1>2. begin \in Nat /\ begin < pos /\ literal \in Values
  BY <1>1 DEF IInv
<1>3. Text \in Values
  BY TextType
<1> QED  BY <1>1, <1>2, <1>3, Ends

LEMMA NumberStep == IInv /\ (ReadNumber \/ EndNumber) => IInv'
<1> SUFFICES ASSUME IInv, ReadNumber \/ EndNumber PROVE IInv'
  OBVIOUS
<1>1. CASE ReadNumber
  <2> DEFINE S == Digits \cup IF mode = "number" THEN {"."} ELSE {}
  <2>1. End \notin S
    BY DEF End, Digits
  <2>2. get(S)
    BY <1>1 DEF ReadNumber
  <2>3. /\ read' \in Seq(Characters)
        /\ ahead' \in Characters \cup {End} /\ pos' = pos + 1 /\ pos \in Nat
    BY <2>1, <2>2, Reads
  <2>4. mode' \in {"number", "float"} /\ literal' \in Values
    BY <1>1 DEF ReadNumber, IInv
  <2> QED  BY <1>1, <2>3, <2>4, Inside DEF ReadNumber, AtWork, Modes
<1>2. CASE EndNumber
  <2>1. {"NUMBER", "NUMBER_FLOAT"} \subseteq Types
    BY DEF Types
  <2> QED  BY <1>2, <2>1, EndStep DEF EndNumber, AtWork
<1> QED  BY <1>1, <1>2

LEMMA WordStep == IInv /\ (ReadWord \/ EndWord) => IInv'
<1> SUFFICES ASSUME IInv, ReadWord \/ EndWord PROVE IInv'
  OBVIOUS
<1>1. CASE ReadWord
  <2>1. End \notin Letters \cup Digits
    BY Separators
  <2>2. /\ read' \in Seq(Characters)
        /\ ahead' \in Characters \cup {End} /\ pos' = pos + 1 /\ pos \in Nat
    BY <1>1, <2>1, Reads DEF ReadWord
  <2> QED  BY <1>1, <2>2, Inside DEF ReadWord, AtWork, Modes, IInv
<1>2. CASE EndWord
  <2> DEFINE type == IF Text \in DOMAIN keywords THEN keywords[Text] ELSE "IDENTIFIER"
  <2>1. type \in Types /\ type # "END_OF_FILE"
    BY CharactersAssumption DEF Types
  <2>2. Push(type, Text, pos)
    BY <1>2 DEF EndWord
  <2> QED  BY <1>2, <2>1, <2>2, EndStep DEF EndWord, AtWork
<1> QED  BY <1>1, <1>2

LEMMA OperatorStep == IInv /\ (ReadOperator \/ EndOperator) => IInv'
<1> SUFFICES ASSUME IInv, ReadOperator \/ EndOperator PROVE IInv'
  OBVIOUS
<1>1. CASE ReadOperator
  <2> DEFINE S == {c \in Characters : Continues(Append(Text, c))}
  <2>1. End \notin S
    BY CharactersAssumption
  <2>2. get(S)
    BY <1>1 DEF ReadOperator
  <2>3. /\ read' \in Seq(Characters)
        /\ ahead' \in Characters \cup {End} /\ pos' = pos + 1 /\ pos \in Nat
    BY <2>1, <2>2, Reads
  <2> QED  BY <1>1, <2>3, Inside DEF ReadOperator, AtWork, Modes, IInv
<1>2. CASE EndOperator
  <2>1. AtWork /\ peek /\ mode' = "start" /\ UNCHANGED <<begin, literal>>
    BY <1>2 DEF EndOperator, AtWork
  <2>2. CASE Text \notin Dropped
    <3> DEFINE type == IF Text \in Operators THEN OperatorType[Text] ELSE "UNKNOWN"
    <3>1. type \in Types /\ type # "END_OF_FILE"
      BY CharactersAssumption DEF Types, End
    <3>2. Push(type, Text, pos)
      BY <1>2, <2>2 DEF EndOperator
    <3> QED  BY <2>1, <3>1, <3>2, EndStep
  <2>3. CASE Text \in Dropped
    <3>1. tokens' = tokens
      BY <1>2, <2>3 DEF EndOperator
    <3>2. /\ read' \in Seq(Characters)
          /\ ahead' \in Characters \cup {End} /\ pos' = pos /\ pos \in Nat
      BY <2>1, Peeks
    <3>3. begin \in Nat /\ begin < pos /\ literal \in Values /\ begin' = begin
      BY <2>1, <3>2 DEF IInv
    <3>4. Ordered(tokens, begin) /\ Unended(tokens)
      BY <2>1 DEF IInv, AtWork
    <3>5. Ordered(tokens', pos')
      BY <3>1, <3>2, <3>3, <3>4, Moves
    <3> QED  BY <2>1, <3>1, <3>2, <3>3, <3>4, <3>5 DEF IInv, AtWork, Modes, Unended, pos
  <2> QED  BY <2>2, <2>3
<1> QED  BY <1>1, <1>2

LEMMA FinishStep == IInv /\ Finish => IInv'
<1> SUFFICES ASSUME IInv, Finish PROVE IInv'
  OBVIOUS
<1> DEFINE token == Token("END_OF_FILE", <<>>, pos, pos)
<1>1. /\ read' \in Seq(Characters)
      /\ ahead' \in Characters \cup {End} /\ pos' = pos /\ pos \in Nat
  BY Peeks DEF Finish
<1>2. token \in TokenRecords /\ token.type = "END_OF_FILE" /\ token.from = pos /\ token.to = pos
  BY <1>1 DEF Token, TokenRecords, Types, Values
<1>3. Ordered(tokens, pos) /\ tokens \in Seq(TokenRecords)
  BY DEF IInv, Finish, AtWork, Ordered
<1>4. tokens' = Append(tokens, token)
  BY DEF Finish
<1> HIDE DEF token
<1>5. Ordered(tokens', pos')
  BY <1>1, <1>2, <1>3, <1>4, Adds
<1>6. tokens' # <<>> /\ tokens'[Len(tokens')] = token
  BY <1>3, <1>4, <1>2
<1> QED  BY <1>1, <1>2, <1>5, <1>6 DEF IInv, Finish, AtWork, Modes, pos

LEMMA NextIInv == IInv /\ [Next]_vars => IInv'
<1> SUFFICES ASSUME IInv, [Next]_vars PROVE IInv'
  OBVIOUS
<1>1. CASE OpenString \/ BeginNumber \/ BeginWord \/ BeginOperator
  <2>1. {"string", "number", "word", "operator"} \subseteq Modes \ {"start", "done"}
    BY DEF Modes
  <2>2. End \notin Characters \ (Spaces \cup {Quote} \cup Digits \cup Letters)
    BY CharactersAssumption
  <2> QED  BY <1>1, <2>1, <2>2, Separators, BeginStep
           DEF OpenString, BeginNumber, BeginWord, BeginOperator
<1>2. CASE UNCHANGED vars
  BY <1>2 DEF vars, IInv, AtWork, Ordered, Unended, pos
<1> QED
  BY <1>1, <1>2, SkipStep, StringStep, NumberStep, WordStep, OperatorStep, FinishStep DEF Next

(* The tokens are disjoint pieces of the source in its order, none of them *)
(* empty but the end of file, which is the last one and there when the     *)
(* scan is over: for any source and any dialect.                           *)
THEOREM TypeCorrect == Spec => []TypeOK
<1>1. Spec => []IInv
  BY InitIInv, NextIInv, PTL DEF Spec
<1> QED  BY <1>1, Implied, PTL

(***************************************************************************)
(* Least elements, sequences, and what FlattenSeq makes of them.           *)
(***************************************************************************)
LEMMA Least ==
  ASSUME NEW S \in SUBSET Nat, S # {}
  PROVE  \E m \in S : \A k \in S : m <= k
<1> DEFINE less == {p \in Nat \X Nat : p[1] < p[2]}
<1>1. IsWellFoundedOn(less, Nat)
  BY NatLessThanWellFounded, Zenon DEF OpToRel
<1>2. PICK m \in S : \A k \in S : <<k, m>> \notin less
  <2> HIDE DEF less
  <2> QED  BY <1>1, WFMin
<1>3. ASSUME NEW k \in S PROVE m <= k
  <2>1. k \in Nat /\ m \in Nat
    OBVIOUS
  <2>2. <<k, m>> \notin less
    BY <1>2
  <2>3. ~ (k < m)
    BY <2>1, <2>2
  <2> QED  BY <2>1, <2>3
<1> QED  BY <1>3

LEMMA Elements ==
  ASSUME NEW S, NEW s \in Seq(S)
  PROVE  /\ Len(s) \in Nat /\ DOMAIN s = 1..Len(s)
         /\ \A k \in 1..Len(s) : s[k] \in S
<1> QED  BY LenProperties, ElementOfSeq

LEMMA Made ==
  ASSUME NEW S, NEW n \in Nat, NEW s, s = [k \in 1..n |-> s[k]], \A k \in 1..n : s[k] \in S
  PROVE  s \in Seq(S) /\ Len(s) = n
<1>1. s \in [1..n -> S]
  BY Zenon
<1>2. s \in Seq(S)
  BY <1>1, SeqDef
<1>3. DOMAIN s = 1..n
  BY Zenon
<1> QED  BY <1>2, <1>3, LenProperties

(* Flats are the prefixes of what FlattenSeq joins.                        *)
Flats(f, s, n) == f = [i \in 1..n |-> IF i = 1 THEN s[i] ELSE f[i - 1] \o s[i]]

LEMMA FlatsAt ==
  ASSUME NEW f, NEW s, NEW n, Flats(f, s, n), NEW i \in 1..n
  PROVE  f[i] = IF i = 1 THEN s[i] ELSE f[i - 1] \o s[i]
  BY DEF Flats

LEMMA FlatsExist ==
  ASSUME NEW s, NEW n \in Nat
  PROVE  \E f : Flats(f, s, n)
<1> DEFINE bad == {m \in Nat : ~ \E f : Flats(f, s, m)}
<1> SUFFICES ASSUME bad # {} PROVE FALSE
  OBVIOUS
<1>1. PICK m \in bad : \A k \in bad : m <= k
  <2>1. bad \in SUBSET Nat
    OBVIOUS
  <2> HIDE DEF bad
  <2> QED  BY <2>1, Least
<1>2. CASE m = 0
  <2>1. Flats([i \in 1..0 |-> 0], s, 0)
    BY DEF Flats
  <2> QED  BY <1>1, <1>2, <2>1
<1>3. CASE m # 0
  <2>1. m \in Nat /\ m - 1 \in Nat /\ ~ (m <= m - 1)
    BY <1>1, <1>3
  <2>2. PICK f : Flats(f, s, m - 1)
    BY <1>1, <2>1
  <2> DEFINE h == [i \in 1..m |-> IF i = m THEN IF i = 1 THEN s[i] ELSE f[i - 1] \o s[i] ELSE f[i]]
  <2>3. ASSUME NEW i \in 1..m PROVE h[i] = IF i = 1 THEN s[i] ELSE h[i - 1] \o s[i]
    <3>1. CASE i = m
      <4>1. i # 1 => i - 1 \in 1..m /\ i - 1 # m
        BY <2>1, <3>1
      <4> QED  BY <3>1, <4>1
    <3>2. CASE i # m
      <4>1. i \in 1..(m - 1) /\ (i # 1 => i - 1 \in 1..m /\ i - 1 # m)
        BY <2>1, <3>2
      <4>2. f[i] = IF i = 1 THEN s[i] ELSE f[i - 1] \o s[i]
        BY <2>2, <4>1 DEF Flats
      <4> QED  BY <3>2, <4>1, <4>2
    <3> QED  BY <3>1, <3>2
  <2>4. h = [i \in 1..m |-> h[i]]
    OBVIOUS
  <2> HIDE DEF h
  <2>5. Flats(h, s, m)
    BY <2>3, <2>4, Zenon DEF Flats
  <2> QED  BY <1>1, <2>5
<1> QED  BY <1>2, <1>3

LEMMA Flattens ==
  ASSUME NEW S, NEW s \in Seq(S)
  PROVE  \E f : Flats(f, s, Len(s)) /\ FlattenSeq(s) = IF Len(s) = 0 THEN s ELSE f[Len(s)]
<1> DEFINE f == CHOOSE f : Flats(f, s, Len(s))
<1>1. Flats(f, s, Len(s))
  <2>1. Len(s) \in Nat
    BY Elements
  <2> QED  BY <2>1, FlatsExist
<1>2. FlattenSeq(s) = IF Len(s) = 0 THEN s ELSE f[Len(s)]
  BY DEF FlattenSeq, Flats
<1> HIDE DEF f
<1> QED  BY <1>1, <1>2

LEMMA FlatsAgree ==
  ASSUME NEW s, NEW t, NEW f, NEW g, NEW n, NEW m, Flats(f, s, n), Flats(g, t, m),
         n \in Nat, m \in Nat, n <= m, \A k \in 1..n : s[k] = t[k]
  PROVE  \A k \in 1..n : f[k] = g[k]
<1> DEFINE bad == {k \in 1..n : f[k] # g[k]}
<1> SUFFICES ASSUME bad # {} PROVE FALSE
  OBVIOUS
<1>1. PICK k \in bad : \A j \in bad : k <= j
  <2>1. bad \in SUBSET Nat
    OBVIOUS
  <2> HIDE DEF bad
  <2> QED  BY <2>1, Least
<1>2. k \in 1..n /\ k \in 1..m /\ s[k] = t[k] /\ f[k] # g[k]
  BY <1>1
<1>3. /\ f[k] = IF k = 1 THEN s[k] ELSE f[k - 1] \o s[k]
      /\ g[k] = IF k = 1 THEN t[k] ELSE g[k - 1] \o t[k]
  BY <1>2 DEF Flats
<1>4. CASE k = 1
  BY <1>2, <1>3, <1>4
<1>5. CASE k # 1
  <2>1. k - 1 \in 1..n /\ ~ (k <= k - 1)
    BY <1>2, <1>5
  <2>2. f[k - 1] = g[k - 1]
    BY <1>1, <2>1
  <2> QED  BY <1>2, <1>3, <1>5, <2>2
<1> QED  BY <1>4, <1>5

LEMMA FlattenEmpty == FlattenSeq(<<>>) = <<>>
<1>1. <<>> \in Seq({}) /\ Len(<<>>) = 0
  OBVIOUS
<1> QED  BY <1>1, Flattens

LEMMA FlattenAppend ==
  ASSUME NEW S, NEW s \in Seq(Seq(S)), NEW t \in Seq(Seq(S)), NEW x \in Seq(S),
         Len(t) = Len(s) + 1, \A k \in 1..Len(s) : t[k] = s[k], t[Len(s) + 1] = x
  PROVE  FlattenSeq(t) = FlattenSeq(s) \o x
<1> DEFINE n == Len(s)
           m == Len(t)
<1>1. n \in Nat /\ m = n + 1 /\ (n = 0 => s = <<>>)
  BY Elements, EmptySeq
<1>2. PICK f : Flats(f, s, n) /\ FlattenSeq(s) = IF n = 0 THEN s ELSE f[n]
  BY Flattens
<1>3. PICK g : Flats(g, t, m) /\ FlattenSeq(t) = IF m = 0 THEN t ELSE g[m]
  BY Flattens
<1>4. t[m] = x /\ \A k \in 1..n : s[k] = t[k]
  OBVIOUS
<1> HIDE DEF n, m
<1>5. m \in Nat /\ m # 0 /\ m \in 1..m /\ n <= m /\ m - 1 = n /\ (m = 1 <=> n = 0)
  BY <1>1
<1>6. g[m] = IF m = 1 THEN t[m] ELSE g[m - 1] \o t[m]
  <2>1. Flats(g, t, m) /\ m \in 1..m
    BY <1>3, <1>5
  <2>2. \A i \in 1..m : g[i] = IF i = 1 THEN t[i] ELSE g[i - 1] \o t[i]
    BY <2>1, FlatsAt
  <2> QED  BY <2>1, <2>2
<1>7. \A k \in 1..n : f[k] = g[k]
  <2>1. n \in Nat /\ m \in Nat /\ n <= m
    BY <1>1, <1>5
  <2>2. Flats(f, s, n)
    BY <1>2
  <2>3. Flats(g, t, m)
    BY <1>3
  <2>4. \A k \in 1..n : s[k] = t[k]
    BY <1>4
  <2>5. \A p, q \in Nat :
          /\ p <= q /\ Flats(f, s, p) /\ Flats(g, t, q)
          /\ \A k \in 1..p : s[k] = t[k]
          => \A k \in 1..p : f[k] = g[k]
    BY FlatsAgree
  <2> QED  BY <2>1, <2>2, <2>3, <2>4, <2>5
<1>8. CASE n = 0
  <2>1. g[m] = x
    BY <1>4, <1>5, <1>6, <1>8
  <2>2. FlattenSeq(s) = <<>>
    BY <1>1, <1>2, <1>8
  <2>3. <<>> \o x = x
    BY ConcatEmptySeq
  <2> QED  BY <1>3, <1>5, <2>1, <2>2, <2>3
<1>9. CASE n # 0
  <2>1. n \in 1..n
    BY <1>1, <1>9
  <2> QED  BY <1>2, <1>3, <1>4, <1>5, <1>6, <1>7, <1>9, <2>1
<1> QED  BY <1>8, <1>9

(***************************************************************************)
(* Hidden characters, and the characters a string stands for.              *)
(***************************************************************************)
LEMMA HiddenNext ==
  ASSUME NEW w, NEW i \in Nat, NEW k \in Nat, i < k
  PROVE  /\ ~Hidden(w, i, i + 1)
         /\ Hidden(w, i, k + 1) <=> w[k] = Backslash /\ ~Hidden(w, i, k)
<1> DEFINE Starts(f, n) == /\ \A b \in f..(n - 1) : w[b] = Backslash
                           /\ f = i + 1 \/ w[f - 1] # Backslash
<1>0. \A n \in Nat : (n + 1) % 2 = 1 <=> ~ (n % 2 = 1)
  OBVIOUS
<1>1. ~Hidden(w, i, i + 1)
  <2> SUFFICES ASSUME NEW f \in (i + 1)..(i + 1), (i + 1 - f) % 2 = 1 PROVE FALSE
    BY DEF Hidden
  <2>1. i + 1 - f = 0
    OBVIOUS
  <2> QED  BY <2>1
<1>2. ASSUME Hidden(w, i, k + 1) PROVE w[k] = Backslash /\ ~Hidden(w, i, k)
  <2>1. PICK f \in (i + 1)..(k + 1) : Starts(f, k + 1) /\ (k + 1 - f) % 2 = 1
    BY <1>2 DEF Hidden
  <2>2. f # k + 1
    <3> SUFFICES ASSUME f = k + 1 PROVE FALSE
      OBVIOUS
    <3>1. k + 1 - f = 0
      OBVIOUS
    <3> QED  BY <2>1, <3>1
  <2>3. f \in (i + 1)..k /\ k \in f..(k + 1 - 1)
    BY <2>2
  <2>4. w[k] = Backslash
    BY <2>1, <2>3
  <2>5. ASSUME Hidden(w, i, k) PROVE FALSE
    <3>1. PICK g \in (i + 1)..k : Starts(g, k) /\ (k - g) % 2 = 1
      BY <2>5 DEF Hidden
    <3>2. CASE f < g
      <4>1. g - 1 \in f..(k + 1 - 1) /\ g # i + 1
        BY <2>3, <3>2
      <4> QED  BY <2>1, <3>1, <4>1
    <3>3. CASE g < f
      <4>1. f - 1 \in g..(k - 1) /\ f # i + 1
        BY <2>3, <3>3
      <4> QED  BY <2>1, <3>1, <4>1
    <3>4. CASE f = g
      <4>1. k - f \in Nat /\ k + 1 - f = (k - f) + 1
        BY <2>3
      <4> QED  BY <1>0, <2>1, <3>1, <3>4, <4>1
    <3> QED  BY <3>2, <3>3, <3>4
  <2> QED  BY <2>4, <2>5
<1>3. ASSUME w[k] = Backslash, ~Hidden(w, i, k) PROVE Hidden(w, i, k + 1)
  <2> DEFINE runs == {f \in (i + 1)..k : \A b \in f..(k - 1) : w[b] = Backslash}
  <2>1. k \in runs /\ runs \in SUBSET Nat
    OBVIOUS
  <2>2. PICK f \in runs : \A g \in runs : f <= g
    <3> HIDE DEF runs
    <3> QED  BY <2>1, Least
  <2>3. f = i + 1 \/ w[f - 1] # Backslash
    <3> SUFFICES ASSUME f # i + 1, w[f - 1] = Backslash PROVE FALSE
      OBVIOUS
    <3>1. f - 1 \in (i + 1)..k /\ ~ (f <= f - 1)
      BY <2>2
    <3>2. ASSUME NEW b \in (f - 1)..(k - 1) PROVE w[b] = Backslash
      <4>1. b = f - 1 \/ b \in f..(k - 1)
        BY <2>2
      <4> QED  BY <2>2, <4>1
    <3> QED  BY <2>2, <3>1, <3>2
  <2>4. Starts(f, k)
    BY <2>2, <2>3
  <2>5. f \in (i + 1)..k /\ f \in (i + 1)..(k + 1) /\ k - f \in Nat /\ k + 1 - f = (k - f) + 1
    BY <2>2
  <2>6. ~ ((k - f) % 2 = 1)
    BY <1>3, <2>4, <2>5 DEF Hidden
  <2>7. (k + 1 - f) % 2 = 1
    BY <1>0, <2>5, <2>6
  <2>8. ASSUME NEW b \in f..(k + 1 - 1) PROVE w[b] = Backslash
    <3>1. b = k \/ b \in f..(k - 1)
      BY <2>5
    <3> QED  BY <1>3, <2>4, <3>1
  <2> QED  BY <2>3, <2>5, <2>7, <2>8 DEF Hidden
<1> QED  BY <1>1, <1>2, <1>3

Signs == Characters \cup {"\n", "\t", Nul}
Chars(w, i, j) == FlattenSeq([k \in 1..(j - i) |-> Character(w, i, i + k)])

LEMMA CharacterType ==
  ASSUME NEW w \in Seq(Characters), NEW i, NEW k \in 1..Len(w)
  PROVE  Character(w, i, k) \in Seq(Signs)
<1>1. w[k] \in Characters
  BY Elements
<1>2. w[k] \in Signs /\ Unescaped(w[k]) \in Signs
  BY <1>1 DEF Signs, Unescaped
<1> QED  BY <1>2 DEF Character

LEMMA CharsNext ==
  ASSUME NEW w \in Seq(Characters), NEW i \in Nat, NEW j \in Nat, i <= j, j < Len(w)
  PROVE  /\ Chars(w, i, i) = <<>>
         /\ Chars(w, i, j + 1) = Chars(w, i, j) \o Character(w, i, j + 1)
<1> DEFINE s == [k \in 1..(j - i) |-> Character(w, i, i + k)]
           t == [k \in 1..(j + 1 - i) |-> Character(w, i, i + k)]
           x == Character(w, i, j + 1)
<1>0. Len(w) \in Nat
  BY Elements
<1>1. Chars(w, i, i) = <<>>
  <2>1. [k \in 1..(i - i) |-> Character(w, i, i + k)] = <<>>
    OBVIOUS
  <2> QED  BY <2>1, FlattenEmpty DEF Chars
<1>2. \A k \in 1..(j + 1 - i) : Character(w, i, i + k) \in Seq(Signs)
  <2> TAKE k \in 1..(j + 1 - i)
  <2>1. i + k \in 1..Len(w)
    BY <1>0
  <2> QED  BY <2>1, CharacterType
<1>3. s \in Seq(Seq(Signs)) /\ Len(s) = j - i
  <2>1. j - i \in Nat /\ \A k \in 1..(j - i) : k \in 1..(j + 1 - i)
    OBVIOUS
  <2>2. s = [k \in 1..(j - i) |-> s[k]] /\ \A k \in 1..(j - i) : s[k] \in Seq(Signs)
    BY <1>2, <2>1
  <2> HIDE DEF s
  <2> QED  BY <2>1, <2>2, Made
<1>4. t \in Seq(Seq(Signs)) /\ Len(t) = j + 1 - i
  <2>1. j + 1 - i \in Nat
    OBVIOUS
  <2>2. t = [k \in 1..(j + 1 - i) |-> t[k]] /\ \A k \in 1..(j + 1 - i) : t[k] \in Seq(Signs)
    BY <1>2, <2>1
  <2> HIDE DEF t
  <2> QED  BY <2>1, <2>2, Made
<1>5. x \in Seq(Signs)
  <2>1. j + 1 \in 1..Len(w)
    BY <1>0
  <2> QED  BY <2>1, CharacterType
<1>6. \A k \in 1..(j - i) : t[k] = s[k]
  <2> TAKE k \in 1..(j - i)
  <2>1. k \in 1..(j + 1 - i)
    OBVIOUS
  <2> QED  BY <2>1
<1>7. t[j - i + 1] = x
  <2>1. j - i + 1 \in 1..(j + 1 - i) /\ i + (j - i + 1) = j + 1
    OBVIOUS
  <2> QED  BY <2>1
<1>8. Chars(w, i, j) = FlattenSeq(s) /\ Chars(w, i, j + 1) = FlattenSeq(t)
  BY DEF Chars
<1> HIDE DEF s, t, x
<1>9. Len(t) = Len(s) + 1 /\ \A k \in 1..Len(s) : t[k] = s[k]
  BY <1>3, <1>4, <1>6
<1>10. t[Len(s) + 1] = x
  BY <1>3, <1>7
<1>11. FlattenSeq(t) = FlattenSeq(s) \o x
  BY <1>3, <1>4, <1>5, <1>9, <1>10, FlattenAppend
<1> QED  BY <1>1, <1>8, <1>11 DEF x

LEMMA CharsType ==
  ASSUME NEW w \in Seq(Characters), NEW i \in Nat, NEW j \in Nat, i <= j, j <= Len(w)
  PROVE  Chars(w, i, j) \in Seq(Signs)
<1> DEFINE bad == {k \in i..j : Chars(w, i, k) \notin Seq(Signs)}
<1>0. Len(w) \in Nat
  BY Elements
<1> SUFFICES ASSUME bad # {} PROVE FALSE
  OBVIOUS
<1>1. PICK k \in bad : \A m \in bad : k <= m
  <2>1. bad \in SUBSET Nat
    OBVIOUS
  <2> HIDE DEF bad
  <2> QED  BY <2>1, Least
<1>2. k \in i..j /\ Chars(w, i, k) \notin Seq(Signs)
  BY <1>1
<1>3. CASE k = i
  <2>1. CASE i < Len(w)
    <3>1. Chars(w, i, i) = <<>>
      BY <2>1, CharsNext
    <3> QED  BY <1>2, <1>3, <3>1
  <2>2. CASE ~(i < Len(w))
    <3>1. [m \in 1..(i - i) |-> Character(w, i, i + m)] = <<>>
      OBVIOUS
    <3>2. Chars(w, i, i) = <<>>
      BY <3>1, FlattenEmpty DEF Chars
    <3> QED  BY <1>2, <1>3, <3>2
  <2> QED  BY <2>1, <2>2
<1>4. CASE k # i
  <2> DEFINE m == k - 1
  <2>1. m \in i..j /\ ~(k <= m) /\ k = m + 1 /\ m < Len(w) /\ k \in 1..Len(w) /\ m \in Nat /\ i <= m
    BY <1>0, <1>2, <1>4
  <2>2. Chars(w, i, m) \in Seq(Signs)
    BY <1>1, <2>1
  <2> HIDE DEF m
  <2>3. Chars(w, i, k) = Chars(w, i, m) \o Character(w, i, k)
    BY <2>1, CharsNext
  <2>4. Character(w, i, k) \in Seq(Signs)
    BY <2>1, CharacterType
  <2> QED  BY <1>2, <2>2, <2>3, <2>4, ConcatProperties
<1> QED  BY <1>3, <1>4

(***************************************************************************)
(* The tokens from a position on.                                          *)
(***************************************************************************)
EndToken(w) == Token("END_OF_FILE", <<>>, Len(w), Len(w))
Stage(f, w, i) ==
  IF i > Len(w) THEN <<EndToken(w)>>
  ELSE IF Lexemes(w, i) = {} THEN f[i + 1]
  ELSE Lexeme(w, i, Max(Lexemes(w, i))) \o f[Max(Lexemes(w, i)) + 1]
Rest(w) == CHOOSE f : f = [i \in 1..(Len(w) + 1) |-> Stage(f, w, i)]

LEMMA LongestLexeme ==
  ASSUME NEW w, Len(w) \in Nat, NEW i \in Nat, Lexemes(w, i) # {}
  PROVE  /\ Max(Lexemes(w, i)) \in Lexemes(w, i)
         /\ \A j \in Lexemes(w, i) : j <= Max(Lexemes(w, i))
<1> DEFINE S == Lexemes(w, i)
           gaps == {Len(w) - j : j \in S}
<1>1. S \subseteq i..Len(w)
  BY DEF Lexemes
<1>2. gaps \in SUBSET Nat /\ gaps # {}
  BY <1>1
<1>3. PICK gap \in gaps : \A g \in gaps : gap <= g
  <2> HIDE DEF gaps
  <2> QED  BY <1>2, Least
<1>4. PICK j \in S : gap = Len(w) - j
  BY <1>3
<1>5. \A k \in S : j >= k
  <2> TAKE k \in S
  <2>1. Len(w) - k \in gaps
    OBVIOUS
  <2>2. Len(w) - j <= Len(w) - k /\ j \in Int /\ k \in Int
    BY <1>1, <1>3, <1>4, <2>1
  <2> QED  BY <2>2
<1> HIDE DEF S
<1>6. Max(S) \in S /\ \A k \in S : Max(S) >= k
  BY <1>5, Zenon DEF Max
<1>7. \A k \in S : k <= Max(S)
  BY <1>1, <1>6
<1> QED  BY <1>6, <1>7 DEF S

LEMMA StagesAgree ==
  ASSUME NEW w, Len(w) \in Nat, NEW i \in Nat, NEW f, NEW g,
         \A k \in (i + 1)..(Len(w) + 1) : f[k] = g[k]
  PROVE  Stage(f, w, i) = Stage(g, w, i)
<1>1. CASE i > Len(w)
  BY <1>1 DEF Stage
<1>2. CASE ~ (i > Len(w)) /\ Lexemes(w, i) = {}
  <2>1. i + 1 \in (i + 1)..(Len(w) + 1)
    BY <1>2
  <2>2. f[i + 1] = g[i + 1]
    BY <2>1
  <2> QED  BY <1>2, <2>2 DEF Stage
<1>3. CASE ~ (i > Len(w)) /\ Lexemes(w, i) # {}
  <2>1. Max(Lexemes(w, i)) \in i..Len(w)
    BY <1>3, LongestLexeme DEF Lexemes
  <2>2. Max(Lexemes(w, i)) + 1 \in (i + 1)..(Len(w) + 1)
    BY <2>1
  <2>3. f[Max(Lexemes(w, i)) + 1] = g[Max(Lexemes(w, i)) + 1]
    BY <2>2
  <2> QED  BY <1>3, <2>3 DEF Stage
<1> QED  BY <1>1, <1>2, <1>3

LEMMA RestExists ==
  ASSUME NEW w \in Seq(Characters)
  PROVE  Rest(w) = [i \in 1..(Len(w) + 1) |-> Stage(Rest(w), w, i)]
<1> DEFINE n == Len(w)
           Part(f, m) == f = [i \in (n + 1 - m)..(n + 1) |-> Stage(f, w, i)]
           bad == {m \in 0..n : ~ \E f : Part(f, m)}
<1>0. n \in Nat /\ Len(w) \in Nat
  BY Elements
<1>1. bad = {}
  <2> SUFFICES ASSUME bad # {} PROVE FALSE
    OBVIOUS
  <2>1. PICK m \in bad : \A k \in bad : m <= k
    <3>1. bad \in SUBSET Nat
      BY <1>0
    <3> HIDE DEF bad
    <3> QED  BY <3>1, Least
  <2> HIDE DEF n
  <2>2. m \in 0..n /\ ~ \E f : Part(f, m)
    BY <2>1
  <2> SUFFICES \E f : Part(f, m)
    BY <2>2
  <2>3. PICK f : m = 0 \/ Part(f, m - 1)
    <3>1. m # 0 => m - 1 \in 0..n /\ ~ (m <= m - 1)
      BY <1>0, <2>2
    <3> QED  BY <2>1, <3>1
  <2> DEFINE first == n + 1 - m
             h == [i \in first..(n + 1) |-> IF i = first THEN Stage(f, w, i) ELSE f[i]]
  <2>4. first \in Nat /\ first \in 1..(n + 1) /\ n \in Nat
    BY <1>0, <2>2
  <2>5. Len(w) = n
    BY DEF n
  <2>6. \A k \in (first + 1)..(n + 1) : h[k] = f[k]
    <3> HIDE DEF first
    <3> QED  BY <2>4
  <2>7. ASSUME NEW i \in first..(n + 1) PROVE h[i] = Stage(h, w, i)
    <3>1. i \in Nat /\ \A k \in (i + 1)..(n + 1) : k \in (first + 1)..(n + 1)
      <4> HIDE DEF first
      <4> QED  BY <2>4
    <3>2. \A k \in (i + 1)..(n + 1) : h[k] = f[k]
      <4> HIDE DEF h, first
      <4> QED  BY <2>6, <3>1
    <3>3. Stage(h, w, i) = Stage(f, w, i)
      <4> HIDE DEF h, first
      <4> QED  BY <1>0, <2>5, <3>1, <3>2, StagesAgree
    <3>4. CASE i = first
      <4>1. h[i] = Stage(f, w, i)
        BY <3>4
      <4> QED  BY <3>3, <4>1
    <3>5. CASE i # first
      <4>1. m # 0 /\ i \in (n + 1 - (m - 1))..(n + 1)
        BY <1>0, <2>2, <3>5
      <4>2. f[i] = Stage(f, w, i)
        BY <2>3, <4>1
      <4>3. h[i] = f[i]
        BY <3>5
      <4> QED  BY <3>3, <4>2, <4>3
    <3> QED  BY <3>4, <3>5
  <2>8. h = [i \in first..(n + 1) |-> h[i]]
    OBVIOUS
  <2> HIDE DEF h
  <2>9. h = [i \in first..(n + 1) |-> Stage(h, w, i)]
    BY <2>7, <2>8, Zenon
  <2> QED  BY <2>9
<1>2. PICK f : Part(f, n)
  <2>1. n \in 0..n
    BY <1>0
  <2> QED  BY <1>1, <2>1
<1>3. n + 1 - n = 1
  BY <1>0
<1> HIDE DEF n
<1>4. f = [i \in 1..(n + 1) |-> Stage(f, w, i)]
  BY <1>2, <1>3
<1>5. \E g : g = [i \in 1..(Len(w) + 1) |-> Stage(g, w, i)]
  BY <1>4 DEF n
<1> QED  BY <1>5, Zenon DEF Rest

LEMMA TokensAreRest ==
  ASSUME NEW w \in Seq(Characters)
  PROVE  /\ TokensOf(w) = Rest(w)[1]
         /\ \A i \in 1..(Len(w) + 1) : Rest(w)[i] = Stage(Rest(w), w, i)
<1>1. TokensOf(w) = Rest(w)[1]
  BY DEF TokensOf, Rest, Stage, EndToken
<1>2. Rest(w) = [i \in 1..(Len(w) + 1) |-> Stage(Rest(w), w, i)]
  BY RestExists
<1> DEFINE f == Rest(w)
           e(i) == Stage(Rest(w), w, i)
<1>3. f = [i \in 1..(Len(w) + 1) |-> e(i)]
  BY <1>2
<1> HIDE DEF f, e
<1>4. \A i \in 1..(Len(w) + 1) : f[i] = e(i)
  BY <1>3
<1> QED  BY <1>1, <1>4 DEF f, e

(***************************************************************************)
(* Operators: every beginning of one is one, or is dropped.                *)
(***************************************************************************)
Starts == {"!", "<", ">", "+", "-", "/", "*", "=", "&", "|", ".", "(", ")", OpenCurly,
           CloseCurly, "[", "]", ":", Semicolon, Comma}
Texts == Operators \cup Dropped

LEMMA StartsApart == Starts \cap (Spaces \cup Digits \cup {Quote, Backslash}) = {}
  BY Zenon DEF Starts, Spaces, Digits, Quote, Backslash, OpenCurly, CloseCurly, Semicolon,
               Comma, Blank

LEMMA SeparatorsApart ==
  /\ Spaces \cap (Digits \cup {Quote, Backslash}) = {}
  /\ Quote \notin Digits /\ Quote # Backslash /\ "." \notin Digits \cup {Quote, Backslash}
  /\ Letters \cap (Spaces \cup Digits \cup {Quote, Backslash}) = {}
<1>1. /\ Spaces \cap (Digits \cup {Quote, Backslash}) = {}
      /\ Quote \notin Digits /\ Quote # Backslash /\ "." \notin Digits \cup {Quote, Backslash}
  BY Zenon DEF Spaces, Digits, Quote, Backslash, Blank
<1> QED  BY <1>1, CharactersAssumption

LEMMA TextShape ==
  ASSUME NEW o \in Texts
  PROVE  /\ o \in Seq(Starts) /\ o[1] \in Starts
         /\ \/ Len(o) = 1
            \/ Len(o) = 2 /\ <<o[1]>> \in Texts
            \/ Len(o) = 3 /\ o = <<".", ".", ".">>
<1>1. \A t \in Operators :
         \/ t = <<t[1]>> /\ t[1] \in Starts
         \/ t = <<t[1], t[2]>> /\ t[1] \in Starts /\ t[2] \in Starts /\ <<t[1]>> \in Operators
         \/ t = <<"|", "|">>
         \/ t = <<".", ".", ".">>
  BY DEF Operators, OperatorTable, Starts
<1>2. "|" \in Starts /\ "." \in Starts /\ <<".">> \in Operators
  BY DEF Starts, Operators, OperatorTable
<1>3. \A t \in Dropped : t = <<"|">> \/ t = <<".", ".">>
  BY DEF Dropped
<1>4. <<"|">> \in Dropped
  BY DEF Dropped
<1>5. CASE o = <<o[1]>> /\ o[1] \in Starts
  <2> DEFINE a == o[1]
  <2>1. o = <<a>> /\ a \in Starts /\ o[1] = a
    BY <1>5
  <2> HIDE DEF a
  <2>2. <<a>> \in Seq(Starts) /\ Len(<<a>>) = 1
    BY <2>1
  <2> QED  BY <2>1, <2>2
<1>6. CASE o = <<o[1], o[2]>> /\ o[1] \in Starts /\ o[2] \in Starts /\ <<o[1]>> \in Operators
  <2> DEFINE a == o[1]
             b == o[2]
  <2>1. o = <<a, b>> /\ a \in Starts /\ b \in Starts /\ <<a>> \in Texts /\ o[1] = a
    BY <1>6 DEF Texts
  <2> HIDE DEF a, b
  <2>2. <<a, b>> \in Seq(Starts) /\ Len(<<a, b>>) = 2
    BY <2>1
  <2> QED  BY <2>1, <2>2
<1>7. CASE o = <<"|", "|">> \/ o = <<"|">> \/ o = <<".", ".">> \/ o = <<".", ".", ".">>
  <2>1. CASE o = <<"|", "|">>
    <3>1. o \in Seq(Starts) /\ o[1] = "|" /\ Len(o) = 2
      BY <1>2, <2>1
    <3> QED  BY <1>2, <1>4, <3>1 DEF Texts
  <2>2. CASE o = <<"|">>
    <3>1. o \in Seq(Starts) /\ o[1] = "|" /\ Len(o) = 1
      BY <1>2, <2>2
    <3> QED  BY <1>2, <3>1
  <2>3. CASE o = <<".", ".">>
    <3>1. o \in Seq(Starts) /\ o[1] = "." /\ Len(o) = 2
      BY <1>2, <2>3
    <3> QED  BY <1>2, <3>1 DEF Texts
  <2>4. CASE o = <<".", ".", ".">>
    <3>1. o \in Seq(Starts) /\ o[1] = "." /\ Len(o) = 3
      BY <1>2, <2>4
    <3> QED  BY <1>2, <2>4, <3>1
  <2> QED  BY <1>7, <2>1, <2>2, <2>3, <2>4
<1> QED  BY <1>1, <1>3, <1>5, <1>6, <1>7 DEF Texts

LEMMA TextFirst ==
  ASSUME NEW o \in Texts
  PROVE  o[1] \notin Spaces \cup {Quote} \cup Digits \cup Letters
<1>1. o[1] \in Starts
  BY TextShape
<1>2. o[1] \notin Letters
  <2>1. \A t \in Dropped : t[1] = "|" \/ t[1] = "."
    BY DEF Dropped
  <2>2. <<"|", "|">> \in Operators /\ <<".">> \in Operators
    BY DEF Operators, OperatorTable
  <2>3. "|" \notin Letters /\ "." \notin Letters
    BY <2>2, CharactersAssumption
  <2> QED  BY <2>1, <2>3, CharactersAssumption DEF Texts
<1> QED  BY <1>1, <1>2, StartsApart

LEMMA Beginning ==
  ASSUME NEW o \in Texts, NEW S, NEW t \in Seq(S), Len(t) \in 1..Len(o),
         \A k \in 1..Len(t) : t[k] = o[k]
  PROVE  t \in Texts
<1> DEFINE T == S \cup Starts
<1>1. t \in Seq(T) /\ o \in Seq(T) /\ Len(o) \in Nat
  BY TextShape, SeqMonotonic, LenProperties
<1>2. CASE Len(t) = Len(o)
  <2> HIDE DEF T
  <2>1. t = o
    BY <1>1, <1>2, SeqEqual
  <2> QED  BY <2>1
<1>3. CASE Len(t) # Len(o) /\ Len(t) = 1
  <2>1. t = <<o[1]>>
    <3>1. <<o[1]>> \in Seq(T) /\ Len(<<o[1]>>) = 1 /\ <<o[1]>>[1] = o[1]
      BY TextShape
    <3>2. t[1] = o[1]
      BY <1>3
    <3>3. \A k \in 1..Len(t) : t[k] = <<o[1]>>[k]
      BY <1>3, <3>1, <3>2
    <3> DEFINE u == <<o[1]>>
    <3>4. u \in Seq(T) /\ Len(t) = Len(u) /\ \A k \in 1..Len(t) : t[k] = u[k]
      BY <1>3, <3>1, <3>3
    <3> HIDE DEF u, T
    <3>5. t = u
      BY <1>1, <3>4, SeqEqual
    <3> QED  BY <3>5 DEF u
  <2>2. <<o[1]>> \in Texts
    <3>1. CASE o = <<".", ".", ".">>
      BY <3>1 DEF Texts, Operators, OperatorTable
    <3> QED  BY <1>1, <1>3, <3>1, TextShape
  <2> QED  BY <2>1, <2>2
<1>4. CASE Len(t) # Len(o) /\ Len(t) # 1
  <2>1. Len(t) = 2 /\ o = <<".", ".", ".">>
    <3>1. Len(o) = 1 \/ Len(o) = 2 \/ (Len(o) = 3 /\ o = <<".", ".", ".">>)
      BY TextShape
    <3>2. Len(t) \in Nat /\ Len(t) \in 1..Len(o)
      BY <1>1, LenProperties
    <3> DEFINE n == Len(t)
               m == Len(o)
    <3>3. n \in 1..m /\ n # m /\ n # 1 /\ (m = 1 \/ m = 2 \/ m = 3)
      BY <1>4, <3>1, <3>2
    <3> HIDE DEF n, m
    <3>4. n = 2 /\ m = 3
      BY <3>3
    <3> QED  BY <3>1, <3>4 DEF n, m
  <2>2. t = <<".", ".">>
    <3> DEFINE u == <<".", ".">>
    <3>1. u \in Seq(T) /\ Len(u) = 2 /\ u[1] = "." /\ u[2] = "."
      BY DEF Starts
    <3>2. t[1] = "." /\ t[2] = "."
      BY <2>1
    <3>3. \A k \in 1..Len(t) : t[k] = u[k]
      BY <2>1, <3>1, <3>2
    <3> HIDE DEF u, T
    <3>4. t = u
      BY <1>1, <2>1, <3>1, <3>3, SeqEqual
    <3> QED  BY <3>4 DEF u
  <2> QED  BY <2>2 DEF Texts, Dropped
<1> QED  BY <1>2, <1>3, <1>4

(* The text of w from i to j.                                              *)
LEMMA Piece ==
  ASSUME NEW S, NEW w \in Seq(S), NEW i \in 1..Len(w), NEW j \in i..Len(w)
  PROVE  /\ SubSeq(w, i, j) \in Seq(S) /\ Len(SubSeq(w, i, j)) = j - i + 1
         /\ \A k \in 1..(j - i + 1) : SubSeq(w, i, j)[k] = w[i + k - 1]
<1>1. Len(w) \in Nat /\ \A k \in 1..Len(w) : w[k] \in S
  BY LenProperties, ElementOfSeq
<1>2. i \in Int /\ j \in Int /\ i <= j /\ \A k \in i..j : w[k] \in S
  BY <1>1
<1> QED  BY <1>2, SubSeqProperties

LEMMA PieceGrows ==
  ASSUME NEW w \in Seq(Characters), NEW i \in 1..Len(w), NEW j \in i..Len(w), j < Len(w)
  PROVE  /\ Append(SubSeq(w, i, j), w[j + 1]) = SubSeq(w, i, j + 1)
         /\ SubSeq(w, i, j + 1) # <<>> /\ SubSeq(w, i, j + 1) \in Seq(Characters)
<1> DEFINE m == j + 1
<1>1. Len(w) \in Nat /\ m \in 1..Len(w) /\ m \in i..Len(w) /\ m - 1 = j /\ w[m] \in Characters
  BY Elements
<1>2. SubSeq(w, i, j) \in Seq(Characters)
  BY Piece
<1>3. Append(SubSeq(w, i, j), w[m]) = SubSeq(w, i, j) \o <<w[m]>>
  BY <1>1, <1>2, AppendIsConcat
<1> HIDE DEF m
<1>4. SubSeq(w, i, m) = SubSeq(w, i, m - 1) \o <<w[m]>>
  BY <1>1, SubSeqRecursiveSecond
<1>5. Append(SubSeq(w, i, j), w[m]) = SubSeq(w, i, m)
  BY <1>1, <1>3, <1>4
<1>6. Append(SubSeq(w, i, j), w[m]) # <<>> /\ Append(SubSeq(w, i, j), w[m]) \in Seq(Characters)
  BY <1>1, <1>2, AppendProperties
<1> QED  BY <1>5, <1>6 DEF m

LEMMA Prefixed ==
  ASSUME NEW S, NEW t \in Seq(S), NEW o \in Seq(S), Len(t) \in 1..Len(o),
         \A k \in 1..Len(t) : t[k] = o[k]
  PROVE  IsPrefix(t, o)
<1> DEFINE n == Len(t)
<1>1. Len(t) \in Nat /\ Len(o) \in Nat /\ 1 \in 1..Len(t) /\ 1 \in 1..Len(o) /\ n - 1 + 1 = n
      /\ n \in 1..Len(t) /\ n \in 1..Len(o)
  BY LenProperties
<1> HIDE DEF n
<1>2. /\ SubSeq(t, 1, n) \in Seq(S) /\ Len(SubSeq(t, 1, n)) = n - 1 + 1
      /\ \A k \in 1..(n - 1 + 1) : SubSeq(t, 1, n)[k] = t[1 + k - 1]
  BY <1>1, Piece
<1>3. /\ SubSeq(o, 1, n) \in Seq(S) /\ Len(SubSeq(o, 1, n)) = n - 1 + 1
      /\ \A k \in 1..(n - 1 + 1) : SubSeq(o, 1, n)[k] = o[1 + k - 1]
  BY <1>1, Piece
<1>4. \A k \in 1..n : t[1 + k - 1] = o[1 + k - 1]
  <2> TAKE k \in 1..n
  <2>1. 1 + k - 1 = k
    BY <1>1
  <2> QED  BY <2>1 DEF n
<1>5. \A k \in 1..n : SubSeq(t, 1, n)[k] = SubSeq(o, 1, n)[k]
  BY <1>1, <1>2, <1>3, <1>4
<1> DEFINE a == SubSeq(t, 1, n)
           b == SubSeq(o, 1, n)
<1>6. a \in Seq(S) /\ b \in Seq(S) /\ Len(a) = Len(b) /\ \A k \in 1..Len(a) : a[k] = b[k]
  BY <1>1, <1>2, <1>3, <1>5
<1> HIDE DEF a, b
<1>7. a = b
  BY <1>6, SeqEqual
<1> QED  BY <1>1, <1>7 DEF a, b, n, IsPrefix

LEMMA Continuing ==
  ASSUME NEW S, NEW t \in Seq(S), t # <<>>
  PROVE  Continues(t) <=> t \in Texts
<1>1. Len(t) \in Nat /\ Len(t) >= 1
  BY EmptySeq
<1>2. ASSUME Continues(t) PROVE t \in Texts
  <2>1. PICK o \in Operators : IsPrefix(t, o)
    BY <1>2 DEF Continues
  <2>2. o \in Texts /\ o \in Seq(Starts) /\ Len(o) \in Nat
    BY TextShape, LenProperties DEF Texts
  <2> DEFINE n == Len(t)
  <2>3. n \in Nat /\ n >= 1 /\ n <= Len(o) /\ SubSeq(t, 1, n) = SubSeq(o, 1, n)
    BY <1>1, <2>1 DEF IsPrefix
  <2>4. \A k \in 1..n : SubSeq(t, 1, n)[k] = t[k]
    <3>1. 1 \in 1..Len(t) /\ n \in 1..Len(t) /\ n - 1 + 1 = n
      BY <1>1
    <3>2. \A k \in 1..(n - 1 + 1) : SubSeq(t, 1, n)[k] = t[1 + k - 1]
      BY <3>1, Piece
    <3> QED  BY <1>1, <3>2
  <2>5. \A k \in 1..n : SubSeq(o, 1, n)[k] = o[k]
    <3>1. 1 \in 1..Len(o) /\ n \in 1..Len(o) /\ n - 1 + 1 = n
      BY <2>2, <2>3
    <3> HIDE DEF n
    <3>2. \A k \in 1..(n - 1 + 1) : SubSeq(o, 1, n)[k] = o[1 + k - 1]
      BY <2>2, <3>1, Piece
    <3> QED  BY <2>3, <3>2
  <2>6. n \in 1..Len(o) /\ \A k \in 1..n : t[k] = o[k]
    BY <2>2, <2>3, <2>4, <2>5
  <2> QED  BY <2>2, <2>6, Beginning
<1>3. ASSUME t \in Operators PROVE Continues(t)
  BY <1>1, <1>3 DEF Continues, IsPrefix
<1>4. ASSUME t = <<"|">> PROVE Continues(t)
  <2> DEFINE o == <<"|", "|">>
  <2>1. o \in Operators
    BY DEF Operators, OperatorTable
  <2>2. /\ o \in Seq(Starts) /\ t \in Seq(Starts) /\ Len(t) = 1 /\ Len(o) = 2
        /\ t[1] = "|" /\ o[1] = "|"
    BY <1>4 DEF Starts
  <2> HIDE DEF o
  <2> QED  BY <2>1, <2>2, Prefixed DEF Continues
<1>5. ASSUME t = <<".", ".">> PROVE Continues(t)
  <2> DEFINE o == <<".", ".", ".">>
  <2>1. o \in Operators
    BY DEF Operators, OperatorTable
  <2>2. /\ o \in Seq(Starts) /\ t \in Seq(Starts) /\ Len(t) = 2 /\ Len(o) = 3
        /\ t[1] = "." /\ o[1] = "." /\ t[2] = "." /\ o[2] = "."
    BY <1>5 DEF Starts
  <2>3. \A k \in 1..Len(t) : t[k] = o[k]
    BY <2>2
  <2> HIDE DEF o
  <2> QED  BY <2>1, <2>2, <2>3, Prefixed DEF Continues
<1> QED  BY <1>2, <1>3, <1>4, <1>5 DEF Texts, Dropped

(***************************************************************************)
(* Lexemes: the first character tells the kind.                            *)
(***************************************************************************)
Plain == Spaces \cup {Quote} \cup Digits \cup Letters

LEMMA Kinds ==
  ASSUME NEW w \in Seq(Characters), NEW i \in 1..Len(w), NEW j \in i..Len(w)
  PROVE  /\ IsClosedString(w, i, j) \/ IsOpenString(w, i, j) => w[i] = Quote
         /\ IsNumber(w, i, j) => w[i] \in Digits
         /\ IsWord(w, i, j) => w[i] \in Letters
         /\ IsOperator(w, i, j) \/ IsOther(w, i, j) => w[i] \notin Plain
<1>1. IsOperator(w, i, j) => w[i] \notin Plain
  <2> SUFFICES ASSUME IsOperator(w, i, j) PROVE w[i] \notin Plain
    OBVIOUS
  <2>1. SubSeq(w, i, j) \in Texts
    BY DEF IsOperator, Texts
  <2>2. SubSeq(w, i, j)[1] = w[i]
    <3>1. 1 \in 1..(j - i + 1) /\ i + 1 - 1 = i
      BY LenProperties
    <3> QED  BY <3>1, Piece
  <2> QED  BY <2>1, <2>2, TextFirst DEF Plain
<1> QED  BY <1>1 DEF IsClosedString, IsOpenString, IsNumber, IsWord, IsOther, Plain

LEMMA PlainApart ==
  /\ Quote \in Plain /\ Digits \subseteq Plain /\ Letters \subseteq Plain /\ Spaces \subseteq Plain
  /\ Quote \notin Digits \cup Letters \cup Spaces
  /\ Digits \cap Letters = {} /\ Spaces \cap Letters = {} /\ Spaces \cap Digits = {}
  BY SeparatorsApart DEF Plain

LEMMA LexemeOf ==
  ASSUME NEW w \in Seq(Characters), NEW i \in 1..Len(w), NEW j \in i..Len(w)
  PROVE  /\ IsClosedString(w, i, j) =>
              Lexeme(w, i, j) = <<Token("STRING", Value(w, i, j - 1), i - 1, j)>>
         /\ IsOpenString(w, i, j) =>
              Lexeme(w, i, j) = <<Token("UNKNOWN", Value(w, i, j), i - 1, j)>>
         /\ IsNumber(w, i, j) =>
              Lexeme(w, i, j) = <<Token(IF \E k \in i..j : w[k] = "." THEN "NUMBER_FLOAT"
                                        ELSE "NUMBER", SubSeq(w, i, j), i - 1, j)>>
         /\ IsWord(w, i, j) =>
              Lexeme(w, i, j) = <<Token(IF SubSeq(w, i, j) \in DOMAIN keywords
                                        THEN keywords[SubSeq(w, i, j)] ELSE "IDENTIFIER",
                                        SubSeq(w, i, j), i - 1, j)>>
         /\ IsOperator(w, i, j) =>
              Lexeme(w, i, j) = IF SubSeq(w, i, j) \in Dropped THEN <<>>
                                ELSE <<Token(OperatorType[SubSeq(w, i, j)], SubSeq(w, i, j),
                                             i - 1, j)>>
         /\ IsOther(w, i, j) =>
              Lexeme(w, i, j) = <<Token("UNKNOWN", SubSeq(w, i, j), i - 1, j)>>
<1>1. ~(IsClosedString(w, i, j) /\ IsOpenString(w, i, j))
  <2>1. j \in {j} /\ {j} # {}
    OBVIOUS
  <2> QED  BY <2>1 DEF IsClosedString, IsOpenString
<1>2. ~(IsOperator(w, i, j) /\ IsOther(w, i, j))
  BY DEF IsOther
<1>3. IsClosedString(w, i, j) =>
        /\ ~IsOpenString(w, i, j) /\ ~IsNumber(w, i, j) /\ ~IsWord(w, i, j)
        /\ ~IsOperator(w, i, j) /\ ~IsOther(w, i, j)
  BY <1>1, Kinds, PlainApart
<1>4. IsOpenString(w, i, j) =>
        /\ ~IsClosedString(w, i, j) /\ ~IsNumber(w, i, j) /\ ~IsWord(w, i, j)
        /\ ~IsOperator(w, i, j) /\ ~IsOther(w, i, j)
  BY <1>1, Kinds, PlainApart
<1>5. IsNumber(w, i, j) =>
        /\ ~IsClosedString(w, i, j) /\ ~IsOpenString(w, i, j) /\ ~IsWord(w, i, j)
        /\ ~IsOperator(w, i, j) /\ ~IsOther(w, i, j)
  BY Kinds, PlainApart
<1>6. IsWord(w, i, j) =>
        /\ ~IsClosedString(w, i, j) /\ ~IsOpenString(w, i, j) /\ ~IsNumber(w, i, j)
        /\ ~IsOperator(w, i, j) /\ ~IsOther(w, i, j)
  BY Kinds, PlainApart
<1>7. IsOperator(w, i, j) =>
        /\ ~IsClosedString(w, i, j) /\ ~IsOpenString(w, i, j) /\ ~IsNumber(w, i, j)
        /\ ~IsWord(w, i, j) /\ ~IsOther(w, i, j)
  BY <1>2, Kinds, PlainApart
<1>8. IsOther(w, i, j) =>
        /\ ~IsClosedString(w, i, j) /\ ~IsOpenString(w, i, j) /\ ~IsNumber(w, i, j)
        /\ ~IsWord(w, i, j) /\ ~IsOperator(w, i, j)
  BY <1>2, Kinds, PlainApart
<1> QED  BY <1>3, <1>4, <1>5, <1>6, <1>7, <1>8, SMTT(30) DEF Lexeme

LEMMA Longest ==
  ASSUME NEW w \in Seq(Characters), NEW i \in 1..Len(w), NEW j \in i..Len(w), IsLexeme(w, i, j),
         \A k \in (j + 1)..Len(w) : ~IsLexeme(w, i, k)
  PROVE  Rest(w)[i] = Lexeme(w, i, j) \o Rest(w)[j + 1]
<1>1. Len(w) \in Nat
  BY Elements
<1>2. j \in Lexemes(w, i) /\ Lexemes(w, i) # {}
  BY DEF Lexemes
<1>3. /\ Max(Lexemes(w, i)) \in Lexemes(w, i) /\ \A k \in Lexemes(w, i) : k <= Max(Lexemes(w, i))
  BY <1>1, <1>2, LongestLexeme
<1> DEFINE m == Max(Lexemes(w, i))
<1>4. m \in i..Len(w) /\ j <= m /\ IsLexeme(w, i, m)
  BY <1>2, <1>3 DEF Lexemes
<1>5. m \notin (j + 1)..Len(w)
  BY <1>4
<1>6. m = j
  <2> HIDE DEF m
  <2> QED  BY <1>1, <1>4, <1>5
<1>7. i \in 1..(Len(w) + 1) /\ ~(i > Len(w))
  BY <1>1
<1>8. Rest(w)[i] = Stage(Rest(w), w, i)
  BY <1>7, TokensAreRest
<1> QED  BY <1>2, <1>6, <1>7, <1>8 DEF Stage

LEMMA NoLexeme ==
  ASSUME NEW w \in Seq(Characters), NEW i \in 1..Len(w), \A k \in i..Len(w) : ~IsLexeme(w, i, k)
  PROVE  Rest(w)[i] = Rest(w)[i + 1]
<1>1. Lexemes(w, i) = {}
  BY DEF Lexemes
<1>2. i \in 1..(Len(w) + 1) /\ ~(i > Len(w))
  BY LenProperties
<1>3. Rest(w)[i] = Stage(Rest(w), w, i)
  BY <1>2, TokensAreRest
<1> QED  BY <1>1, <1>2, <1>3 DEF Stage

LEMMA NoMore ==
  ASSUME NEW w \in Seq(Characters)
  PROVE  Rest(w)[Len(w) + 1] = <<EndToken(w)>>
<1> DEFINE i == Len(w) + 1
<1>1. i \in 1..(Len(w) + 1) /\ i > Len(w)
  BY LenProperties
<1> HIDE DEF i
<1>2. Rest(w)[i] = Stage(Rest(w), w, i)
  BY <1>1, TokensAreRest
<1> QED  BY <1>1, <1>2 DEF Stage, i

(***************************************************************************)
(* Where each kind of lexeme ends.                                         *)
(***************************************************************************)
Unquoted(w, i, j) == \A k \in (i + 1)..j : ~(w[k] = Quote /\ ~Hidden(w, i, k))

LEMMA StringCloses ==
  ASSUME NEW w \in Seq(Characters), NEW i \in 1..Len(w), NEW j \in i..Len(w), j < Len(w),
         w[i] = Quote, Unquoted(w, i, j), w[j + 1] = Quote, ~Hidden(w, i, j + 1)
  PROVE  Rest(w)[i] = <<Token("STRING", Chars(w, i, j), i - 1, j + 1)>> \o Rest(w)[j + 2]
<1>0. Len(w) \in Nat
  BY Elements
<1> DEFINE m == j + 1
<1>1. m \in i..Len(w) /\ m \in (i + 1)..Len(w) /\ m - 1 = j /\ m + 1 = j + 2 /\ m - 1 # Len(w)
  BY <1>0
<1>2. m \in Quotes(w, i) /\ \A k \in Quotes(w, i) : k \notin (i + 1)..j
  BY <1>1 DEF Quotes, Unquoted
<1>3. \A k \in (i + 1)..m : k = m \/ k \in (i + 1)..j
  BY <1>0
<1> HIDE DEF m
<1>4. IsClosedString(w, i, m)
  <2>1. m \in (i + 1)..m
    BY <1>1
  <2>2. Quotes(w, i) \cap (i + 1)..m = {m}
    BY <1>2, <1>3, <2>1
  <2> QED  BY <2>2 DEF IsClosedString
<1>5. ASSUME NEW k \in (m + 1)..Len(w) PROVE ~IsLexeme(w, i, k)
  <2>1. k \in i..Len(w) /\ m \in (i + 1)..k /\ k # m
    BY <1>0, <1>1
  <2>2. ~IsClosedString(w, i, k) /\ ~IsOpenString(w, i, k)
    BY <1>2, <2>1 DEF IsClosedString, IsOpenString
  <2> QED  BY <2>1, <2>2, Kinds, PlainApart DEF IsLexeme
<1>6. Rest(w)[i] = Lexeme(w, i, m) \o Rest(w)[m + 1]
  BY <1>1, <1>4, <1>5, Longest DEF IsLexeme
<1>7. Lexeme(w, i, m) = <<Token("STRING", Value(w, i, j), i - 1, m)>>
  BY <1>1, <1>4, LexemeOf
<1>8. Value(w, i, j) = Chars(w, i, j)
  <2>1. Value(w, i, j) = Chars(w, i, j) \o <<>>
    BY <1>1 DEF Value, Chars
  <2> QED  BY <2>1, CharsType, ConcatEmptySeq
<1> QED  BY <1>1, <1>6, <1>7, <1>8 DEF m

LEMMA StringIsOpen ==
  ASSUME NEW w \in Seq(Characters), NEW i \in 1..Len(w), w[i] = Quote, Unquoted(w, i, Len(w))
  PROVE  Rest(w)[i] =
           <<Token("UNKNOWN", Chars(w, i, Len(w)) \o IF Hidden(w, i, Len(w) + 1) THEN <<Nul>> ELSE <<>>,
                   i - 1, Len(w))>> \o Rest(w)[Len(w) + 1]
<1> DEFINE n == Len(w)
<1>1. n \in Nat /\ n \in i..Len(w) /\ (n + 1)..Len(w) = {}
  BY Elements
<1>2. Quotes(w, i) = {}
  BY DEF Quotes, Unquoted
<1>3. IsOpenString(w, i, n)
  BY <1>2 DEF IsOpenString
<1>4. Lexeme(w, i, n) = <<Token("UNKNOWN", Value(w, i, n), i - 1, n)>>
  BY <1>1, <1>3, LexemeOf
<1>5. Value(w, i, n) = Chars(w, i, n) \o IF Hidden(w, i, n + 1) THEN <<Nul>> ELSE <<>>
  BY DEF Value, Chars
<1> HIDE DEF n
<1>6. Rest(w)[i] = Lexeme(w, i, n) \o Rest(w)[n + 1]
  BY <1>1, <1>3, Longest DEF IsLexeme
<1> QED  BY <1>4, <1>5, <1>6 DEF n

LEMMA NumberEnds ==
  ASSUME NEW w \in Seq(Characters), NEW i \in 1..Len(w), NEW j \in i..Len(w), IsNumber(w, i, j),
         j = Len(w) \/ w[j + 1] \notin Digits \cup {"."}
           \/ (w[j + 1] \notin Digits /\ \E k \in i..j : w[k] = ".")
  PROVE  Rest(w)[i] = <<Token(IF \E k \in i..j : w[k] = "." THEN "NUMBER_FLOAT" ELSE "NUMBER",
                              SubSeq(w, i, j), i - 1, j)>> \o Rest(w)[j + 1]
<1>0. Len(w) \in Nat
  BY Elements
<1>1. ASSUME NEW k \in (j + 1)..Len(w) PROVE ~IsLexeme(w, i, k)
  <2>1. k \in i..Len(w) /\ j + 1 \in i..k /\ j # Len(w)
    BY <1>0
  <2>2. ASSUME IsNumber(w, i, k) PROVE FALSE
    <3>1. w[j + 1] \in Digits \cup {"."}
      BY <2>1, <2>2 DEF IsNumber
    <3>2. PICK m \in i..j : w[m] = "." /\ w[j + 1] = "."
      BY <2>1, <3>1
    <3>3. m \in i..k /\ m # j + 1
      BY <1>0
    <3> QED  BY <2>1, <2>2, <3>2, <3>3 DEF IsNumber
  <2>3. w[i] \in Digits
    BY DEF IsNumber
  <2>4. w[i] # Quote /\ w[i] \notin Letters /\ w[i] \in Plain
    BY <2>3, PlainApart
  <2> QED  BY <2>1, <2>2, <2>4, Kinds DEF IsLexeme
<1>2. Rest(w)[i] = Lexeme(w, i, j) \o Rest(w)[j + 1]
  BY <1>1, Longest DEF IsLexeme
<1> QED  BY <1>2, LexemeOf

LEMMA WordEnds ==
  ASSUME NEW w \in Seq(Characters), NEW i \in 1..Len(w), NEW j \in i..Len(w), IsWord(w, i, j),
         j = Len(w) \/ w[j + 1] \notin Letters \cup Digits
  PROVE  Rest(w)[i] = <<Token(IF SubSeq(w, i, j) \in DOMAIN keywords
                              THEN keywords[SubSeq(w, i, j)] ELSE "IDENTIFIER",
                              SubSeq(w, i, j), i - 1, j)>> \o Rest(w)[j + 1]
<1>0. Len(w) \in Nat
  BY Elements
<1>1. ASSUME NEW k \in (j + 1)..Len(w) PROVE ~IsLexeme(w, i, k)
  <2>1. k \in i..Len(w) /\ j + 1 \in i..k /\ j # Len(w)
    BY <1>0
  <2>2. ~IsWord(w, i, k)
    BY <2>1 DEF IsWord
  <2>3. w[i] \in Letters
    BY DEF IsWord
  <2>4. w[i] # Quote /\ w[i] \notin Digits /\ w[i] \in Plain
    BY <2>3, PlainApart
  <2> QED  BY <2>1, <2>2, <2>4, Kinds DEF IsLexeme
<1>2. Rest(w)[i] = Lexeme(w, i, j) \o Rest(w)[j + 1]
  BY <1>1, Longest DEF IsLexeme
<1> QED  BY <1>2, LexemeOf

LEMMA OperatorEnds ==
  ASSUME NEW w \in Seq(Characters), NEW i \in 1..Len(w), NEW j \in i..Len(w), w[i] \notin Plain,
         j = i \/ SubSeq(w, i, j) \in Texts,
         j = Len(w) \/ SubSeq(w, i, j + 1) \notin Texts
  PROVE  Rest(w)[i] = (IF SubSeq(w, i, j) \in Dropped THEN <<>>
                       ELSE <<Token(IF SubSeq(w, i, j) \in Operators
                                    THEN OperatorType[SubSeq(w, i, j)] ELSE "UNKNOWN",
                                    SubSeq(w, i, j), i - 1, j)>>) \o Rest(w)[j + 1]
<1>0. Len(w) \in Nat
  BY Elements
<1>1. ASSUME NEW k \in (j + 1)..Len(w) PROVE ~IsLexeme(w, i, k)
  <2>1. k \in i..Len(w) /\ j + 1 \in i..k /\ j + 1 \in i..Len(w) /\ j # Len(w) /\ k # i
    BY <1>0
  <2>2. ASSUME IsOperator(w, i, k) PROVE FALSE
    <3> DEFINE o == SubSeq(w, i, k)
               t == SubSeq(w, i, j + 1)
    <3>1. o \in Texts
      BY <2>2 DEF IsOperator, Texts
    <3>2. /\ Len(o) = k - i + 1 /\ \A m \in 1..(k - i + 1) : o[m] = w[i + m - 1]
      BY <2>1, Piece
    <3>3. /\ t \in Seq(Characters) /\ Len(t) = j + 1 - i + 1
          /\ \A m \in 1..(j + 1 - i + 1) : t[m] = w[i + m - 1]
      <4> DEFINE e == j + 1
      <4>1. e \in i..Len(w)
        BY <2>1
      <4> HIDE DEF e
      <4>2. /\ SubSeq(w, i, e) \in Seq(Characters) /\ Len(SubSeq(w, i, e)) = e - i + 1
            /\ \A m \in 1..(e - i + 1) : SubSeq(w, i, e)[m] = w[i + m - 1]
        BY <4>1, Piece
      <4> QED  BY <4>2 DEF e
    <3> HIDE DEF o, t
    <3>4. Len(t) \in 1..Len(o) /\ \A m \in 1..Len(t) : m \in 1..Len(o)
      BY <1>0, <2>1, <3>2, <3>3
    <3>5. \A m \in 1..Len(t) : t[m] = o[m]
      BY <3>2, <3>3, <3>4
    <3>6. t \in Texts
      BY <3>1, <3>3, <3>4, <3>5, Beginning
    <3> QED  BY <2>1, <3>6 DEF t
  <2>3. ~IsOther(w, i, k)
    BY <2>1 DEF IsOther
  <2>4. w[i] # Quote /\ w[i] \notin Digits /\ w[i] \notin Letters
    BY PlainApart
  <2> QED  BY <2>1, <2>2, <2>3, <2>4, Kinds DEF IsLexeme
<1>2. IsOperator(w, i, j) \/ IsOther(w, i, j)
  BY DEF IsOperator, IsOther, Texts, Plain
<1>3. Rest(w)[i] = Lexeme(w, i, j) \o Rest(w)[j + 1]
  BY <1>1, <1>2, Longest DEF IsLexeme
<1>4. CASE IsOperator(w, i, j)
  <2>1. SubSeq(w, i, j) \notin Dropped => SubSeq(w, i, j) \in Operators
    BY <1>4 DEF IsOperator
  <2> QED  BY <1>3, <1>4, <2>1, LexemeOf
<1>5. CASE ~IsOperator(w, i, j) /\ IsOther(w, i, j)
  <2>1. SubSeq(w, i, j) \notin Dropped /\ SubSeq(w, i, j) \notin Operators
    BY <1>5 DEF IsOperator
  <2> QED  BY <1>3, <1>5, <2>1, LexemeOf
<1> QED  BY <1>2, <1>4, <1>5

(***************************************************************************)
(* The scanner in step with the grammar: for every source that begins with *)
(* what has been seen of it, the tokens so far and those of the source     *)
(* from where the scanner will go on are all of its tokens; and of the     *)
(* token at work the scanner knows what the grammar asks.                  *)
(***************************************************************************)
Extends(w) ==
  /\ w \in Seq(Characters) /\ pos <= Len(w) /\ \A k \in 1..pos : w[k] = read[k]
  /\ IF ahead = End THEN w = read ELSE pos < Len(w) /\ w[pos + 1] = ahead

StringRead(w, i, j, kind, next, value) ==
  /\ w[i] = Quote /\ Unquoted(w, i, j)
  /\ \/ /\ Hidden(w, i, j + 1) <=> kind = "escape"
        /\ value = Chars(w, i, j)
     \/ /\ kind = "string" /\ next = End /\ Hidden(w, i, j + 1)
        /\ value = Chars(w, i, j) \o <<Nul>>
NumberRead(w, i, j, kind) ==
  /\ IsNumber(w, i, j)
  /\ kind = "float" <=> \E k \in i..j : w[k] = "."
OperatorRead(w, i, j) == w[i] \notin Plain /\ (j = i \/ SubSeq(w, i, j) \in Texts)
PartRead(w, i, j, kind, next, value) ==
  /\ kind \in {"string", "escape"} => StringRead(w, i, j, kind, next, value)
  /\ kind \in {"number", "float"} => NumberRead(w, i, j, kind)
  /\ kind = "word" => IsWord(w, i, j)
  /\ kind = "operator" => OperatorRead(w, i, j)

Base == IF AtWork THEN begin ELSE pos
InStep(w) ==
  IF mode = "done" THEN tokens = Rest(w)[1]
  ELSE /\ tokens \o Rest(w)[Base + 1] = Rest(w)[1]
       /\ PartRead(w, begin + 1, pos, mode, ahead, literal)
Scanned ==
  /\ mode = "done" => ahead = End
  /\ \A w : Extends(w) => InStep(w)

(* The tokens of a source are a sequence.                                  *)
Pieces(w) == {EndToken(w)} \cup {Lexeme(w, ij[1], ij[2])[1] : ij \in (1..Len(w)) \X (1..Len(w))}

LEMMA LexemeType ==
  ASSUME NEW w \in Seq(Characters), NEW i \in 1..Len(w), NEW j \in i..Len(w), IsLexeme(w, i, j)
  PROVE  Lexeme(w, i, j) \in Seq(Pieces(w))
<1>1. Lexeme(w, i, j) = <<>> \/ Lexeme(w, i, j) = <<Lexeme(w, i, j)[1]>>
  <2> DEFINE l == Lexeme(w, i, j)
  <2>1. l = <<>> \/ \E t : l = <<t>>
    <3>1. CASE IsClosedString(w, i, j)
      BY <3>1, LexemeOf
    <3>2. CASE IsOpenString(w, i, j)
      BY <3>2, LexemeOf
    <3>3. CASE IsNumber(w, i, j)
      BY <3>3, LexemeOf
    <3>4. CASE IsWord(w, i, j)
      BY <3>4, LexemeOf
    <3>5. CASE IsOperator(w, i, j)
      BY <3>5, LexemeOf
    <3>6. CASE IsOther(w, i, j)
      BY <3>6, LexemeOf
    <3> QED  BY <3>1, <3>2, <3>3, <3>4, <3>5, <3>6 DEF IsLexeme
  <2>2. \A t : l = <<t>> => l[1] = t
    OBVIOUS
  <2> QED  BY <2>1, <2>2
<1>2. Lexeme(w, i, j)[1] \in Pieces(w)
  <2>1. i \in 1..Len(w) /\ j \in 1..Len(w)
    BY LenProperties
  <2> DEFINE ij == <<i, j>>
  <2>2. ij \in (1..Len(w)) \X (1..Len(w)) /\ ij[1] = i /\ ij[2] = j
    BY <2>1
  <2>3. Lexeme(w, i, j)[1] = Lexeme(w, ij[1], ij[2])[1]
    BY <2>2
  <2> HIDE DEF ij
  <2> QED  BY <2>2, <2>3, Zenon DEF Pieces
<1> DEFINE x == Lexeme(w, i, j)[1]
<1>3. Lexeme(w, i, j) = <<>> \/ Lexeme(w, i, j) = <<x>>
  BY <1>1
<1>4. x \in Pieces(w)
  BY <1>2
<1> HIDE DEF x
<1>5. <<x>> \in Seq(Pieces(w)) /\ <<>> \in Seq(Pieces(w))
  BY <1>4
<1> QED  BY <1>3, <1>5

LEMMA RestType ==
  ASSUME NEW w \in Seq(Characters), NEW i \in 1..(Len(w) + 1)
  PROVE  Rest(w)[i] \in Seq(Pieces(w))
<1> DEFINE n == Len(w) + 1
           bad == {m \in 0..n : m < n /\ Rest(w)[n - m] \notin Seq(Pieces(w))}
<1>0. Len(w) \in Nat /\ n \in Nat
  BY Elements
<1>1. bad = {}
  <2> SUFFICES ASSUME bad # {} PROVE FALSE
    OBVIOUS
  <2>1. PICK m \in bad : \A k \in bad : m <= k
    <3>1. bad \in SUBSET Nat
      BY <1>0
    <3> HIDE DEF bad
    <3> QED  BY <3>1, Least
  <2> DEFINE k == n - m
  <2>2. /\ k \in 1..n /\ m \in 0..n /\ Rest(w)[k] \notin Seq(Pieces(w)) /\ m = n - k
    BY <1>0, <2>1
  <2>3. \A e \in (k + 1)..n : Rest(w)[e] \in Seq(Pieces(w))
    <3> TAKE e \in (k + 1)..n
    <3> DEFINE g == n - e
    <3>1. g \in 0..n /\ g < n /\ ~(m <= g) /\ n - g = e
      BY <1>0, <2>2
    <3> HIDE DEF g, n
    <3> QED  BY <2>1, <3>1
  <2> HIDE DEF k
  <2>4. Rest(w)[k] = Stage(Rest(w), w, k)
    BY <2>2, TokensAreRest
  <2>5. CASE k > Len(w)
    <3>1. Rest(w)[k] = <<EndToken(w)>>
      BY <2>4, <2>5 DEF Stage
    <3>2. EndToken(w) \in Pieces(w)
      BY DEF Pieces
    <3> QED  BY <2>2, <3>1, <3>2
  <2>6. CASE ~(k > Len(w)) /\ Lexemes(w, k) = {}
    <3>1. k + 1 \in (k + 1)..n
      BY <1>0, <2>2, <2>6
    <3> QED  BY <2>2, <2>3, <2>4, <2>6, <3>1 DEF Stage
  <2>7. CASE ~(k > Len(w)) /\ Lexemes(w, k) # {}
    <3> DEFINE m1 == Max(Lexemes(w, k))
    <3>0. k \in Nat /\ k \in 1..Len(w)
      BY <1>0, <2>2, <2>7
    <3> HIDE DEF n
    <3>1. m1 \in Lexemes(w, k)
      BY <1>0, <2>7, <3>0, LongestLexeme
    <3> HIDE DEF m1
    <3>2. m1 \in k..Len(w) /\ IsLexeme(w, k, m1)
      BY <3>1 DEF Lexemes
    <3>3. Lexeme(w, k, m1) \in Seq(Pieces(w))
      BY <3>0, <3>2, LexemeType
    <3>4. m1 + 1 \in (k + 1)..n
      BY <1>0, <3>0, <3>2 DEF n
    <3>5. Rest(w)[m1 + 1] \in Seq(Pieces(w))
      BY <2>3, <3>4
    <3>6. Rest(w)[k] = Lexeme(w, k, m1) \o Rest(w)[m1 + 1]
      BY <2>4, <2>7 DEF Stage, m1
    <3> QED  BY <2>2, <3>3, <3>5, <3>6, ConcatProperties
  <2> QED  BY <2>5, <2>6, <2>7
<1>2. n - i \in 0..n /\ n - i < n /\ n - (n - i) = i
  BY <1>0
<1> QED  BY <1>1, <1>2

LEMMA Grown ==
  ASSUME IInv, NEW S, End \notin S, get(S), NEW w, Extends(w)'
  PROVE  /\ Extends(w) /\ w \in Seq(Characters) /\ pos < Len(w) /\ w[pos + 1] = ahead
         /\ pos \in Nat /\ Len(w) \in Nat /\ pos' = pos + 1 /\ ahead \in S /\ ahead \in Characters
         /\ ahead # End
<1>1. /\ ahead \in Characters /\ ahead \in S /\ read' \in Seq(Characters) /\ pos' = pos + 1
      /\ pos \in Nat /\ read \in Seq(Characters)
  BY Reads DEF IInv
<1>2. read' = Append(read, ahead) /\ ahead # End
  BY CharactersAssumption, <1>1 DEF get
<1>3. w \in Seq(Characters) /\ Len(w) \in Nat /\ pos' <= Len(w) /\ \A k \in 1..pos' : w[k] = read'[k]
  BY LenProperties DEF Extends
<1>4. read'[pos + 1] = ahead /\ \A k \in 1..pos : read'[k] = read[k]
  BY <1>1, <1>2, AppendProperties DEF pos
<1>5. pos + 1 \in 1..pos' /\ \A k \in 1..pos : k \in 1..pos'
  BY <1>1
<1> HIDE DEF pos
<1>6. w[pos + 1] = ahead /\ \A k \in 1..pos : w[k] = read[k]
  BY <1>3, <1>4, <1>5
<1>7. pos < Len(w) /\ pos <= Len(w)
  BY <1>1, <1>3
<1> QED  BY <1>1, <1>2, <1>3, <1>6, <1>7 DEF Extends

LEMMA Peeked ==
  ASSUME IInv, peek, NEW w, Extends(w)'
  PROVE  /\ Extends(w) /\ w \in Seq(Characters) /\ pos' = pos /\ pos \in Nat /\ Len(w) \in Nat
         /\ pos <= Len(w) /\ ahead' = ahead
         /\ IF ahead = End THEN w = read /\ pos = Len(w) ELSE pos < Len(w) /\ w[pos + 1] = ahead
<1>1. pos' = pos /\ pos \in Nat /\ ahead' = ahead /\ read' = read
  BY Peeks DEF peek
<1>2. Extends(w)
  BY <1>1 DEF Extends
<1> QED  BY <1>1, <1>2, LenProperties DEF Extends, pos

LEMMA TextIs ==
  ASSUME IInv, AtWork, NEW w, Extends(w)
  PROVE  Text = SubSeq(w, begin + 1, pos)
<1>1. /\ read \in Seq(Characters) /\ w \in Seq(Characters) /\ pos \in Nat /\ Len(w) \in Nat
      /\ Len(read) = pos /\ pos <= Len(w) /\ begin \in Nat /\ begin < pos
      /\ \A k \in 1..pos : w[k] = read[k]
  BY LenProperties DEF IInv, Extends, pos
<1> DEFINE i == begin + 1
<1>2. i \in 1..Len(read) /\ pos \in i..Len(read) /\ i \in 1..Len(w) /\ pos \in i..Len(w)
  BY <1>1
<1> HIDE DEF i, pos
<1>3. /\ SubSeq(read, i, pos) \in Seq(Characters) /\ Len(SubSeq(read, i, pos)) = pos - i + 1
      /\ \A k \in 1..(pos - i + 1) : SubSeq(read, i, pos)[k] = read[i + k - 1]
  BY <1>1, <1>2, Piece
<1>4. /\ SubSeq(w, i, pos) \in Seq(Characters) /\ Len(SubSeq(w, i, pos)) = pos - i + 1
      /\ \A k \in 1..(pos - i + 1) : SubSeq(w, i, pos)[k] = w[i + k - 1]
  BY <1>1, <1>2, Piece
<1>5. \A k \in 1..(pos - i + 1) : i + k - 1 \in 1..pos
  BY <1>1, <1>2
<1>6. \A k \in 1..(pos - i + 1) : SubSeq(read, i, pos)[k] = SubSeq(w, i, pos)[k]
  BY <1>1, <1>3, <1>4, <1>5
<1> DEFINE s == SubSeq(read, i, pos)
           t == SubSeq(w, i, pos)
<1>7. s \in Seq(Characters) /\ t \in Seq(Characters) /\ Len(s) = Len(t) /\ \A k \in 1..Len(s) : s[k] = t[k]
  BY <1>3, <1>4, <1>6
<1> HIDE DEF s, t
<1>8. s = t
  BY <1>7, SeqEqual
<1> QED  BY <1>8 DEF s, t, i, Text

(* Where the token at work is in an extension.                             *)
LEMMA PartPlace ==
  ASSUME IInv, AtWork, NEW w, Extends(w)
  PROVE  /\ begin \in Nat /\ begin + 1 \in 1..Len(w) /\ pos \in (begin + 1)..Len(w) /\ pos \in Nat
         /\ w \in Seq(Characters) /\ Len(w) \in Nat /\ mode # "done" /\ Base = begin
         /\ begin + 1 \in Nat /\ begin + 1 - 1 = begin
  BY LenProperties DEF IInv, Extends, AtWork, Base, pos

(* The token at work is done, or dropped.                                  *)
LEMMA Concludes ==
  ASSUME IInv, AtWork, NEW w, Extends(w), InStep(w), NEW to \in 0..Len(w),
         NEW T, NEW part \in Seq(T), Rest(w)[begin + 1] = part \o Rest(w)[to + 1],
         tokens' = tokens \o part, mode' = "start", pos' = to
  PROVE  InStep(w)'
<1>1. /\ w \in Seq(Characters) /\ mode # "done" /\ Base = begin
  BY PartPlace
<1>2. tokens \o Rest(w)[begin + 1] = Rest(w)[1]
  BY <1>1 DEF InStep
<1>3. to + 1 \in 1..(Len(w) + 1)
  BY LenProperties, <1>1
<1>4. Rest(w)[to + 1] \in Seq(Pieces(w))
  BY <1>1, <1>3, RestType
<1>5. tokens \in Seq(TokenRecords)
  BY DEF IInv, Ordered
<1> DEFINE S == TokenRecords \cup T \cup Pieces(w)
           rest == Rest(w)[to + 1]
<1>6. tokens \in Seq(S) /\ part \in Seq(S) /\ rest \in Seq(S)
  BY <1>4, <1>5, SeqMonotonic
<1>7. Rest(w)[begin + 1] = part \o rest
  OBVIOUS
<1> HIDE DEF S, rest
<1>8. (tokens \o part) \o rest = tokens \o (part \o rest)
  BY <1>6, ConcatAssociative
<1>9. tokens' \o Rest(w)[to + 1] = Rest(w)[1]
  BY <1>2, <1>7, <1>8 DEF rest
<1>10. Base' = to
  BY DEF Base, AtWork
<1> QED  BY <1>9, <1>10 DEF InStep, PartRead

LEMMA ConcludesOne ==
  ASSUME IInv, AtWork, NEW w, Extends(w), InStep(w), NEW to \in 0..Len(w), NEW type, NEW value,
         Rest(w)[begin + 1] = <<Token(type, value, begin, to)>> \o Rest(w)[to + 1],
         Push(type, value, to), mode' = "start", pos' = to
  PROVE  InStep(w)'
<1> DEFINE t == Token(type, value, begin, to)
           T == TokenRecords \cup {t}
<1>1. tokens \in Seq(TokenRecords) /\ tokens' = Append(tokens, t)
  BY DEF IInv, Ordered, Push
<1>2. tokens \in Seq(T) /\ t \in T
  BY <1>1, SeqMonotonic
<1>3. Rest(w)[begin + 1] = <<t>> \o Rest(w)[to + 1]
  OBVIOUS
<1> HIDE DEF t, T
<1>4. tokens' = tokens \o <<t>> /\ <<t>> \in Seq(T)
  BY <1>1, <1>2, AppendIsConcat
<1> QED  BY <1>3, <1>4, Concludes

(* The token at work goes on.                                              *)
LEMMA GoesOn ==
  ASSUME IInv, AtWork, NEW w, InStep(w), AtWork', begin' = begin, tokens' = tokens,
         PartRead(w, begin + 1, pos', mode', ahead', literal')
  PROVE  InStep(w)'
  BY DEF InStep, Base, AtWork

(***************************************************************************)
(* One lemma for each group of steps.                                      *)
(***************************************************************************)
LEMMA InStepSkips ==
  ASSUME IInv, SkipSpace, NEW w, Extends(w)', InStep(w)
  PROVE  InStep(w)'
<1>1. /\ w \in Seq(Characters) /\ pos < Len(w) /\ w[pos + 1] = ahead
      /\ pos \in Nat /\ Len(w) \in Nat /\ pos' = pos + 1 /\ ahead \in Spaces
  BY Grown, Separators DEF SkipSpace
<1> DEFINE i == pos + 1
<1>2. i \in 1..Len(w) /\ w[i] \in Spaces
  BY <1>1
<1> HIDE DEF i
<1>3. ASSUME NEW k \in i..Len(w) PROVE ~IsLexeme(w, i, k)
  <2>1. w[i] # Quote /\ w[i] \notin Digits /\ w[i] \notin Letters /\ w[i] \in Plain
    BY <1>2, PlainApart
  <2> QED  BY <1>1, <1>2, <2>1, Kinds DEF IsLexeme
<1>4. Rest(w)[i] = Rest(w)[i + 1]
  BY <1>1, <1>2, <1>3, NoLexeme
<1>5. tokens \o Rest(w)[i] = Rest(w)[1]
  BY DEF InStep, SkipSpace, Base, AtWork, i
<1>6. tokens' = tokens /\ mode' = "start" /\ Base' + 1 = i + 1
  BY <1>1 DEF SkipSpace, Base, AtWork, i
<1> QED  BY <1>4, <1>5, <1>6 DEF InStep, PartRead

LEMMA InStepBegins ==
  ASSUME IInv, NEW kind, NEW S, End \notin S, Begins(kind, S), NEW w, Extends(w)', InStep(w),
         \/ kind = "string" /\ S = {Quote}
         \/ kind = "number" /\ S = Digits
         \/ kind = "word" /\ S = Letters
         \/ kind = "operator" /\ S = Characters \ Plain
  PROVE  InStep(w)'
<1>1. /\ w \in Seq(Characters) /\ pos < Len(w) /\ w[pos + 1] = ahead
      /\ pos \in Nat /\ Len(w) \in Nat /\ pos' = pos + 1 /\ ahead \in S
  BY Grown DEF Begins
<1>2. tokens \o Rest(w)[pos + 1] = Rest(w)[1]
  BY DEF InStep, Begins, Base, AtWork
<1>3. tokens' = tokens /\ mode' = kind /\ begin' = pos /\ literal' = <<>>
  BY DEF Begins
<1>4. Base' = pos /\ mode' # "done"
  BY <1>3 DEF Base, AtWork
<1> DEFINE i == pos + 1
<1>5. i \in Nat /\ w[i] \in S /\ begin' + 1 = i /\ pos' = i
  BY <1>1, <1>3
<1> HIDE DEF i
<1>6. \A k \in i..i : k = i
  BY <1>5
<1>7. PartRead(w, i, i, kind, ahead', <<>>)
  <2>1. CASE kind = "string" /\ S = {Quote}
    <3>1. ~Hidden(w, i, i + 1)
      <4>1. i + 1 \in Nat /\ i < i + 1
        BY <1>5
      <4> QED  BY <1>5, <4>1, HiddenNext
    <3>2. Chars(w, i, i) = <<>>
      <4>1. [k \in 1..(i - i) |-> Character(w, i, i + k)] = <<>>
        BY <1>5
      <4> QED  BY <4>1, FlattenEmpty DEF Chars
    <3>3. (i + 1)..i = {}
      BY <1>5
    <3>4. Unquoted(w, i, i)
      BY <3>3 DEF Unquoted
    <3> QED  BY <1>5, <2>1, <3>1, <3>2, <3>4 DEF PartRead, StringRead
  <2>2. CASE kind = "number" /\ S = Digits
    <3>1. w[i] \in Digits /\ w[i] # "."
      BY <1>5, <2>2, SeparatorsApart
    <3> QED  BY <1>6, <2>2, <3>1 DEF PartRead, NumberRead, IsNumber
  <2>3. CASE kind = "word" /\ S = Letters
    BY <1>5, <1>6, <2>3 DEF PartRead, IsWord
  <2>4. CASE kind = "operator" /\ S = Characters \ Plain
    BY <1>5, <2>4 DEF PartRead, OperatorRead
  <2> QED  BY <2>1, <2>2, <2>3, <2>4
<1>8. tokens' \o Rest(w)[Base' + 1] = Rest(w)[1]
  BY <1>2, <1>3, <1>4
<1>9. PartRead(w, begin' + 1, pos', mode', ahead', literal')
  BY <1>3, <1>5, <1>7
<1> QED  BY <1>4, <1>8, <1>9 DEF InStep

LEMMA InStepStrings ==
  ASSUME IInv, ReadCharacter \/ OpenEscape \/ ReadEscaped, NEW w, Extends(w)', Extends(w), InStep(w)
  PROVE  InStep(w)'
<1> DEFINE i == begin + 1
           j == pos
<1>1. AtWork /\ mode \in {"string", "escape"} /\ begin' = begin /\ tokens' = tokens
  BY DEF ReadCharacter, OpenEscape, ReadEscaped, AtWork
<1>2. /\ w \in Seq(Characters) /\ Len(w) \in Nat /\ i \in Nat /\ i \in 1..Len(w) /\ j \in i..Len(w)
      /\ j \in Nat
  BY <1>1, PartPlace
<1>3. StringRead(w, i, j, mode, ahead, literal)
  BY <1>1 DEF InStep, PartRead, AtWork
<1>4. SUFFICES ASSUME mode' \in {"string", "escape"} /\ begin' + 1 = i
               PROVE  StringRead(w, i, pos', mode', ahead', literal')
  <2>1. mode' \in {"string", "escape"} /\ begin' + 1 = i
    BY <1>1 DEF ReadCharacter, OpenEscape, ReadEscaped
  <2>2. AtWork' /\ PartRead(w, i, pos', mode', ahead', literal')
    BY <1>4, <2>1 DEF PartRead, AtWork
  <2> QED  BY <1>1, <2>2, GoesOn
<1>5. literal \in Seq(Signs)
  BY DEF IInv, Values, Signs
<1> HIDE DEF i, j
<1>6. ASSUME j < Len(w), pos' = j + 1, w[j + 1] # Quote \/ Hidden(w, i, j + 1)
      PROVE  /\ Unquoted(w, i, pos')
             /\ Hidden(w, i, pos' + 1) <=> w[j + 1] = Backslash /\ ~Hidden(w, i, j + 1)
             /\ Chars(w, i, pos') = Chars(w, i, j) \o Character(w, i, j + 1)
             /\ Chars(w, i, j) \in Seq(Signs)
  <2>1. \A k \in (i + 1)..(j + 1) : k = j + 1 \/ k \in (i + 1)..j
    BY <1>2
  <2>2. Unquoted(w, i, j + 1)
    BY <1>3, <1>6, <2>1 DEF Unquoted, StringRead
  <2>3. Chars(w, i, j + 1) = Chars(w, i, j) \o Character(w, i, j + 1)
    BY <1>2, <1>6, CharsNext
  <2>4. Chars(w, i, j) \in Seq(Signs)
    BY <1>2, CharsType
  <2>5. Hidden(w, i, j + 1 + 1) <=> w[j + 1] = Backslash /\ ~Hidden(w, i, j + 1)
    <3> DEFINE k == j + 1
    <3>1. k \in Nat /\ i < k
      BY <1>2
    <3> HIDE DEF k
    <3>2. Hidden(w, i, k + 1) <=> w[k] = Backslash /\ ~Hidden(w, i, k)
      BY <1>2, <3>1, HiddenNext
    <3> QED  BY <3>2 DEF k
  <2> QED  BY <1>6, <2>2, <2>3, <2>4, <2>5
<1>7. CASE ReadCharacter
  <2>1. /\ j < Len(w) /\ w[j + 1] = ahead /\ pos' = j + 1 /\ ahead \in Characters \ {Quote, Backslash}
        /\ ahead # End
    BY <1>7, Grown, CharactersAssumption DEF ReadCharacter, j
  <2>2. ~Hidden(w, i, j + 1) /\ literal = Chars(w, i, j) /\ mode' = "string"
    BY <1>3, <1>7, <2>1 DEF ReadCharacter, StringRead
  <2>3. Character(w, i, j + 1) = <<ahead>>
    BY <2>1, <2>2 DEF Character
  <2>4. literal' = literal \o <<ahead>>
    <3>1. ahead \in Signs /\ literal' = Append(literal, ahead)
      BY <1>7, <2>1 DEF ReadCharacter, Signs
    <3> QED  BY <1>5, <3>1, AppendIsConcat
  <2>5. literal' = Chars(w, i, pos') /\ ~Hidden(w, i, pos' + 1) /\ Unquoted(w, i, pos')
    BY <1>6, <2>1, <2>2, <2>3, <2>4
  <2> QED  BY <1>3, <2>2, <2>5 DEF StringRead
<1>8. CASE OpenEscape
  <2>1. j < Len(w) /\ w[j + 1] = ahead /\ pos' = j + 1 /\ ahead = Backslash /\ ahead # End
    BY <1>8, Grown, Separators DEF OpenEscape, j
  <2>2. ~Hidden(w, i, j + 1) /\ literal = Chars(w, i, j) /\ mode' = "escape" /\ literal' = literal
    BY <1>3, <1>8, <2>1 DEF OpenEscape, StringRead
  <2>3. Character(w, i, j + 1) = <<>>
    BY <2>1, <2>2 DEF Character
  <2>4. w[j + 1] # Quote
    BY <2>1, SeparatorsApart
  <2>5. /\ Chars(w, i, pos') = Chars(w, i, j) \o <<>> /\ Chars(w, i, j) \in Seq(Signs)
        /\ Hidden(w, i, pos' + 1) /\ Unquoted(w, i, pos')
    BY <1>6, <2>1, <2>2, <2>3, <2>4
  <2>6. literal' = Chars(w, i, pos')
    BY <2>2, <2>5, ConcatEmptySeq
  <2> QED  BY <1>3, <2>2, <2>5, <2>6 DEF StringRead
<1>9. CASE ReadEscaped
  <2>1. Hidden(w, i, j + 1) /\ literal = Chars(w, i, j) /\ mode' = "string"
    BY <1>3, <1>9 DEF ReadEscaped, StringRead
  <2>2. literal' = literal \o <<Unescaped(ahead)>>
    <3>1. Unescaped(ahead) \in Signs
      BY DEF IInv, Unescaped, Signs
    <3>2. literal' = Append(literal, Unescaped(ahead))
      BY <1>9 DEF ReadEscaped
    <3> QED  BY <1>5, <3>1, <3>2, AppendIsConcat
  <2>3. CASE get(Characters)
    <3>1. j < Len(w) /\ w[j + 1] = ahead /\ pos' = j + 1
      BY <2>3, Grown, CharactersAssumption DEF j
    <3>2. Character(w, i, j + 1) = <<Unescaped(ahead)>>
      BY <2>1, <3>1 DEF Character
    <3>3. literal' = Chars(w, i, pos') /\ ~Hidden(w, i, pos' + 1) /\ Unquoted(w, i, pos')
      BY <1>6, <2>1, <2>2, <3>1, <3>2
    <3> QED  BY <1>3, <2>1, <3>3 DEF StringRead
  <2>4. CASE ahead = End /\ peek
    <3>1. pos' = j /\ ahead' = End
      BY <2>4, Peeks DEF peek, j
    <3>2. Unescaped(ahead) = Nul
      BY <2>4 DEF Unescaped, End
    <3> QED  BY <1>3, <2>1, <2>2, <3>1, <3>2 DEF StringRead
  <2> QED  BY <1>9, <2>3, <2>4 DEF ReadEscaped
<1> QED  BY <1>7, <1>8, <1>9

LEMMA InStepStringEnds ==
  ASSUME IInv, EndString, NEW w, Extends(w)', Extends(w), InStep(w)
  PROVE  InStep(w)'
<1> DEFINE i == begin + 1
           j == pos
<1>1. AtWork /\ mode = "string" /\ mode' = "start"
  BY DEF EndString, AtWork
<1>2. /\ w \in Seq(Characters) /\ Len(w) \in Nat /\ i \in Nat /\ i \in 1..Len(w) /\ j \in i..Len(w)
      /\ j \in Nat /\ i - 1 = begin
  BY <1>1, PartPlace
<1>3. StringRead(w, i, j, mode, ahead, literal)
  BY <1>1 DEF InStep, PartRead, AtWork
<1>4. CASE get({Quote}) /\ Push("STRING", literal, pos + 1)
  <2>1. j < Len(w) /\ w[j + 1] = Quote /\ pos' = j + 1 /\ ahead # End
    BY <1>4, Grown, Separators
  <2>2. w[i] = Quote /\ Unquoted(w, i, j) /\ ~Hidden(w, i, j + 1) /\ literal = Chars(w, i, j)
    BY <1>1, <1>3, <2>1 DEF StringRead
  <2> HIDE DEF i, j
  <2>3. Rest(w)[i] = <<Token("STRING", Chars(w, i, j), i - 1, j + 1)>> \o Rest(w)[j + 2]
    BY <1>2, <2>1, <2>2, StringCloses
  <2> DEFINE to == j + 1
  <2>4. to \in 0..Len(w) /\ to + 1 = j + 2
    BY <1>2, <2>1
  <2>5. Rest(w)[begin + 1] = <<Token("STRING", literal, begin, to)>> \o Rest(w)[to + 1]
    BY <1>2, <2>2, <2>3, <2>4 DEF i
  <2>6. Push("STRING", literal, to) /\ pos' = to
    BY <1>4, <2>1 DEF j
  <2> HIDE DEF to
  <2> QED  BY <1>1, <2>4, <2>5, <2>6, ConcludesOne
<1>5. CASE ahead = End /\ peek /\ Push("UNKNOWN", literal, pos)
  <2>1. j = Len(w) /\ pos' = j
    BY <1>5, Peeked
  <2>2. w[i] = Quote /\ Unquoted(w, i, j)
    BY <1>3 DEF StringRead
  <2>3. literal = Chars(w, i, j) \o IF Hidden(w, i, j + 1) THEN <<Nul>> ELSE <<>>
    <3>1. CASE Hidden(w, i, j + 1)
      BY <1>1, <1>3, <3>1 DEF StringRead
    <3>2. CASE ~Hidden(w, i, j + 1)
      <4>1. literal = Chars(w, i, j)
        BY <3>2, <1>3 DEF StringRead
      <4>2. Chars(w, i, j) \in Seq(Signs)
        <5> HIDE DEF i, j
        <5> QED  BY <1>2, CharsType
      <4>3. Chars(w, i, j) \o <<>> = Chars(w, i, j)
        BY <4>2, ConcatEmptySeq
      <4> QED  BY <3>2, <4>1, <4>3
    <3> QED  BY <3>1, <3>2
  <2> HIDE DEF i, j
  <2>4. Rest(w)[i] =
          <<Token("UNKNOWN", Chars(w, i, Len(w)) \o IF Hidden(w, i, Len(w) + 1) THEN <<Nul>> ELSE <<>>,
                  i - 1, Len(w))>> \o Rest(w)[Len(w) + 1]
    BY <1>2, <2>1, <2>2, StringIsOpen
  <2>5. Rest(w)[begin + 1] = <<Token("UNKNOWN", literal, begin, j)>> \o Rest(w)[j + 1]
    BY <1>2, <2>1, <2>3, <2>4 DEF i
  <2>6. Push("UNKNOWN", literal, j) /\ j \in 0..Len(w)
    BY <1>2, <1>5 DEF j
  <2> QED  BY <1>1, <2>1, <2>5, <2>6, ConcludesOne
<1> QED  BY <1>4, <1>5 DEF EndString

LEMMA InStepReads ==
  ASSUME IInv, ReadNumber \/ ReadWord \/ ReadOperator, NEW w, Extends(w)', Extends(w), InStep(w)
  PROVE  InStep(w)'
<1> DEFINE i == begin + 1
           j == pos
           S == Characters \cap
                  IF mode = "word" THEN Letters \cup Digits
                  ELSE IF mode = "operator" THEN {c \in Characters : Continues(Append(Text, c))}
                  ELSE Digits \cup IF mode = "number" THEN {"."} ELSE {}
<1>1. /\ AtWork /\ mode \in {"number", "float", "word", "operator"}
      /\ begin' = begin /\ tokens' = tokens /\ literal' = literal
  BY DEF ReadNumber, ReadWord, ReadOperator, AtWork
<1>2. /\ w \in Seq(Characters) /\ Len(w) \in Nat /\ i \in Nat /\ i \in 1..Len(w) /\ j \in i..Len(w)
      /\ j \in Nat
  BY <1>1, PartPlace
<1>3. PartRead(w, i, j, mode, ahead, literal)
  BY <1>1 DEF InStep, AtWork
<1>4. ahead \in Characters
  <2>1. ahead # End
    <3>1. End \notin Characters /\ End \notin Digits \cup {"."} /\ End \notin Letters
      BY Separators, CharactersAssumption DEF End
    <3> QED  BY <3>1 DEF ReadNumber, ReadWord, ReadOperator, get
  <2> QED  BY <2>1 DEF IInv
<1>5. get(S)
  BY <1>4 DEF ReadNumber, ReadWord, ReadOperator, get
<1>6. j < Len(w) /\ w[j + 1] = ahead /\ pos' = j + 1
  <2>1. End \notin S
    BY CharactersAssumption
  <2> HIDE DEF S
  <2> QED  BY <1>5, <2>1, Grown
<1>7. Text = SubSeq(w, i, j)
  BY <1>1, TextIs
<1>8. begin' + 1 = i
  BY <1>1
<1> HIDE DEF i, j, S
<1>9. \A k \in i..(j + 1) : k = j + 1 \/ k \in i..j
  BY <1>2
<1>10. j + 1 \in i..(j + 1) /\ j + 1 \notin i..j /\ \A k \in i..j : k \in i..(j + 1)
  BY <1>2
<1>11. CASE ReadNumber
  <2>1. NumberRead(w, i, j, mode) /\ ahead \in Digits \cup IF mode = "number" THEN {"."} ELSE {}
    BY <1>3, <1>11 DEF ReadNumber, PartRead, get
  <2>2. mode' = IF ahead = "." THEN "float" ELSE mode
    BY <1>11 DEF ReadNumber
  <2>3. mode \in {"number", "float"} /\ mode' \in {"number", "float"}
    BY <1>11, <2>2 DEF ReadNumber
  <2>4. "." \notin Digits
    BY SeparatorsApart
  <2>5. ahead = "." => mode = "number" /\ \A k \in i..j : w[k] # "."
    BY <2>1, <2>3, <2>4 DEF NumberRead
  <2>6. IsNumber(w, i, j + 1)
    <3>1. w[i] \in Digits /\ \A k \in i..(j + 1) : w[k] \in Digits \cup {"."}
      BY <1>6, <1>9, <2>1 DEF NumberRead, IsNumber
    <3>2. ASSUME NEW k \in i..(j + 1), NEW m \in i..(j + 1), w[k] = ".", w[m] = "."
          PROVE  k = m
      <4>1. CASE k \in i..j /\ m \in i..j
        BY <2>1, <3>2, <4>1 DEF NumberRead, IsNumber
      <4>2. CASE k = j + 1 /\ m \in i..j
        BY <1>6, <2>5, <3>2, <4>2
      <4>3. CASE m = j + 1 /\ k \in i..j
        BY <1>6, <2>5, <3>2, <4>3
      <4>4. CASE k = j + 1 /\ m = j + 1
        BY <4>4
      <4> QED  BY <1>9, <4>1, <4>2, <4>3, <4>4
    <3> QED  BY <3>1, <3>2 DEF IsNumber
  <2>7. mode' = "float" <=> \E k \in i..(j + 1) : w[k] = "."
    <3>1. CASE ahead = "."
      BY <1>6, <1>10, <2>2, <3>1
    <3>2. CASE ahead # "."
      <4>1. mode' = mode
        BY <2>2, <3>2
      <4>2. (\E k \in i..(j + 1) : w[k] = ".") <=> \E k \in i..j : w[k] = "."
        BY <1>6, <1>9, <1>10, <3>2
      <4> QED  BY <2>1, <4>1, <4>2 DEF NumberRead
    <3> QED  BY <3>1, <3>2
  <2>8. PartRead(w, i, j + 1, mode', ahead', literal')
    BY <2>3, <2>6, <2>7 DEF PartRead, NumberRead
  <2>9. AtWork'
    BY <2>3 DEF AtWork
  <2> QED  BY <1>1, <1>6, <2>8, <2>9, GoesOn DEF i
<1>12. CASE ReadWord
  <2>1. IsWord(w, i, j) /\ ahead \in Letters \cup Digits /\ mode = "word" /\ mode' = mode
    BY <1>3, <1>12 DEF ReadWord, PartRead, get
  <2>2. IsWord(w, i, j + 1)
    BY <1>6, <1>9, <2>1 DEF IsWord
  <2>3. PartRead(w, i, j + 1, mode', ahead', literal') /\ AtWork'
    BY <2>1, <2>2 DEF PartRead, AtWork
  <2> QED  BY <1>1, <1>6, <2>3, GoesOn DEF i
<1>13. CASE ReadOperator
  <2>1. /\ OperatorRead(w, i, j) /\ Continues(Append(Text, ahead)) /\ mode = "operator"
        /\ mode' = mode
    BY <1>3, <1>13 DEF ReadOperator, PartRead, get
  <2>2. Append(Text, ahead) = SubSeq(w, i, j + 1) /\ SubSeq(w, i, j + 1) # <<>>
        /\ SubSeq(w, i, j + 1) \in Seq(Characters)
    BY <1>2, <1>6, <1>7, PieceGrows
  <2>3. SubSeq(w, i, j + 1) \in Texts
    BY <2>1, <2>2, Continuing
  <2>4. PartRead(w, i, j + 1, mode', ahead', literal') /\ AtWork'
    BY <2>1, <2>3 DEF PartRead, OperatorRead, AtWork
  <2> QED  BY <1>1, <1>6, <2>4, GoesOn DEF i
<1> QED  BY <1>11, <1>12, <1>13

LEMMA InStepEnds ==
  ASSUME IInv, EndNumber \/ EndWord \/ EndOperator, NEW w, Extends(w)', Extends(w), InStep(w)
  PROVE  InStep(w)'
<1> DEFINE i == begin + 1
           j == pos
<1>1. /\ AtWork /\ mode \in {"number", "float", "word", "operator"} /\ mode' = "start" /\ peek
  BY DEF EndNumber, EndWord, EndOperator, AtWork
<1>2. /\ w \in Seq(Characters) /\ Len(w) \in Nat /\ i \in Nat /\ i \in 1..Len(w) /\ j \in i..Len(w)
      /\ j \in Nat /\ i - 1 = begin /\ j \in 0..Len(w)
  BY <1>1, PartPlace
<1>3. PartRead(w, i, j, mode, ahead, literal)
  BY <1>1 DEF InStep, AtWork
<1>4. pos' = j /\ (j = Len(w) \/ (j < Len(w) /\ w[j + 1] = ahead))
  BY <1>1, Peeked
<1>5. Text = SubSeq(w, i, j)
  BY <1>1, TextIs
<1> HIDE DEF i, j
<1>6. CASE EndNumber
  <2>1. NumberRead(w, i, j, mode)
    BY <1>3, <1>6 DEF EndNumber, PartRead
  <2> DEFINE type == IF \E k \in i..j : w[k] = "." THEN "NUMBER_FLOAT" ELSE "NUMBER"
  <2>2. /\ Push(type, Text, j)
        /\ ahead \notin Digits \cup {"."} \/ (ahead \notin Digits /\ \E k \in i..j : w[k] = ".")
    <3>1. CASE mode = "number" /\ ahead \notin Digits \cup {"."} /\ Push("NUMBER", Text, pos)
      BY <2>1, <3>1 DEF NumberRead, j
    <3>2. CASE mode = "float" /\ ahead \notin Digits /\ Push("NUMBER_FLOAT", Text, pos)
      BY <2>1, <3>2 DEF NumberRead, j
    <3> QED  BY <1>6, <3>1, <3>2 DEF EndNumber
  <2>3. IsNumber(w, i, j)
    BY <2>1 DEF NumberRead
  <2>4. Rest(w)[i] = <<Token(type, SubSeq(w, i, j), i - 1, j)>> \o Rest(w)[j + 1]
    BY <1>2, <1>4, <2>2, <2>3, NumberEnds
  <2> HIDE DEF type
  <2>5. Rest(w)[begin + 1] = <<Token(type, Text, begin, j)>> \o Rest(w)[j + 1]
    BY <1>2, <1>5, <2>4 DEF i
  <2> QED  BY <1>1, <1>2, <1>4, <2>2, <2>5, ConcludesOne
<1>7. CASE EndWord
  <2> DEFINE type == IF Text \in DOMAIN keywords THEN keywords[Text] ELSE "IDENTIFIER"
  <2>1. IsWord(w, i, j) /\ ahead \notin Letters \cup Digits /\ Push(type, Text, j)
    BY <1>3, <1>7 DEF EndWord, PartRead, j
  <2>2. Rest(w)[i] = <<Token(type, Text, begin, j)>> \o Rest(w)[j + 1]
    BY <1>2, <1>4, <1>5, <2>1, WordEnds
  <2> HIDE DEF type
  <2>3. Rest(w)[begin + 1] = <<Token(type, Text, begin, j)>> \o Rest(w)[j + 1]
    BY <2>2 DEF i
  <2> QED  BY <1>1, <1>2, <1>4, <2>1, <2>3, ConcludesOne
<1>8. CASE EndOperator
  <2> DEFINE type == IF Text \in Operators THEN OperatorType[Text] ELSE "UNKNOWN"
  <2>1. OperatorRead(w, i, j) /\ ~Continues(Append(Text, ahead))
    BY <1>3, <1>8 DEF EndOperator, PartRead
  <2>2. j = Len(w) \/ SubSeq(w, i, j + 1) \notin Texts
    <3> SUFFICES ASSUME j < Len(w), w[j + 1] = ahead PROVE SubSeq(w, i, j + 1) \notin Texts
      BY <1>4
    <3>1. /\ Append(Text, ahead) = SubSeq(w, i, j + 1) /\ SubSeq(w, i, j + 1) # <<>>
          /\ SubSeq(w, i, j + 1) \in Seq(Characters)
      BY <1>2, <1>5, PieceGrows
    <3> QED  BY <2>1, <3>1, Continuing
  <2>3. Rest(w)[i] = (IF Text \in Dropped THEN <<>> ELSE <<Token(type, Text, begin, j)>>) \o Rest(w)[j + 1]
    BY <1>2, <1>5, <2>1, <2>2, OperatorEnds DEF OperatorRead
  <2> HIDE DEF type
  <2>4. CASE Text \in Dropped
    <3>1. tokens' = tokens
      BY <1>8, <2>4 DEF EndOperator
    <3>2. tokens \in Seq(TokenRecords)
      BY DEF IInv, Ordered
    <3> DEFINE part == <<>>
    <3>3. tokens' = tokens \o part /\ part \in Seq({})
      BY <3>1, <3>2, ConcatEmptySeq
    <3>4. Rest(w)[begin + 1] = part \o Rest(w)[j + 1]
      BY <2>3, <2>4 DEF i
    <3> HIDE DEF part
    <3> QED  BY <1>1, <1>2, <1>4, <3>3, <3>4, Concludes
  <2>5. CASE Text \notin Dropped
    <3>1. Push(type, Text, j)
      BY <1>8, <2>5 DEF EndOperator, type, j
    <3>2. Rest(w)[begin + 1] = <<Token(type, Text, begin, j)>> \o Rest(w)[j + 1]
      BY <2>3, <2>5 DEF i
    <3> QED  BY <1>1, <1>2, <1>4, <3>1, <3>2, ConcludesOne
  <2> QED  BY <2>4, <2>5
<1> QED  BY <1>6, <1>7, <1>8

LEMMA InStepFinishes ==
  ASSUME IInv, Finish, NEW w, Extends(w)', Extends(w), InStep(w)
  PROVE  InStep(w)'
<1>1. w = read /\ pos = Len(w) /\ w \in Seq(Characters)
  BY Peeked DEF Finish
<1>2. tokens \o Rest(w)[pos + 1] = Rest(w)[1]
  BY DEF InStep, Finish, Base, AtWork
<1>3. Rest(w)[Len(w) + 1] = <<EndToken(w)>>
  BY <1>1, NoMore
<1>4. tokens' = Append(tokens, EndToken(w))
  BY <1>1 DEF Finish, EndToken
<1>5. tokens' = tokens \o <<EndToken(w)>>
  <2> DEFINE S == TokenRecords \cup {EndToken(w)}
  <2>1. tokens \in Seq(TokenRecords)
    BY DEF IInv, Ordered
  <2>2. tokens \in Seq(S) /\ EndToken(w) \in S
    BY <2>1, SeqMonotonic
  <2> HIDE DEF S
  <2> QED  BY <1>4, <2>2, AppendIsConcat
<1>6. tokens' = Rest(w)[1]
  BY <1>1, <1>2, <1>3, <1>5
<1> QED  BY <1>6 DEF InStep, Finish

LEMMA InitScanned == Init => Scanned
<1> SUFFICES ASSUME Init PROVE Scanned
  OBVIOUS
<1>1. ASSUME NEW w, Extends(w) PROVE InStep(w)
  <2>1. w \in Seq(Characters) /\ 1 \in 1..(Len(w) + 1)
    BY <1>1, LenProperties DEF Extends
  <2>2. Rest(w)[1] \in Seq(Pieces(w))
    BY <2>1, RestType
  <2>3. tokens = <<>> /\ mode = "start" /\ Base = 0
    BY DEF Init, Base, AtWork, pos
  <2>4. <<>> \o Rest(w)[1] = Rest(w)[1]
    BY <2>2, ConcatEmptySeq
  <2> QED  BY <2>3, <2>4 DEF InStep, PartRead
<1> QED  BY <1>1 DEF Scanned, Init

LEMMA ReadsOrPeeks == Next => (\E S : End \notin S /\ get(S)) \/ peek
<1>1. /\ End \notin Spaces /\ End \notin {Quote} /\ End \notin {Backslash}
      /\ End \notin Digits /\ End \notin Letters /\ End \notin Characters
      /\ End \notin Letters \cup Digits
  BY Separators, CharactersAssumption
<1>2. /\ End \notin Characters \ {Quote, Backslash}
      /\ End \notin Characters \ (Spaces \cup {Quote} \cup Digits \cup Letters)
      /\ End \notin {c \in Characters : Continues(Append(Text, c))}
  BY <1>1
<1>3. End \notin Digits \cup IF mode = "number" THEN {"."} ELSE {}
  BY <1>1 DEF End
<1> QED  BY <1>1, <1>2, <1>3, Zenon
         DEF Next, SkipSpace, OpenString, BeginNumber, BeginWord, BeginOperator, Begins,
             ReadCharacter, OpenEscape, ReadEscaped, EndString, ReadNumber, EndNumber,
             ReadWord, EndWord, ReadOperator, EndOperator, Finish

LEMMA NextScanned == IInv /\ Scanned /\ [Next]_vars => Scanned'
<1> SUFFICES ASSUME IInv, Scanned, [Next]_vars PROVE Scanned'
  OBVIOUS
<1>1. CASE Next
  <2>1. (mode = "done" => ahead = End)'
    BY <1>1 DEF Next, SkipSpace, OpenString, BeginNumber, BeginWord, BeginOperator, Begins,
                ReadCharacter, OpenEscape, ReadEscaped, EndString, ReadNumber, EndNumber,
                ReadWord, EndWord, ReadOperator, EndOperator, Finish, peek, Scanned
  <2>2. ASSUME NEW w, Extends(w)' PROVE InStep(w)'
    <3>1. Extends(w)
      <4>1. (\E S : End \notin S /\ get(S)) \/ peek
        BY <1>1, ReadsOrPeeks
      <4> QED  BY <2>2, <4>1, Grown, Peeked
    <3>2. InStep(w)
      BY <3>1 DEF Scanned
    <3>3. CASE OpenString \/ BeginNumber \/ BeginWord \/ BeginOperator
      <4>1. CASE OpenString
        BY <2>2, <3>2, <4>1, InStepBegins, Separators DEF OpenString
      <4>2. CASE BeginNumber
        BY <2>2, <3>2, <4>2, InStepBegins, Separators DEF BeginNumber
      <4>3. CASE BeginWord
        BY <2>2, <3>2, <4>3, InStepBegins, Separators DEF BeginWord
      <4>4. CASE BeginOperator
        <5>1. Begins("operator", Characters \ Plain)
          BY <4>4 DEF BeginOperator, Plain
        <5>2. End \notin Characters \ Plain
          BY CharactersAssumption
        <5> QED  BY <2>2, <3>2, <5>1, <5>2, InStepBegins
      <4> QED  BY <3>3, <4>1, <4>2, <4>3, <4>4
    <3> QED  BY <1>1, <2>2, <3>1, <3>2, <3>3, InStepSkips, InStepStrings, InStepStringEnds, InStepReads,
                InStepEnds, InStepFinishes DEF Next
  <2> QED  BY <2>1, <2>2 DEF Scanned
<1>2. CASE UNCHANGED vars
  <2>1. \A w : (Extends(w)' <=> Extends(w)) /\ (InStep(w)' <=> InStep(w))
    BY <1>2 DEF vars, Extends, InStep, pos, Base, AtWork
  <2> QED  BY <1>2, <2>1 DEF vars, Scanned
<1> QED  BY <1>1, <1>2

(* Whatever the source, the tokens are those the grammar has: at each      *)
(* position the longest piece that is a lexeme, with the value and the     *)
(* place it has there.                                                     *)
THEOREM TokensAreWritten == Spec => []TokensAsWritten
<1>1. IInv /\ Scanned => TokensAsWritten
  <2> SUFFICES ASSUME IInv, Scanned, mode = "done" PROVE tokens = TokensOf(read)
    BY DEF TokensAsWritten
  <2>1. Extends(read)
    BY LenProperties DEF Extends, IInv, Scanned, pos
  <2>2. tokens = Rest(read)[1] /\ read \in Seq(Characters)
    BY <2>1 DEF Scanned, InStep, IInv
  <2> QED  BY <2>2, TokensAreRest
<1>2. Spec => [](IInv /\ Scanned)
  BY InitIInv, NextIInv, InitScanned, NextScanned, PTL DEF Spec
<1> QED  BY <1>1, <1>2, PTL

(***************************************************************************)
(* Lines.  The offsets of a source are those of its newlines, in order.    *)
(***************************************************************************)
LineParts(s) == [i \in DOMAIN s |-> IF s[i] = Newline THEN <<i>> ELSE <<>>]

(* t has the newlines of s up to n, in order.                              *)
NewlinesUpTo(t, s, n) ==
  /\ t \in Seq(Nat)
  /\ \A k \in 1..Len(t) : t[k] \in 1..n /\ s[t[k]] = Newline
  /\ \A k, m \in 1..Len(t) : k < m => t[k] < t[m]
  /\ \A i \in 1..n : s[i] = Newline => \E k \in 1..Len(t) : t[k] = i

LEMMA NewlinesNext ==
  ASSUME NEW s, NEW n \in Nat, NEW t, NewlinesUpTo(t, s, n)
  PROVE  NewlinesUpTo(t \o (IF s[n + 1] = Newline THEN <<n + 1>> ELSE <<>>), s, n + 1)
<1>0. t \in Seq(Nat) /\ Len(t) \in Nat
  BY LenProperties DEF NewlinesUpTo
<1>1. CASE s[n + 1] # Newline
  <2>1. t \o <<>> = t
    BY <1>0, ConcatEmptySeq
  <2>2. \A i \in 1..(n + 1) : i \in 1..n \/ i = n + 1
    OBVIOUS
  <2>3. \A i \in 1..n : i \in 1..(n + 1)
    OBVIOUS
  <2> QED  BY <1>1, <2>1, <2>2, <2>3 DEF NewlinesUpTo
<1>2. CASE s[n + 1] = Newline
  <2> DEFINE u == t \o <<n + 1>>
             q == Len(t)
  <2>1. u = Append(t, n + 1)
    BY <1>0, AppendIsConcat
  <2>2. /\ u \in Seq(Nat) /\ Len(u) = q + 1 /\ u[q + 1] = n + 1 /\ q \in Nat
        /\ \A k \in 1..q : u[k] = t[k]
    BY <1>0, <2>1, AppendProperties
  <2>3. /\ \A k \in 1..q : t[k] \in 1..n /\ s[t[k]] = Newline
        /\ \A k, m \in 1..q : k < m => t[k] < t[m]
        /\ \A i \in 1..n : s[i] = Newline => \E k \in 1..q : t[k] = i
    BY DEF NewlinesUpTo
  <2> HIDE DEF u, q
  <2>4. \A k \in 1..(q + 1) : k \in 1..q \/ k = q + 1
    BY <2>2
  <2>5. \A k \in 1..(q + 1) : u[k] \in 1..(n + 1) /\ s[u[k]] = Newline
    <3> TAKE k \in 1..(q + 1)
    <3>1. CASE k \in 1..q
      BY <2>2, <2>3, <3>1
    <3>2. CASE k = q + 1
      BY <1>2, <2>2, <3>2
    <3> QED  BY <2>4, <3>1, <3>2
  <2>6. \A k, m \in 1..(q + 1) : k < m => u[k] < u[m]
    <3> SUFFICES ASSUME NEW k \in 1..(q + 1), NEW m \in 1..(q + 1), k < m PROVE u[k] < u[m]
      OBVIOUS
    <3>1. k \in 1..q
      BY <2>2
    <3>2. CASE m \in 1..q
      BY <2>2, <2>3, <3>1, <3>2
    <3>3. CASE m = q + 1
      <4>1. u[k] \in 1..n /\ u[m] = n + 1
        BY <2>2, <2>3, <3>1, <3>3
      <4> QED  BY <4>1
    <3> QED  BY <2>4, <3>2, <3>3
  <2>7. \A i \in 1..(n + 1) : s[i] = Newline => \E k \in 1..(q + 1) : u[k] = i
    <3> SUFFICES ASSUME NEW i \in 1..(n + 1), s[i] = Newline PROVE \E k \in 1..(q + 1) : u[k] = i
      OBVIOUS
    <3>1. CASE i = n + 1
      <4>1. q + 1 \in 1..(q + 1)
        BY <2>2
      <4> QED  BY <2>2, <3>1, <4>1
    <3>2. CASE i # n + 1
      <4>1. i \in 1..n
        BY <3>2
      <4>2. PICK k \in 1..q : t[k] = i
        BY <2>3, <4>1
      <4>3. k \in 1..(q + 1) /\ u[k] = i
        BY <2>2, <4>2
      <4> QED  BY <4>3
    <3> QED  BY <3>1, <3>2
  <2>8. NewlinesUpTo(u, s, n + 1)
    BY <2>2, <2>5, <2>6, <2>7 DEF NewlinesUpTo
  <2> QED  BY <1>2, <2>8 DEF u
<1> QED  BY <1>1, <1>2

LEMMA NewlinesFlat ==
  ASSUME NEW S, NEW s \in Seq(S)
  PROVE  NewlinesUpTo(FlattenSeq(LineParts(s)), s, Len(s))
<1> DEFINE p == LineParts(s)
           n == Len(s)
<1>1. n \in Nat /\ DOMAIN s = 1..n
  BY LenProperties
<1>2. \A k \in 1..n : p[k] = IF s[k] = Newline THEN <<k>> ELSE <<>>
  BY <1>1 DEF LineParts
<1>3. p \in Seq(Seq(Nat)) /\ Len(p) = n
  <2>1. p = [k \in 1..n |-> p[k]]
    BY <1>1 DEF LineParts
  <2>2. \A k \in 1..n : p[k] \in Seq(Nat)
    <3> TAKE k \in 1..n
    <3>1. k \in Nat
      BY <1>1
    <3>2. <<k>> \in Seq(Nat) /\ <<>> \in Seq(Nat)
      BY <3>1
    <3> QED  BY <1>2, <3>2
  <2> HIDE DEF p, n
  <2> QED  BY <1>1, <2>1, <2>2, Made
<1>4. PICK f : Flats(f, p, n) /\ FlattenSeq(p) = IF n = 0 THEN p ELSE f[n]
  BY <1>3, Flattens
<1>5. NewlinesUpTo(<<>>, s, 0)
  <2>1. <<>> \in Seq(Nat) /\ Len(<<>>) = 0 /\ 1..0 = {}
    OBVIOUS
  <2> QED  BY <2>1 DEF NewlinesUpTo
<1> HIDE DEF p, n
<1>6. \A k \in 1..n : NewlinesUpTo(f[k], s, k)
  <2> DEFINE bad == {k \in 1..n : ~NewlinesUpTo(f[k], s, k)}
  <2> SUFFICES ASSUME bad # {} PROVE FALSE
    OBVIOUS
  <2>1. PICK k \in bad : \A m \in bad : k <= m
    <3>1. bad \in SUBSET Nat
      BY <1>1
    <3> HIDE DEF bad
    <3> QED  BY <3>1, Least
  <2>2. k \in 1..n /\ ~NewlinesUpTo(f[k], s, k)
    BY <2>1
  <2>3. f[k] = IF k = 1 THEN p[k] ELSE f[k - 1] \o p[k]
    BY <1>4, <2>2, FlatsAt
  <2> DEFINE m == k - 1
  <2>4. m \in Nat /\ k = m + 1 /\ ~(k <= m) /\ (k # 1 => m \in 1..n) /\ (k = 1 => m = 0)
    BY <1>1, <2>2
  <2>5. p[k] = IF s[k] = Newline THEN <<k>> ELSE <<>>
    BY <1>2, <2>2
  <2>6. CASE k = 1
    <3>1. <<>> \o p[k] = p[k]
      <4>1. p[k] \in Seq(Nat)
        BY <1>3, <2>2, ElementOfSeq
      <4> QED  BY <4>1, ConcatEmptySeq
    <3> HIDE DEF m
    <3>2. NewlinesUpTo(<<>> \o (IF s[m + 1] = Newline THEN <<m + 1>> ELSE <<>>), s, m + 1)
      BY <1>5, <2>4, <2>6, NewlinesNext
    <3> QED  BY <2>2, <2>3, <2>4, <2>5, <2>6, <3>1, <3>2
  <2>7. CASE k # 1
    <3>1. NewlinesUpTo(f[m], s, m)
      BY <2>1, <2>4, <2>7
    <3>2. f[k] = f[m] \o p[k]
      BY <2>3, <2>7
    <3> HIDE DEF m, bad
    <3>3. NewlinesUpTo(f[m] \o (IF s[m + 1] = Newline THEN <<m + 1>> ELSE <<>>), s, m + 1)
      BY <2>4, <3>1, NewlinesNext
    <3> QED  BY <2>2, <2>4, <2>5, <3>2, <3>3
  <2> QED  BY <2>6, <2>7
<1>7. CASE n = 0
  <2>1. p = <<>>
    BY <1>3, <1>7, EmptySeq
  <2> QED  BY <1>4, <1>5, <1>7, <2>1 DEF n, p
<1>8. CASE n # 0
  <2>1. n \in 1..n
    BY <1>1, <1>8
  <2> QED  BY <1>4, <1>6, <1>8, <2>1 DEF n, p
<1> QED  BY <1>7, <1>8

IsOffsets(o, s) ==
  /\ o \in Seq(Nat) /\ Len(o) >= 1 /\ o[1] = 0
  /\ \A k \in 2..Len(o) : o[k] \in 1..Len(s) /\ s[o[k]] = Newline
  /\ \A k, m \in 1..Len(o) : k < m => o[k] < o[m]
  /\ \A i \in 1..Len(s) : s[i] = Newline => \E k \in 2..Len(o) : o[k] = i

LEMMA Offsets ==
  ASSUME NEW S, NEW s \in Seq(S)
  PROVE  IsOffsets(LineOffsets(s), s)
<1> DEFINE t == FlattenSeq(LineParts(s))
           o == LineOffsets(s)
           q == Len(t)
<1>1. NewlinesUpTo(t, s, Len(s))
  BY NewlinesFlat
<1>2. o = <<0>> \o t
  BY DEF LineOffsets, LineParts
<1>3. t \in Seq(Nat) /\ q \in Nat /\ <<0>> \in Seq(Nat) /\ Len(<<0>>) = 1 /\ <<0>>[1] = 0
  BY <1>1, LenProperties DEF NewlinesUpTo
<1> HIDE DEF t, o
<1> DEFINE z == <<0>>
<1>4. z \in Seq(Nat) /\ Len(z) = 1 /\ z[1] = 0 /\ o = z \o t
  BY <1>2, <1>3
<1> HIDE DEF z
<1>5. /\ z \o t \in Seq(Nat) /\ Len(z \o t) = Len(z) + Len(t)
      /\ \A i \in 1..(Len(z) + Len(t)) :
           (z \o t)[i] = IF i <= Len(z) THEN z[i] ELSE t[i - Len(z)]
  BY <1>3, <1>4, ConcatProperties
<1>6. /\ o \in Seq(Nat) /\ Len(o) = 1 + q
      /\ \A i \in 1..(1 + q) : o[i] = IF i <= 1 THEN z[i] ELSE t[i - 1]
  BY <1>4, <1>5
<1> HIDE DEF q
<1>7. 1 \in 1..(1 + q) /\ o[1] = 0
  BY <1>3, <1>4, <1>6
<1>8. ASSUME NEW k \in 2..(1 + q)
      PROVE  k \in 1..(1 + q) /\ k - 1 \in 1..q /\ o[k] = t[k - 1] /\ k - 1 \in Nat
  <2>1. k \in 1..(1 + q) /\ k - 1 \in 1..q /\ ~(k <= 1) /\ k - 1 \in Nat
    BY <1>3
  <2>2. o[k] = IF k <= 1 THEN z[k] ELSE t[k - 1]
    BY <1>6, <2>1
  <2> QED  BY <2>1, <2>2
<1>9. /\ \A k \in 1..q : t[k] \in 1..Len(s) /\ s[t[k]] = Newline
      /\ \A k, m \in 1..q : k < m => t[k] < t[m]
      /\ \A i \in 1..Len(s) : s[i] = Newline => \E k \in 1..q : t[k] = i
  BY <1>1 DEF NewlinesUpTo, q
<1>10. \A k \in 2..(1 + q) : o[k] \in 1..Len(s) /\ s[o[k]] = Newline
  BY <1>8, <1>9
<1>11. ASSUME NEW k \in 1..(1 + q), NEW m \in 1..(1 + q), k < m PROVE o[k] < o[m]
  <2>1. m \in 2..(1 + q)
    BY <1>3, <1>11
  <2>2. CASE k = 1
    <3>1. o[m] \in 1..Len(s)
      BY <1>10, <2>1
    <3>2. Len(s) \in Nat
      BY LenProperties
    <3> QED  BY <1>7, <2>2, <3>1, <3>2
  <2>3. CASE k # 1
    <3>1. k \in 2..(1 + q)
      BY <1>3, <2>3
    <3>2. k - 1 \in 1..q /\ m - 1 \in 1..q /\ k - 1 < m - 1
      BY <1>3, <1>8, <1>11, <2>1, <3>1
    <3> QED  BY <1>8, <1>9, <2>1, <3>1, <3>2
  <2> QED  BY <2>2, <2>3
<1>12. ASSUME NEW i \in 1..Len(s), s[i] = Newline PROVE \E k \in 2..(1 + q) : o[k] = i
  <2>1. PICK k \in 1..q : t[k] = i
    BY <1>9, <1>12
  <2>2. k + 1 \in 2..(1 + q) /\ k + 1 - 1 = k
    BY <1>3
  <2>3. o[k + 1] = i
    BY <1>8, <2>1, <2>2
  <2> QED  BY <2>2, <2>3
<1>13. Len(o) >= 1
  BY <1>3, <1>6
<1>14. IsOffsets(o, s)
  BY <1>6, <1>7, <1>10, <1>11, <1>12, <1>13 DEF IsOffsets
<1> QED  BY <1>14 DEF o

(* Where a line begins: the first lines are those not behind an offset.    *)
LEMMA LineOf ==
  ASSUME NEW S, NEW s \in Seq(S), NEW at \in 0..Len(s)
  PROVE  /\ IsOffsets(LineOffsets(s), s)
         /\ GetLineCol(s, at).line \in 1..Len(LineOffsets(s))
         /\ \A k \in 1..Len(LineOffsets(s)) :
              LineOffsets(s)[k] <= at <=> k <= GetLineCol(s, at).line
         /\ GetLineCol(s, at).col = at - LineOffsets(s)[GetLineCol(s, at).line] + 1
         /\ GetLineCol(s, at).line = 1 + Cardinality({i \in 1..at : s[i] = Newline})
<1> DEFINE o == LineOffsets(s)
           line == GetLineCol(s, at).line
<1>0. o = LineOffsets(s) /\ line = GetLineCol(s, at).line
  OBVIOUS
<1> HIDE DEF o, line
<1> DEFINE q == Len(o)
           below == {k \in 1..q : o[k] <= at}
           above == {k \in 1..(q + 1) : k = q + 1 \/ ~(o[k] <= at)}
<1>1. IsOffsets(o, s)
  BY <1>0, Offsets
<1>2. /\ o \in Seq(Nat) /\ q \in Nat /\ q >= 1 /\ o[1] = 0 /\ DOMAIN o = 1..q
      /\ \A k \in 2..q : o[k] \in 1..Len(s) /\ s[o[k]] = Newline
      /\ \A k, m \in 1..q : k < m => o[k] < o[m]
      /\ \A i \in 1..Len(s) : s[i] = Newline => \E k \in 2..q : o[k] = i
      /\ \A k \in 1..q : o[k] \in Nat
      /\ at \in Nat /\ Len(s) \in Nat
  BY <1>1, LenProperties, ElementOfSeq DEF IsOffsets
<1> HIDE DEF q
<1>3. PICK first \in above : \A k \in above : first <= k
  <2>1. above \in SUBSET Nat /\ q + 1 \in above
    BY <1>2
  <2> HIDE DEF above
  <2> QED  BY <2>1, Least
<1> DEFINE last == first - 1
<1>4. first \in 1..(q + 1) /\ first # 1
  <2>1. first \in 1..(q + 1)
    BY <1>3
  <2>2. 1 \in 1..q /\ 1 # q + 1
    BY <1>2
  <2>3. o[1] <= at
    BY <1>2
  <2> QED  BY <1>3, <2>1, <2>2, <2>3
<1>5. last \in 1..q /\ first = last + 1
  BY <1>2, <1>4
<1>6. ASSUME NEW k \in 1..q PROVE o[k] <= at <=> k <= last
  <2>1. CASE k <= last
    <3>1. k \in 1..(q + 1) /\ ~(first <= k) /\ k # q + 1
      BY <1>2, <1>5, <2>1
    <3>2. k \notin above
      BY <1>3, <3>1
    <3>3. o[k] <= at
      BY <3>1, <3>2
    <3> QED  BY <2>1, <3>3
  <2>2. CASE ~(k <= last)
    <3>1. first <= k /\ first \in 1..q
      BY <1>2, <1>5, <2>2
    <3>2. ~(o[first] <= at)
      BY <1>2, <1>3, <3>1
    <3>3. first = k \/ o[first] < o[k]
      BY <1>2, <3>1
    <3>4. o[first] \in Nat /\ o[k] \in Nat
      BY <1>2, <3>1
    <3>5. ~(o[k] <= at)
      BY <1>2, <3>2, <3>3, <3>4
    <3> QED  BY <2>2, <3>5
  <2> QED  BY <2>1, <2>2
<1> HIDE DEF last
<1>7. below = 1..last
  BY <1>2, <1>5, <1>6
<1>8. Cardinality(1..last) = last
  <2>1. 1 \in Int /\ last \in Int /\ ~(1 > last) /\ last - 1 + 1 = last
    BY <1>2, <1>5
  <2> QED  BY <2>1, FS_Interval
<1>9. line = last /\ GetLineCol(s, at).col = at - o[line] + 1
  <2>1. line = Cardinality({k \in DOMAIN o : o[k] <= at})
    BY <1>0 DEF GetLineCol
  <2>2. line = last
    BY <1>2, <1>7, <1>8, <2>1
  <2>3. GetLineCol(s, at).col = at - o[Cardinality({k \in DOMAIN o : o[k] <= at})] + 1
    BY <1>0 DEF GetLineCol
  <2> QED  BY <2>1, <2>2, <2>3
<1> DEFINE newlines == {i \in 1..at : s[i] = Newline}
<1>10. Cardinality(newlines) = last - 1
  <2> DEFINE f == [k \in 2..last |-> o[k]]
  <2>1. \A k \in 2..last : k \in 2..q /\ k \in 1..q /\ k <= last
    BY <1>2, <1>5
  <2>2. \A k \in 2..last : o[k] \in newlines
    <3> TAKE k \in 2..last
    <3>1. o[k] \in 1..Len(s) /\ s[o[k]] = Newline /\ o[k] <= at
      BY <1>2, <1>6, <2>1
    <3>2. o[k] \in 1..at
      BY <1>2, <3>1
    <3> QED  BY <3>1, <3>2
  <2>3. \A k, m \in 2..last : k # m => o[k] # o[m]
    <3> SUFFICES ASSUME NEW k \in 2..last, NEW m \in 2..last, k < m PROVE o[k] # o[m]
      BY <1>5
    <3>1. o[k] < o[m] /\ o[k] \in Nat /\ o[m] \in Nat
      BY <1>2, <2>1
    <3> QED  BY <3>1
  <2>4. \A i \in newlines : \E k \in 2..last : o[k] = i
    <3> TAKE i \in newlines
    <3>1. i \in 1..Len(s) /\ s[i] = Newline /\ i <= at
      BY <1>2
    <3>2. PICK k \in 2..q : o[k] = i
      BY <1>2, <3>1
    <3>3. k \in 1..q /\ k <= last
      BY <1>2, <1>6, <3>1, <3>2
    <3>4. k \in 2..last
      BY <1>2, <1>5, <3>2, <3>3
    <3> QED  BY <3>2, <3>4
  <2> HIDE DEF newlines
  <2>5. f \in Bijection(2..last, newlines)
    <3>1. f \in [2..last -> newlines]
      BY <2>2
    <3>2. \A k \in 2..last : f[k] = o[k]
      OBVIOUS
    <3> HIDE DEF f
    <3>3. \A k, m \in 2..last : f[k] = f[m] => k = m
      BY <2>3, <3>2
    <3>4. \A i \in newlines : \E k \in 2..last : f[k] = i
      BY <2>4, <3>2
    <3>5. f \in Injection(2..last, newlines)
      BY <3>1, <3>3 DEF Injection, IsInjective
    <3>6. f \in Surjection(2..last, newlines)
      BY <3>1, <3>4 DEF Surjection
    <3> QED  BY <3>5, <3>6 DEF Bijection
  <2>6. ExistsBijection(2..last, newlines)
    BY <2>5 DEF ExistsBijection
  <2>7. IsFiniteSet(2..last) /\ Cardinality(2..last) = last - 1
    <3>1. /\ IsFiniteSet(2..last)
          /\ Cardinality(2..last) = IF 2 > last THEN 0 ELSE last - 2 + 1
      BY <1>5, FS_Interval
    <3> QED  BY <1>2, <1>5, <3>1
  <2> QED  BY <2>6, <2>7, FS_Bijection
<1>11. line = 1 + Cardinality(newlines)
  BY <1>2, <1>5, <1>9, <1>10
<1>12. line \in 1..q /\ \A k \in 1..q : o[k] <= at <=> k <= line
  BY <1>5, <1>6, <1>9
<1> QED  BY <1>1, <1>9, <1>11, <1>12 DEF o, line, q, newlines

(* What is shown of an offset which is not that of a newline.              *)
Shown(s, from, to) ==
  LET at == GetLineCol(s, from)
      snippet == GetLineSnippet(s, at.line)
  IN  /\ at.line = 1 + Cardinality({i \in 1..from : s[i] = Newline})
      /\ IF from = Len(s) THEN at.col = Len(snippet) + 1
         ELSE at.col \in DOMAIN snippet /\ snippet[at.col] = s[from + 1]
      /\ ~Contains(snippet, Newline)
      /\ at.col \in Int
      /\ (\A i \in (from + 1)..to : s[i] # Newline) =>
           Carets(s, from, to) = at.col..(at.col + to - from)

LEMMA Pointed ==
  ASSUME NEW S, NEW s \in Seq(S), NEW from \in 0..Len(s), NEW to \in from..Len(s),
         from = Len(s) \/ s[from + 1] # Newline
  PROVE  Shown(s, from, to)
<1> SUFFICES ASSUME NEW at, at = GetLineCol(s, from),
                    NEW snippet, snippet = GetLineSnippet(s, at.line)
             PROVE  /\ at.line = 1 + Cardinality({i \in 1..from : s[i] = Newline})
                    /\ IF from = Len(s) THEN at.col = Len(snippet) + 1
                       ELSE at.col \in DOMAIN snippet /\ snippet[at.col] = s[from + 1]
                    /\ ~Contains(snippet, Newline)
                    /\ at.col \in Int
                    /\ (\A i \in (from + 1)..to : s[i] # Newline) =>
                         Carets(s, from, to) = at.col..(at.col + to - from)
  BY DEF Shown
<1> DEFINE o == LineOffsets(s)
           q == Len(o)
           line == at.line
           n == Len(s)
<1>1. n \in Nat /\ from \in Nat /\ to \in Nat /\ from <= to /\ to <= n /\ to \in 0..n
  BY LenProperties
<1>0. \A i \in 0..n :
        /\ IsOffsets(o, s) /\ GetLineCol(s, i).line \in 1..q
        /\ \A k \in 1..q : o[k] <= i <=> k <= GetLineCol(s, i).line
        /\ GetLineCol(s, i).col = i - o[GetLineCol(s, i).line] + 1
        /\ GetLineCol(s, i).line = 1 + Cardinality({k \in 1..i : s[k] = Newline})
  BY LineOf
<1>2. /\ IsOffsets(o, s) /\ line \in 1..q
      /\ \A k \in 1..q : o[k] <= from <=> k <= line
      /\ at.col = from - o[line] + 1
      /\ line = 1 + Cardinality({i \in 1..from : s[i] = Newline})
  BY <1>0
<1> HIDE DEF o
<1>3. /\ o \in Seq(Nat) /\ q \in Nat /\ o[1] = 0 /\ DOMAIN o = 1..q
      /\ \A k \in 2..q : o[k] \in 1..n /\ s[o[k]] = Newline
      /\ \A k, m \in 1..q : k < m => o[k] < o[m]
      /\ \A i \in 1..n : s[i] = Newline => \E k \in 2..q : o[k] = i
      /\ \A k \in 1..q : o[k] \in Nat
  BY <1>2, LenProperties, ElementOfSeq DEF IsOffsets
<1> DEFINE end == IF line < q THEN o[line + 1] - 1 ELSE n
           low == o[line]
<1>4. snippet = SubSeq(s, low + 1, end)
  BY <1>2, <1>3 DEF GetLineSnippet, o
<1> HIDE DEF q, line, n
<1>5. low \in Nat /\ low <= from
  BY <1>2, <1>3
<1>6. line < q => /\ line + 1 \in 2..q /\ line + 1 \in 1..q /\ o[line + 1] \in 1..n
                  /\ s[o[line + 1]] = Newline /\ from < o[line + 1]
  <2> SUFFICES ASSUME line < q
               PROVE  /\ line + 1 \in 2..q /\ line + 1 \in 1..q /\ o[line + 1] \in 1..n
                      /\ s[o[line + 1]] = Newline /\ from < o[line + 1]
    OBVIOUS
  <2>1. line + 1 \in 2..q /\ line + 1 \in 1..q /\ ~(line + 1 <= line)
    BY <1>2, <1>3
  <2>2. o[line + 1] \in 1..n /\ s[o[line + 1]] = Newline /\ ~(o[line + 1] <= from)
    BY <1>2, <1>3, <2>1
  <2> QED  BY <1>1, <2>1, <2>2
<1>7. end \in Nat /\ from <= end /\ end <= n /\ low <= end
  <2>1. CASE line < q
    BY <1>1, <1>5, <1>6, <2>1
  <2>2. CASE ~(line < q)
    BY <1>1, <1>5, <2>2
  <2> QED  BY <2>1, <2>2
<1>8. ASSUME from # n PROVE from + 1 <= end
  <2>1. CASE line < q
    <3>1. o[line + 1] # from + 1
      BY <1>6, <1>8, <2>1 DEF n
    <3> QED  BY <1>1, <1>6, <2>1, <3>1
  <2>2. CASE ~(line < q)
    BY <1>1, <1>8, <2>2
  <2> QED  BY <2>1, <2>2
<1>9. ASSUME NEW i \in (low + 1)..end PROVE i \in 1..n /\ s[i] # Newline
  <2>1. i \in 1..n /\ low < i /\ i <= end
    BY <1>1, <1>5, <1>7
  <2> SUFFICES ASSUME s[i] = Newline PROVE FALSE
    BY <2>1
  <2>2. PICK k \in 2..q : o[k] = i
    BY <1>3, <2>1
  <2>3. k \in 1..q /\ ~(k <= line)
    <3>1. k \in 1..q
      BY <1>3
    <3>2. ASSUME k <= line PROVE FALSE
      <4>1. k = line \/ o[k] < o[line]
        BY <1>2, <1>3, <3>1, <3>2
      <4> QED  BY <1>5, <2>1, <2>2, <4>1
    <3> QED  BY <3>1, <3>2
  <2>4. line < q /\ (line + 1 = k \/ line + 1 < k)
    BY <1>2, <1>3, <2>3
  <2>5. line + 1 = k \/ o[line + 1] < o[k]
    BY <1>3, <1>6, <2>3, <2>4
  <2>6. end = o[line + 1] - 1 /\ o[line + 1] \in Nat
    BY <1>3, <1>6, <2>4
  <2> HIDE DEF end, low
  <2> QED  BY <2>1, <2>2, <2>5, <2>6
<1> HIDE DEF end, low
<1>10. /\ snippet \in Seq(S) /\ Len(snippet) = end - low
       /\ \A c \in 1..(end - low) : snippet[c] = s[low + c]
  <2> DEFINE first == low + 1
  <2>1. first \in 1..(n + 1) /\ end \in (first - 1)..n /\ end - first + 1 = end - low /\ end - low \in Nat
    BY <1>1, <1>5, <1>7
  <2>2. \A c \in 1..(end - low) : first + c - 1 = low + c
    BY <1>5
  <2>3. snippet = SubSeq(s, first, end)
    BY <1>4
  <2> HIDE DEF first
  <2>4. \A i \in first..end : i \in 1..n /\ s[i] \in S
    <3> TAKE i \in first..end
    <3>1. i \in 1..n
      BY <1>1, <2>1
    <3> QED  BY <3>1, ElementOfSeq DEF n
  <2>5. Len(SubSeq(s, first, end)) = IF first <= end THEN end - first + 1 ELSE 0
    BY <1>1, <2>1
  <2>6. SubSeq(s, first, end) = [c \in 1..(end - first + 1) |-> s[first + c - 1]]
    BY <1>1, <2>1
  <2>7. SubSeq(s, first, end) = [c \in 1..(end - low) |-> s[first + c - 1]]
    BY <2>1, <2>6
  <2> DEFINE f == [c \in 1..(end - low) |-> s[first + c - 1]]
  <2>8. f \in Seq(S) /\ Len(f) = end - low
    <3>1. \A c \in 1..(end - low) : f[c] \in S
      <4> TAKE c \in 1..(end - low)
      <4>1. first + c - 1 \in first..end
        BY <1>5, <1>7, <2>1
      <4> QED  BY <2>4, <4>1
    <3>2. f = [c \in 1..(end - low) |-> f[c]]
      OBVIOUS
    <3> HIDE DEF f
    <3> QED  BY <2>1, <3>1, <3>2, Made
  <2> QED  BY <2>2, <2>3, <2>7, <2>8
<1>11. ASSUME from = n PROVE at.col = Len(snippet) + 1
  <2>1. line = q
    <3> SUFFICES ASSUME line < q PROVE FALSE
      BY <1>2, <1>3
    <3> QED  BY <1>1, <1>6, <1>11
  <2>2. end = n
    BY <1>3, <2>1 DEF end
  <2> QED  BY <1>1, <1>2, <1>5, <1>10, <1>11, <2>2 DEF low
<1>12. ASSUME from # n PROVE at.col \in DOMAIN snippet /\ snippet[at.col] = s[from + 1]
  <2>1. at.col = from - low + 1
    BY <1>2 DEF low
  <2>2. at.col \in 1..(end - low) /\ low + at.col = from + 1
    BY <1>1, <1>5, <1>7, <1>8, <1>12, <2>1
  <2>3. DOMAIN snippet = 1..(end - low)
    BY <1>10, LenProperties
  <2> QED  BY <1>10, <2>2, <2>3
<1>13. ~Contains(snippet, Newline)
  <2>1. ASSUME NEW c \in 1..Len(snippet) PROVE snippet[c] # Newline
    <3>1. c \in 1..(end - low) /\ low + c \in (low + 1)..end
      BY <1>5, <1>7, <1>10
    <3> QED  BY <1>9, <1>10, <3>1
  <2> QED  BY <2>1 DEF Contains
<1>14. ASSUME \A i \in (from + 1)..to : s[i] # Newline
       PROVE  Carets(s, from, to) = at.col..(at.col + to - from)
  <2> DEFINE last == GetLineCol(s, to).line
  <2>1. /\ last \in 1..q /\ \A k \in 1..q : o[k] <= to <=> k <= last
        /\ GetLineCol(s, to).col = to - o[last] + 1
    BY <1>0, <1>1 DEF n, q
  <2> HIDE DEF last
  <2>2. last = line
    <3>1. line <= last
      <4>1. o[line] <= to
        BY <1>1, <1>5 DEF low
      <4> QED  BY <1>2, <2>1, <4>1
    <3>2. ASSUME ~(last <= line) PROVE FALSE
      <4>1. ~(o[last] <= from) /\ o[last] <= to /\ o[last] \in Nat
        BY <1>2, <1>3, <2>1, <3>2
      <4>2. last \in 2..q
        BY <1>2, <1>3, <2>1, <3>2
      <4>3. s[o[last]] = Newline /\ o[last] \in (from + 1)..to
        BY <1>1, <1>3, <4>1, <4>2
      <4> QED  BY <1>14, <4>3
    <3> QED  BY <1>2, <1>3, <2>1, <3>1, <3>2
  <2>3. GetLineCol(s, to).col = at.col + to - from
    BY <1>1, <1>2, <1>5, <2>1, <2>2 DEF low
  <2> QED  BY <2>3 DEF Carets
<1>15. at.col \in Int
  BY <1>1, <1>2, <1>5 DEF low
<1> QED  BY <1>2, <1>11, <1>12, <1>13, <1>14, <1>15 DEF line, n

(* No token begins with a space, and the end of the file is at the end.    *)
Visible ==
  /\ AtWork => read[begin + 1] \notin Spaces
  /\ \A k \in DOMAIN tokens :
       IF tokens[k].type = "END_OF_FILE" THEN tokens[k].from = pos
       ELSE read[tokens[k].from + 1] \notin Spaces

LEMMA Keeps ==
  ASSUME IInv, Next
  PROVE  /\ pos \in Nat /\ pos' \in Nat /\ pos <= pos'
         /\ \A i \in 1..pos : read'[i] = read[i]
<1>1. read \in Seq(Characters) /\ pos \in Nat
  BY LenProperties DEF IInv, pos
<1>2. CASE peek
  BY <1>1, <1>2 DEF peek, pos
<1>3. CASE \E S : End \notin S /\ get(S)
  <2>1. PICK S : End \notin S /\ get(S)
    BY <1>3
  <2>2. ahead \in Characters /\ read' = Append(read, ahead)
    BY <2>1, Reads DEF get
  <2>3. /\ Len(Append(read, ahead)) = Len(read) + 1
        /\ \A i \in 1..Len(read) : Append(read, ahead)[i] = read[i]
    BY <1>1, <2>2, AppendProperties
  <2> QED  BY <1>1, <2>2, <2>3 DEF pos
<1> QED  BY <1>2, <1>3, ReadsOrPeeks

(* What a step does to the tokens and to the beginning of the next one.    *)
LEMMA Writes ==
  ASSUME IInv, Next
  PROVE  /\ mode # "done"
         /\ \/ tokens' = tokens
            \/ AtWork /\ \E type, value, to : type # "END_OF_FILE" /\ Push(type, value, to)
            \/ tokens' = Append(tokens, Token("END_OF_FILE", <<>>, pos, pos)) /\ pos' = pos
         /\ \/ ~AtWork'
            \/ AtWork /\ begin' = begin
            \/ begin' = pos /\ ahead \notin Spaces /\ read' = Append(read, ahead)
<1>1. CASE SkipSpace
  BY <1>1 DEF SkipSpace, AtWork
<1>2. CASE OpenString \/ BeginNumber \/ BeginWord \/ BeginOperator
  <2>1. \E kind, S : S \cap Spaces = {} /\ Begins(kind, S)
    <3>1. {Quote} \cap Spaces = {} /\ Digits \cap Spaces = {} /\ Letters \cap Spaces = {}
      BY SeparatorsApart, CharactersAssumption
    <3>2. (Characters \ (Spaces \cup {Quote} \cup Digits \cup Letters)) \cap Spaces = {}
      OBVIOUS
    <3> QED  BY <1>2, <3>1, <3>2, Zenon DEF OpenString, BeginNumber, BeginWord, BeginOperator
  <2>2. PICK kind, S : S \cap Spaces = {} /\ Begins(kind, S)
    BY <2>1
  <2> QED  BY <2>2 DEF Begins, get
<1>3. CASE ReadCharacter \/ OpenEscape \/ ReadEscaped \/ ReadNumber \/ ReadWord \/ ReadOperator
  BY <1>3 DEF ReadCharacter, OpenEscape, ReadEscaped, ReadNumber, ReadWord, ReadOperator, AtWork
<1>4. CASE EndString
  BY <1>4 DEF EndString, AtWork
<1>5. CASE EndNumber
  BY <1>5 DEF EndNumber, AtWork
<1>6. CASE EndWord
  <2> DEFINE type == IF Text \in DOMAIN keywords THEN keywords[Text] ELSE "IDENTIFIER"
  <2>1. type # "END_OF_FILE"
    BY CharactersAssumption
  <2>2. Push(type, Text, pos) /\ mode = "word" /\ mode' = "start"
    BY <1>6 DEF EndWord
  <2> HIDE DEF type
  <2> QED  BY <2>1, <2>2 DEF AtWork
<1>7. CASE EndOperator
  <2> DEFINE type == IF Text \in Operators THEN OperatorType[Text] ELSE "UNKNOWN"
  <2>1. type # "END_OF_FILE"
    BY CharactersAssumption DEF End
  <2>2. tokens' = tokens \/ Push(type, Text, pos)
    BY <1>7 DEF EndOperator
  <2>3. mode = "operator" /\ mode' = "start"
    BY <1>7 DEF EndOperator
  <2> HIDE DEF type
  <2> QED  BY <2>1, <2>2, <2>3 DEF AtWork
<1>8. CASE Finish
  BY <1>8 DEF Finish, AtWork, peek, pos
<1> QED  BY <1>1, <1>2, <1>3, <1>4, <1>5, <1>6, <1>7, <1>8 DEF Next

LEMMA NextVisible == IInv /\ Visible /\ [Next]_vars => Visible'
<1> SUFFICES ASSUME IInv, Visible, [Next]_vars PROVE Visible'
  OBVIOUS
<1>1. CASE Next
  <2>1. /\ pos \in Nat /\ pos' \in Nat /\ pos <= pos' /\ read \in Seq(Characters)
        /\ \A i \in 1..pos : read'[i] = read[i]
    BY <1>1, Keeps DEF IInv
  <2>2. begin \in Nat /\ (AtWork => begin + 1 \in 1..pos)
    BY <2>1 DEF IInv
  <2>3. AtWork' => read'[begin' + 1] \notin Spaces
    <3> SUFFICES ASSUME AtWork' PROVE read'[begin' + 1] \notin Spaces
      OBVIOUS
    <3>1. CASE AtWork /\ begin' = begin
      BY <2>1, <2>2, <3>1 DEF Visible
    <3>2. CASE begin' = pos /\ ahead \notin Spaces /\ read' = Append(read, ahead)
      <4>1. Append(read, ahead)[Len(read) + 1] = ahead
        BY <2>1, AppendProperties DEF IInv
      <4> QED  BY <3>2, <4>1 DEF pos
    <3> QED  BY <1>1, <3>1, <3>2, Writes
  <2>4. tokens \in Seq(TokenRecords) /\ Unended(tokens)
    BY <1>1, Writes DEF IInv, Ordered
  <2>5. ASSUME NEW k \in DOMAIN tokens
        PROVE  tokens[k].type # "END_OF_FILE" /\ read'[tokens[k].from + 1] \notin Spaces
    <3>1. tokens[k].type # "END_OF_FILE" /\ tokens[k] \in TokenRecords
      BY <2>4, ElementOfSeq, LenProperties DEF Unended
    <3>2. /\ tokens[k].from \in Nat /\ tokens[k].to \in Nat
          /\ tokens[k].from # tokens[k].to /\ tokens[k].from <= tokens[k].to
          /\ tokens[k].to <= pos
      <4>1. tokens[k].from \in Nat /\ tokens[k].to \in Nat
        BY <3>1 DEF TokenRecords
      <4>2. /\ tokens[k].from # tokens[k].to /\ tokens[k].from <= tokens[k].to
            /\ tokens[k].to <= (IF AtWork THEN begin ELSE pos)
        BY <3>1 DEF IInv, Ordered
      <4>3. tokens[k].to <= pos
        BY <2>1, <2>2, <4>1, <4>2
      <4> QED  BY <4>1, <4>2, <4>3
    <3>3. tokens[k].from + 1 \in 1..pos
      BY <2>1, <3>2
    <3> QED  BY <2>1, <3>1, <3>3 DEF Visible
  <2>6. CASE tokens' = tokens
    BY <2>3, <2>5, <2>6 DEF Visible
  <2>7. ASSUME NEW token, tokens' = Append(tokens, token),
               IF token.type = "END_OF_FILE" THEN token.from = pos'
               ELSE read'[token.from + 1] \notin Spaces
        PROVE  Visible'
    <3> DEFINE longer == Append(tokens, token)
               q == Len(tokens)
    <3>1. tokens \in Seq(TokenRecords \cup {token}) /\ token \in TokenRecords \cup {token}
      BY <2>4, SeqMonotonic
    <3>2. /\ longer \in Seq(TokenRecords \cup {token}) /\ Len(longer) = q + 1 /\ longer[q + 1] = token
          /\ \A k \in 1..q : longer[k] = tokens[k]
      BY <3>1, AppendProperties
    <3>3. DOMAIN longer = 1..(q + 1) /\ DOMAIN tokens = 1..q /\ q \in Nat
      BY <2>4, <3>2, LenProperties
    <3>4. tokens' = longer
      BY <2>7
    <3> HIDE DEF longer, q
    <3>5. ASSUME NEW k \in DOMAIN longer
          PROVE  IF longer[k].type = "END_OF_FILE" THEN longer[k].from = pos'
                 ELSE read'[longer[k].from + 1] \notin Spaces
      <4>1. CASE k \in 1..q
        <5>1. longer[k] = tokens[k] /\ k \in DOMAIN tokens
          BY <3>2, <3>3, <4>1
        <5> QED  BY <2>5, <5>1
      <4>2. CASE k = q + 1
        BY <2>7, <3>2, <4>2
      <4> QED  BY <3>3, <4>1, <4>2
    <3> QED  BY <2>3, <3>4, <3>5 DEF Visible
  <2>8. CASE AtWork /\ \E type, value, to : type # "END_OF_FILE" /\ Push(type, value, to)
    <3>1. PICK type, value, to : type # "END_OF_FILE" /\ Push(type, value, to)
      BY <2>8
    <3> DEFINE token == Token(type, value, begin, to)
    <3>2. token.type = type /\ token.from = begin /\ tokens' = Append(tokens, token)
      BY <3>1 DEF Token, Push
    <3>3. read'[begin + 1] \notin Spaces
      BY <2>1, <2>2, <2>8 DEF Visible
    <3> HIDE DEF token
    <3> QED  BY <2>7, <3>1, <3>2, <3>3
  <2>9. CASE tokens' = Append(tokens, Token("END_OF_FILE", <<>>, pos, pos)) /\ pos' = pos
    <3> DEFINE token == Token("END_OF_FILE", <<>>, pos, pos)
    <3>1. token.type = "END_OF_FILE" /\ token.from = pos' /\ tokens' = Append(tokens, token)
      BY <2>9 DEF Token
    <3> HIDE DEF token
    <3> QED  BY <2>7, <3>1
  <2> QED  BY <1>1, <2>6, <2>8, <2>9, Writes
<1>2. CASE UNCHANGED vars
  BY <1>2 DEF vars, Visible, AtWork, pos
<1> QED  BY <1>1, <1>2

(* Whatever the source, a diagnostic about a token names the line and the  *)
(* column of its first character, shows that line, and draws carets under  *)
(* all of the token, and at most one more.                                 *)
THEOREM DiagnosticsPoint == Spec => []DiagnosticsPointAtTokens
<1>1. IInv /\ Visible => DiagnosticsPointAtTokens
  <2> SUFFICES ASSUME IInv, Visible, mode = "done", NEW k \in DOMAIN tokens,
                      NEW t, t = tokens[k],
                      NEW at, at = GetLineCol(read, t.from),
                      NEW snippet, snippet = GetLineSnippet(read, at.line)
               PROVE  /\ at.line = 1 + Cardinality({i \in 1..t.from : read[i] = Newline})
                      /\ IF t.type = "END_OF_FILE" THEN at.col = Len(snippet) + 1
                         ELSE at.col \in DOMAIN snippet /\ snippet[at.col] = read[t.from + 1]
                      /\ ~Contains(snippet, Newline)
                      /\ (\A i \in (t.from + 1)..t.to : read[i] # Newline) =>
                           LET under == at.col..(at.col + t.to - t.from - 1)
                               carets == Carets(read, t.from, t.to)
                           IN  under \subseteq carets /\ carets \subseteq under \cup {at.col + t.to - t.from}
    BY DEF DiagnosticsPointAtTokens
  <2>1. read \in Seq(Characters) /\ pos = Len(read) /\ pos \in Nat
    BY LenProperties DEF IInv, pos
  <2>2. t \in TokenRecords
    <3>1. tokens \in Seq(TokenRecords)
      BY DEF IInv, Ordered
    <3> QED  BY <3>1, ElementOfSeq, LenProperties
  <2>3. /\ t.from \in Nat /\ t.to \in Nat /\ t.from <= t.to /\ t.to <= pos
        /\ (t.from = t.to) = (t.type = "END_OF_FILE")
    BY <2>2 DEF IInv, Ordered, AtWork, TokenRecords
  <2>4. t.type = "END_OF_FILE" <=> t.from = Len(read)
    BY <2>1, <2>3 DEF Visible
  <2>5. t.from \in 0..Len(read) /\ t.to \in t.from..Len(read)
    BY <2>1, <2>3
  <2>6. t.from = Len(read) \/ read[t.from + 1] # Newline
    <3>1. Newline \in Spaces
      BY DEF Newline, Spaces
    <3> QED  BY <2>4, <3>1 DEF Visible
  <2> DEFINE from == t.from
             to == t.to
  <2>7. /\ from \in 0..Len(read) /\ to \in from..Len(read)
        /\ from = Len(read) \/ read[from + 1] # Newline
    BY <2>5, <2>6
  <2> HIDE DEF from, to
  <2>8. Shown(read, from, to)
    BY <2>1, <2>7, Pointed
  <2>9. ASSUME Carets(read, t.from, t.to) = at.col..(at.col + t.to - t.from)
        PROVE  LET under == at.col..(at.col + t.to - t.from - 1)
                   carets == Carets(read, t.from, t.to)
               IN  under \subseteq carets /\ carets \subseteq under \cup {at.col + t.to - t.from}
    <3>1. at.col \in Int
      BY <2>8 DEF Shown, from, to
    <3> QED  BY <2>3, <2>9, <3>1
  <2> QED  BY <2>4, <2>8, <2>9 DEF Shown, from, to
<1>2. Init => Visible
  BY DEF Init, Visible, AtWork
<1>3. Spec => [](IInv /\ Visible)
  BY InitIInv, NextIInv, <1>2, NextVisible, PTL DEF Spec
<1> QED  BY <1>1, <1>3, PTL

===============================================================================
