------------------------- MODULE SymbolTableProofs -------------------------
(***************************************************************************)
(* Proofs about module SymbolTable, for any set of names, any number of    *)
(* tables and any number of declarations.                                  *)
(***************************************************************************)
EXTENDS SymbolTable, SequenceTheorems, TLAPS

(***************************************************************************)
(* The inductive invariant.  ScopeChain speaks of the tree and the saved   *)
(* tables only; the other two need it to know which table is the root.     *)
(***************************************************************************)
IInv == TypeOK /\ ScopeChain /\ FunctionsAtRoot /\ WalkSkipsNothing

(* The chain, element by element: the saved tables, then the current one. *)
LEMMA ChainElements ==
  ASSUME TypeOK
  PROVE  /\ Len(oldTables) \in Nat
         /\ Len(Chain) = Len(oldTables) + 1
         /\ Chain[Len(oldTables) + 1] = currentSymbols
         /\ \A i \in 1..Len(oldTables) : Chain[i] = oldTables[i]
         /\ \A i \in 1..Len(Chain) : Chain[i] \in Tables
<1>1. oldTables \in Seq(Tables) /\ currentSymbols \in Tables
  BY DEF TypeOK
<1>2. Len(oldTables) \in Nat /\ \A i \in 1..Len(oldTables) : oldTables[i] \in Tables
  BY <1>1
<1>3. /\ Len(Chain) = Len(oldTables) + 1
      /\ Chain[Len(oldTables) + 1] = currentSymbols
      /\ \A i \in 1..Len(oldTables) : Chain[i] = oldTables[i]
  BY <1>1 DEF Chain
<1> QED  BY <1>1, <1>2, <1>3

LEMMA InitIInv == Init => IInv
<1> SUFFICES ASSUME Init PROVE IInv
  OBVIOUS
<1> USE BoundsAssumption DEF Init
<1>1. TypeOK
  <2>1. NoEntries \in Map
    BY DEF NoEntries, Map
  <2>2. Parent \in Seq(0..MaxTables) /\ Len(Parent) \in 1..MaxTables
    OBVIOUS
  <2> QED  BY <2>1, <2>2 DEF TypeOK, Tables, Root
<1>2. ScopeChain
  BY DEF ScopeChain, Chain, Root, Tables
<1>3. FunctionsAtRoot
  <2>1. SwaSymbols[Root] = NoEntries /\ Symbols[Root] = NoEntries
    BY DEF Root
  <2>2. Tables \ {Root} = {}
    BY DEF Root, Tables
  <2>3. \A n \in Names : NoEntries[n] = Absent
    BY DEF NoEntries
  <2>4. Absent.kind = "Absent"
    BY DEF Absent
  <2> QED  BY <2>1, <2>2, <2>3, <2>4 DEF FunctionsAtRoot
<1>4. WalkSkipsNothing
  BY DEF WalkSkipsNothing
<1> QED  BY <1>1, <1>2, <1>3, <1>4 DEF IInv

(***************************************************************************)
(* What the three ways to change the tree do to it.                        *)
(***************************************************************************)
LEMMA EnterScopeEffect ==
  ASSUME TypeOK, EnterScope
  PROVE  /\ Len(Parent') = Len(Parent) + 1
         /\ Len(SwaSymbols') = Len(Parent') /\ Len(Symbols') = Len(Parent')
         /\ Parent' \in Seq(0..MaxTables)
         /\ SwaSymbols' \in Seq(Map)
         /\ Symbols' \in Seq(Map)
         /\ Tables' = Tables \cup {Len(Parent) + 1}
         /\ \A t \in Tables : /\ Parent'[t] = Parent[t]
                             /\ SwaSymbols'[t] = SwaSymbols[t]
                             /\ Symbols'[t] = Symbols[t]
         /\ Parent'[Len(Parent) + 1] = currentSymbols
         /\ SwaSymbols'[Len(Parent) + 1] = NoEntries
         /\ Symbols'[Len(Parent) + 1] = NoEntries
         /\ Len(oldTables') = Len(oldTables) + 1
         /\ oldTables' \in Seq(Tables)
         /\ \A i \in 1..Len(oldTables) + 1 : oldTables'[i] = Chain[i]
         /\ currentSymbols' = Len(Parent) + 1
<1> USE BoundsAssumption
<1>1. /\ Parent' = Append(Parent, currentSymbols)
      /\ SwaSymbols' = Append(SwaSymbols, NoEntries)
      /\ Symbols' = Append(Symbols, NoEntries)
      /\ oldTables' = Chain
      /\ currentSymbols' = Len(Parent) + 1
  BY DEF EnterScope, CreateChild, Chain
<1>2. /\ Parent \in Seq(0..MaxTables) /\ Len(Parent) \in 1..MaxTables
      /\ SwaSymbols \in Seq(Map)
      /\ Symbols \in Seq(Map)
      /\ Len(SwaSymbols) = Len(Parent) /\ Len(Symbols) = Len(Parent)
      /\ currentSymbols \in 1..Len(Parent) /\ oldTables \in Seq(Tables)
  BY DEF TypeOK, Tables
<1>3. NoEntries \in Map
  BY DEF NoEntries, Map
<1>4. currentSymbols \in 0..MaxTables
  BY <1>2
<1>5. /\ Parent' \in Seq(0..MaxTables) /\ Len(Parent') = Len(Parent) + 1
      /\ Parent'[Len(Parent) + 1] = currentSymbols
      /\ \A t \in 1..Len(Parent) : Parent'[t] = Parent[t]
  BY <1>1, <1>2, <1>4
<1>6. /\ SwaSymbols' \in Seq(Map)
      /\ Len(SwaSymbols') = Len(Parent) + 1
      /\ SwaSymbols'[Len(Parent) + 1] = NoEntries
      /\ \A t \in 1..Len(Parent) : SwaSymbols'[t] = SwaSymbols[t]
  BY <1>1, <1>2, <1>3
<1>7. /\ Symbols' \in Seq(Map)
      /\ Len(Symbols') = Len(Parent) + 1
      /\ Symbols'[Len(Parent) + 1] = NoEntries
      /\ \A t \in 1..Len(Parent) : Symbols'[t] = Symbols[t]
  BY <1>1, <1>2, <1>3
<1>8. Tables' = Tables \cup {Len(Parent) + 1}
  BY <1>2, <1>5 DEF Tables
<1>9. Chain \in Seq(Tables) /\ Len(Chain) = Len(oldTables) + 1
  BY <1>2 DEF Chain, Tables
<1> QED  BY <1>1, <1>2, <1>5, <1>6, <1>7, <1>8, <1>9 DEF Tables

LEMMA LeaveScopeEffect ==
  ASSUME TypeOK, LeaveScope
  PROVE  /\ Len(oldTables) > 0
         /\ Len(oldTables') = Len(oldTables) - 1
         /\ oldTables' \in Seq(Tables)
         /\ currentSymbols' \in Tables
         /\ Len(Chain') = Len(oldTables)
         /\ \A i \in 1..Len(oldTables) : Chain'[i] = Chain[i]
<1>1. oldTables \in Seq(Tables) /\ oldTables # <<>>
  BY DEF TypeOK, LeaveScope
<1>2. Len(oldTables) \in Nat /\ Len(oldTables) > 0
  BY <1>1
<1>3. /\ oldTables' = SubSeq(oldTables, 1, Len(oldTables) - 1)
      /\ currentSymbols' = oldTables[Len(oldTables)]
  BY DEF LeaveScope
<1>4. currentSymbols' \in Tables
  BY <1>1, <1>2, <1>3
<1>5. /\ Len(oldTables') = Len(oldTables) - 1
      /\ oldTables' \in Seq(Tables)
      /\ \A i \in 1..(Len(oldTables) - 1) : oldTables'[i] = oldTables[i]
  <2> DEFINE last == Len(oldTables) - 1
  <2>1. last \in Int /\ 1 \in Int /\ 0 <= last
    BY <1>2
  <2>2. \A i \in 1..last : oldTables[i] \in Tables
    BY <1>1, <1>2, <2>1
  <2>3. /\ SubSeq(oldTables, 1, last) \in Seq(Tables)
        /\ Len(SubSeq(oldTables, 1, last)) = IF 1 <= last THEN last - 1 + 1 ELSE 0
        /\ \A i \in 1..(last - 1 + 1) :
             SubSeq(oldTables, 1, last)[i] = oldTables[1 + i - 1]
    BY <2>1, <2>2, SubSeqProperties
  <2>4. last - 1 + 1 = last /\ \A i \in 1..last : 1 + i - 1 = i
    BY <2>1
  <2>5. oldTables' = SubSeq(oldTables, 1, last)
    BY <1>3
  <2>6. Len(oldTables') = last
    <3> HIDE DEF last
    <3> QED  BY <2>1, <2>3, <2>4, <2>5
  <2>7. \A i \in 1..last : oldTables'[i] = oldTables[i]
    <3> HIDE DEF last
    <3> QED  BY <2>3, <2>4, <2>5
  <2> QED  BY <2>3, <2>5, <2>6, <2>7
<1>6. Chain' = Append(oldTables', currentSymbols')
  BY DEF Chain
<1>7. /\ Len(Chain') = Len(oldTables)
      /\ \A i \in 1..Len(oldTables) : Chain'[i] = oldTables[i]
  BY <1>2, <1>3, <1>4, <1>5, <1>6
<1> QED  BY <1>2, <1>4, <1>5, <1>7, ChainElements

(***************************************************************************)
(* TypeOK is preserved by every step from a state of the invariant.        *)
(***************************************************************************)
LEMMA NoCallIsNoCall ==
  /\ NoCall \notin LookupCall \cup DefineCall
  /\ NoCall.op = "none"
  /\ \A c \in LookupCall : c.op \in LookupOps
  /\ \A c \in DefineCall : c.op = "defineSwaSymbol"
  BY DEF NoCall, LookupCall, DefineCall, LookupOps

LEMMA PendingCall ==
  ASSUME TypeOK
  PROVE  /\ call.op \in LookupOps => call \in LookupCall /\ call # NoCall
         /\ call.op = "defineSwaSymbol" => call \in DefineCall /\ call # NoCall
<1>1. call \in {NoCall} \cup LookupCall \cup DefineCall
  BY DEF TypeOK
<1> QED  BY <1>1, NoCallIsNoCall DEF LookupOps

(* The table a pending call stands on exists: it is one of the chain. *)
LEMMA CallTableExists ==
  ASSUME TypeOK, WalkSkipsNothing, call # NoCall
  PROVE  call.table \in 1..Len(Parent)
<1>1. PICK i \in 1..Len(Chain) : call.table = Chain[i]
  BY DEF WalkSkipsNothing
<1> QED  BY <1>1, ChainElements DEF Tables

LEMMA HeldIsEntry ==
  ASSUME TypeOK, WalkSkipsNothing, call \in LookupCall
  PROVE  Held(call.op, call.table, call.name) \in Entry \cup {Absent}
<1>1. call.table \in 1..Len(Parent) /\ call.name \in Names
  BY CallTableExists, NoCallIsNoCall DEF LookupCall
<1>2. /\ SwaSymbols \in Seq(Map) /\ Symbols \in Seq(Map)
      /\ Len(SwaSymbols) = Len(Parent) /\ Len(Symbols) = Len(Parent)
  BY DEF TypeOK
<1>3. SwaSymbols[call.table] \in Map /\ Symbols[call.table] \in Map
  BY <1>1, <1>2
<1> QED  BY <1>1, <1>3 DEF Held, Map

LEMMA AnswerType ==
  ASSUME NEW c \in LookupCall, NEW e \in Entry \cup {Absent}
  PROVE  Answer(c.op, c.name, e) \in LookupAnswer
<1>1. c.op \in LookupOps /\ c.name \in Names
  BY DEF LookupCall
<1>2. Outcome(c.op, e) \in {"found", "missing", "not a function"}
  BY DEF Outcome
<1> QED  BY <1>1, <1>2 DEF Answer, LookupAnswer

LEMMA TypeOKStep == IInv /\ [Next]_vars => TypeOK'
<1> SUFFICES ASSUME IInv, [Next]_vars PROVE TypeOK'
  OBVIOUS
<1> USE BoundsAssumption
<1>0. TypeOK /\ ScopeChain /\ WalkSkipsNothing
  BY DEF IInv
<1>a. /\ Parent \in Seq(0..MaxTables) /\ Len(Parent) \in 1..MaxTables
      /\ Len(SwaSymbols) = Len(Parent) /\ Len(Symbols) = Len(Parent)
      /\ currentSymbols \in 1..MaxTables /\ currentSymbols \in 1..Len(Parent)
  BY <1>0 DEF TypeOK, Tables
<1>b. SwaSymbols \in Seq(Map) /\ Symbols \in Seq(Map)
  BY <1>0 DEF TypeOK
<1>c. symbols \in 0..MaxSymbols
  BY <1>0 DEF TypeOK
<1>1. CASE EnterScope
  <2>1. UNCHANGED <<symbols, call, returned>> /\ Len(Parent) < MaxTables
    BY <1>1 DEF EnterScope
  <2>2. Len(Parent') \in 1..MaxTables
    BY <1>0, <1>1, <1>a, <2>1, EnterScopeEffect
  <2>3. oldTables' \in Seq(Tables')
    <3>1. Tables \subseteq Tables' /\ oldTables' \in Seq(Tables)
      BY <1>0, <1>1, EnterScopeEffect
    <3> QED  BY <3>1
  <2>4. currentSymbols' \in Tables'
    BY <1>0, <1>1, EnterScopeEffect
  <2> QED  BY <1>0, <1>1, <2>1, <2>2, <2>3, <2>4, EnterScopeEffect DEF TypeOK
<1>2. CASE LeaveScope
  <2>1. UNCHANGED <<Parent, SwaSymbols, Symbols, symbols, call, returned>>
    BY <1>2 DEF LeaveScope
  <2>2. Tables' = Tables
    BY <2>1 DEF Tables
  <2> QED  BY <1>0, <1>2, <2>1, <2>2, LeaveScopeEffect DEF TypeOK
<1>3. ASSUME NEW n \in Names, NEW kind \in {"Variable", "Function"},
             DefineSwaSymbol(n, kind)
      PROVE  TypeOK'
  <2>1. symbols + 1 \in Ids /\ symbols' \in 0..MaxSymbols
    BY <1>c, <1>3 DEF DefineSwaSymbol, Ids
  <2>2. call' \in DefineCall
    BY <1>a, <1>3, <2>1 DEF DefineSwaSymbol, DefineCall
  <2>3. UNCHANGED <<Parent, SwaSymbols, Symbols, currentSymbols, oldTables,
                    returned, Tables>>
    BY <1>3 DEF DefineSwaSymbol, Tables
  <2> QED  BY <1>0, <2>1, <2>2, <2>3 DEF TypeOK
<1>4. ASSUME NEW n \in Names, Define(n)
      PROVE  TypeOK'
  <2> DEFINE e == [kind |-> "Value", id |-> symbols + 1]
  <2>1. symbols + 1 \in Ids /\ symbols' \in 0..MaxSymbols
    BY <1>c, <1>4 DEF Define, Ids
  <2>2. e \in Entry
    BY <2>1 DEF Entry
  <2>3. Symbols' = [Symbols EXCEPT ![currentSymbols][n] = e]
    BY <1>4 DEF Define
  <2>4. Symbols' \in Seq(Map) /\ Len(Symbols') = Len(Symbols)
    <3> HIDE DEF e
    <3>1. Symbols[currentSymbols] \in Map
      BY <1>a, <1>b
    <3>2. [Symbols[currentSymbols] EXCEPT ![n] = e] \in Map
      BY <2>2, <3>1 DEF Map
    <3> QED  BY <1>a, <1>b, <2>3, <3>2
  <2>5. UNCHANGED <<Parent, SwaSymbols, currentSymbols, oldTables, call, returned,
                    Tables>>
    BY <1>4 DEF Define, Tables
  <2> QED  BY <1>0, <2>1, <2>4, <2>5 DEF TypeOK
<1>5. ASSUME NEW n \in Names, NEW op \in LookupOps, Lookup(op, n)
      PROVE  TypeOK'
  <2>1. call' \in LookupCall
    BY <1>a, <1>5 DEF Lookup, LookupCall
  <2>2. UNCHANGED <<tree, returned, Tables>>
    BY <1>5 DEF Lookup, tree, Tables
  <2> QED  BY <1>0, <2>1, <2>2 DEF TypeOK, tree
<1>6. CASE HoistFunction
  <2>1. call \in DefineCall /\ call # NoCall
    BY <1>0, <1>6, PendingCall DEF HoistFunction
  <2>2. call.table \in 1..Len(Parent)
    BY <1>0, <1>6, <2>1, CallTableExists
  <2>3. Parent[call.table] \in 1..MaxTables
    BY <1>a, <1>6, <2>2 DEF HoistFunction
  <2>4. call' \in DefineCall
    BY <1>6, <2>1, <2>3 DEF HoistFunction, DefineCall
  <2>5. UNCHANGED <<tree, returned, Tables>>
    BY <1>6 DEF HoistFunction, tree, Tables
  <2> QED  BY <1>0, <2>4, <2>5 DEF TypeOK, tree
<1>7. CASE StoreSymbol
  <2>1. call \in DefineCall
    BY <1>0, <1>7, PendingCall DEF StoreSymbol
  <2>2. call.table \in 1..Len(Parent)
    BY <1>0, <2>1, CallTableExists, NoCallIsNoCall
  <2>3. call.symbol \in Entry /\ call.name \in Names
    BY <2>1 DEF DefineCall, Entry
  <2>4. SwaSymbols' = [SwaSymbols EXCEPT ![call.table][call.name] = call.symbol]
    BY <1>7 DEF StoreSymbol
  <2>5. SwaSymbols' \in Seq(Map) /\ Len(SwaSymbols') = Len(SwaSymbols)
    <3>1. SwaSymbols[call.table] \in Map
      BY <1>a, <1>b, <2>2
    <3>2. [SwaSymbols[call.table] EXCEPT ![call.name] = call.symbol] \in Map
      BY <2>3, <3>1 DEF Map
    <3> QED  BY <1>a, <1>b, <2>2, <2>4, <3>2
  <2>6. /\ UNCHANGED <<Parent, Symbols, currentSymbols, oldTables, symbols,
                       returned, Tables>>
        /\ call' = NoCall
    BY <1>7 DEF StoreSymbol, Tables
  <2> QED  BY <1>0, <2>5, <2>6 DEF TypeOK
<1>8. CASE LookupHere
  <2>1. call \in LookupCall /\ call # NoCall
    BY <1>0, <1>8, PendingCall DEF LookupHere
  <2>2. Held(call.op, call.table, call.name) \in Entry \cup {Absent}
    BY <1>0, <2>1, HeldIsEntry
  <2>3. /\ returned' = Answer(call.op, call.name,
                              Held(call.op, call.table, call.name))
        /\ call' = NoCall
        /\ UNCHANGED tree
    BY <1>8 DEF LookupHere, Return
  <2>4. returned' \in LookupAnswer
    BY <2>1, <2>2, <2>3, AnswerType
  <2> QED  BY <1>0, <2>3, <2>4 DEF TypeOK, tree, Tables
<1>9. CASE LookupParent
  <2>1. call \in LookupCall /\ call # NoCall
    BY <1>0, <1>9, PendingCall DEF LookupParent
  <2>2. call.table \in 1..Len(Parent)
    BY <1>0, <2>1, CallTableExists
  <2>3. Parent[call.table] \in 1..MaxTables
    BY <1>a, <1>9, <2>2 DEF LookupParent
  <2>4. call' \in LookupCall
    BY <1>9, <2>1, <2>3 DEF LookupParent, LookupCall
  <2>5. UNCHANGED <<tree, returned, Tables>>
    BY <1>9 DEF LookupParent, tree, Tables
  <2> QED  BY <1>0, <2>4, <2>5 DEF TypeOK, tree
<1>10. CASE LookupFails
  <2>1. call \in LookupCall
    BY <1>0, <1>10, PendingCall DEF LookupFails
  <2>2. returned' = Answer(call.op, call.name, Absent) /\ call' = NoCall
        /\ UNCHANGED tree
    BY <1>10 DEF LookupFails, Return
  <2>3. returned' \in LookupAnswer
    BY <2>1, <2>2, AnswerType
  <2> QED  BY <1>0, <2>2, <2>3 DEF TypeOK, tree, Tables
<1>11. CASE UNCHANGED vars
  BY <1>0, <1>11 DEF vars, TypeOK, Tables
<1> QED
  BY <1>1, <1>2, <1>3, <1>4, <1>5, <1>6, <1>7, <1>8, <1>9, <1>10, <1>11 DEF Next

(***************************************************************************)
(* ScopeChain: only the two scope actions touch the tree and the chain.    *)
(***************************************************************************)
LEMMA ScopeFrame ==
  ASSUME [Next]_vars
  PROVE  \/ EnterScope
         \/ LeaveScope
         \/ UNCHANGED <<Parent, currentSymbols, oldTables, Tables, Chain>>
  BY DEF Next, vars, tree, DefineSwaSymbol, Define, Lookup, HoistFunction,
         StoreSymbol, LookupHere, LookupParent, LookupFails, Return, Tables, Chain

LEMMA ScopeChainStep == IInv /\ [Next]_vars => ScopeChain'
<1> SUFFICES ASSUME IInv, [Next]_vars PROVE ScopeChain'
  OBVIOUS
<1>0. TypeOK /\ ScopeChain
  BY DEF IInv
<1>a. Len(Parent) \in Nat \ {0} /\ Root \in Tables
  <2>1. Len(Parent) \in 1..MaxTables
    BY <1>0 DEF TypeOK
  <2> QED  BY <2>1, BoundsAssumption DEF Root, Tables
<1>1. CASE EnterScope
  <2> DEFINE new == Len(Parent) + 1
  <2>0. TypeOK'
    BY TypeOKStep
  <2>1. Len(Chain') = Len(oldTables) + 2 /\ Chain'[Len(oldTables) + 2] = new
    BY <1>0, <1>1, <2>0, EnterScopeEffect, ChainElements DEF Chain
  <2>2. \A i \in 1..Len(oldTables) + 1 : Chain'[i] = Chain[i]
    <3>1. oldTables' \in Seq(Tables) /\ Len(oldTables') = Len(oldTables) + 1
      BY <1>0, <1>1, EnterScopeEffect
    <3>2. \A i \in 1..Len(oldTables) + 1 : Chain'[i] = oldTables'[i]
      BY <3>1 DEF Chain
    <3> QED  BY <1>0, <1>1, <3>2, EnterScopeEffect
  <2>3. Chain'[1] = Root
    BY <1>0, <2>2, ChainElements DEF ScopeChain
  <2>4. Parent'[Root] = 0
    BY <1>0, <1>1, <1>a, EnterScopeEffect DEF ScopeChain
  <2>5. ASSUME NEW i \in 1..Len(oldTables')
        PROVE  Parent'[Chain'[i + 1]] = Chain'[i]
    <3>1. CASE i = Len(oldTables) + 1
      <4>1. Chain'[i + 1] = new /\ Chain'[i] = currentSymbols
        BY <1>0, <2>1, <2>2, <3>1, ChainElements
      <4> QED  BY <1>0, <1>1, <4>1, EnterScopeEffect
    <3>2. CASE i \in 1..Len(oldTables)
      <4>1. Chain'[i + 1] = Chain[i + 1] /\ Chain'[i] = Chain[i]
        BY <1>0, <2>2, <3>2, ChainElements
      <4>2. Chain[i + 1] \in Tables
        BY <1>0, <3>2, ChainElements
      <4>3. Parent[Chain[i + 1]] = Chain[i]
        BY <1>0, <3>2 DEF ScopeChain
      <4> QED  BY <1>0, <1>1, <4>1, <4>2, <4>3, EnterScopeEffect
    <3>3. Len(oldTables') = Len(oldTables) + 1 /\ Len(oldTables) \in Nat
      BY <1>0, <1>1, EnterScopeEffect, ChainElements
    <3> QED  BY <3>1, <3>2, <3>3
  <2>6. ASSUME NEW t \in Tables' \ {Root}
        PROVE  Parent'[t] \in 1..(t - 1)
    <3>1. CASE t = new
      <4>1. Parent'[t] = currentSymbols /\ currentSymbols \in 1..Len(Parent)
        BY <1>0, <1>1, <3>1, EnterScopeEffect DEF TypeOK, Tables
      <4> QED  BY <1>a, <3>1, <4>1
    <3>2. CASE t \in Tables
      BY <1>0, <1>1, <3>2, EnterScopeEffect DEF ScopeChain
    <3> QED  BY <1>0, <1>1, <3>1, <3>2, EnterScopeEffect
  <2>7. ASSUME NEW i \in 1..Len(Chain'), NEW j \in 1..Len(Chain'), i < j
        PROVE  Chain'[i] < Chain'[j]
    <3>1. Len(Chain) = Len(oldTables) + 1 /\ Len(oldTables) \in Nat
      BY <1>0, ChainElements
    <3>2. CASE j = Len(oldTables) + 2
      <4>1. i \in 1..Len(Chain) /\ Chain'[i] = Chain[i]
        BY <2>1, <2>2, <3>1, <3>2, <2>7
      <4>2. Chain[i] \in 1..Len(Parent)
        BY <1>0, <4>1, ChainElements DEF Tables
      <4> QED  BY <1>a, <2>1, <3>2, <4>1, <4>2
    <3>3. CASE j # Len(oldTables) + 2
      <4>1. i \in 1..Len(Chain) /\ j \in 1..Len(Chain)
        BY <2>1, <3>1, <3>3, <2>7
      <4> QED  BY <1>0, <2>2, <2>7, <3>1, <4>1 DEF ScopeChain
    <3> QED  BY <3>2, <3>3
  <2> QED  BY <2>3, <2>4, <2>5, <2>6, <2>7 DEF ScopeChain
<1>2. CASE LeaveScope
  <2>1. UNCHANGED <<Parent, Tables>>
    BY <1>2 DEF LeaveScope, Tables
  <2>2. \A i \in 1..Len(oldTables) : Chain'[i] = Chain[i]
    BY <1>0, <1>2, LeaveScopeEffect
  <2>3. /\ Len(oldTables) \in Nat /\ Len(oldTables) > 0
        /\ Len(oldTables') = Len(oldTables) - 1
    BY <1>0, <1>2, LeaveScopeEffect, ChainElements
  <2>4. Chain'[1] = Root
    BY <1>0, <2>2, <2>3 DEF ScopeChain
  <2>5. ASSUME NEW i \in 1..Len(oldTables')
        PROVE  Parent'[Chain'[i + 1]] = Chain'[i]
    <3>1. i \in 1..Len(oldTables) /\ i + 1 \in 1..Len(oldTables)
      BY <2>3
    <3> QED  BY <1>0, <2>1, <2>2, <3>1 DEF ScopeChain
  <2>6. ASSUME NEW i \in 1..Len(Chain'), NEW j \in 1..Len(Chain'), i < j
        PROVE  Chain'[i] < Chain'[j]
    <3>1. Len(Chain') = Len(oldTables) /\ Len(Chain) = Len(oldTables) + 1
      BY <1>0, <1>2, LeaveScopeEffect, ChainElements
    <3>2. i \in 1..Len(Chain) /\ j \in 1..Len(Chain)
      BY <2>3, <3>1
    <3> QED  BY <1>0, <2>2, <2>6, <3>1, <3>2 DEF ScopeChain
  <2> QED  BY <1>0, <2>1, <2>4, <2>5, <2>6 DEF ScopeChain
<1>3. CASE UNCHANGED <<Parent, currentSymbols, oldTables, Tables, Chain>>
  BY <1>0, <1>3 DEF ScopeChain
<1> QED
  BY <1>1, <1>2, <1>3, ScopeFrame

(***************************************************************************)
(* FunctionsAtRoot: a table without a parent is the root, and the table a  *)
(* variable is stored in is not.                                           *)
(***************************************************************************)
LEMMA CurrentIsNotRoot ==
  ASSUME TypeOK, ScopeChain, oldTables # <<>>
  PROVE  currentSymbols \in Tables \ {Root}
<1>1. Len(oldTables) \in Nat \ {0}
  BY DEF TypeOK
<1>2. Parent[currentSymbols] = Chain[Len(oldTables)]
  BY <1>1, ChainElements DEF ScopeChain
<1>3. Chain[Len(oldTables)] \in Tables /\ Parent[Root] = 0
  BY <1>1, ChainElements DEF ScopeChain
<1> QED  BY <1>2, <1>3 DEF Tables, TypeOK

LEMMA FunctionsAtRootStep == IInv /\ [Next]_vars => FunctionsAtRoot'
<1> SUFFICES ASSUME IInv, [Next]_vars PROVE FunctionsAtRoot'
  OBVIOUS
<1>0. TypeOK /\ ScopeChain /\ FunctionsAtRoot /\ WalkSkipsNothing
  BY DEF IInv
<1>a. /\ Len(SwaSymbols) = Len(Parent) /\ Len(Symbols) = Len(Parent)
      /\ Len(Parent) \in Nat \ {0}
      /\ SwaSymbols \in Seq(Map) /\ Symbols \in Seq(Map)
  <2>1. Len(Parent) \in 1..MaxTables
    BY <1>0 DEF TypeOK
  <2> QED  BY <1>0, <2>1, BoundsAssumption DEF TypeOK
<1>b. Root \in Tables
  BY <1>a DEF Root, Tables
<1>1. CASE EnterScope
  <2>1. \A n \in Names : NoEntries[n].kind # "Function"
    BY DEF NoEntries, Absent
  <2>2. SwaSymbols'[Root] = SwaSymbols[Root] /\ Symbols'[Root] = Symbols[Root]
    BY <1>0, <1>1, <1>b, EnterScopeEffect
  <2>3. ASSUME NEW n \in Names, NEW t \in Tables' \ {Root}
        PROVE  SwaSymbols'[t][n].kind # "Function"
    <3>1. CASE t \in Tables
      BY <1>0, <1>1, <3>1, EnterScopeEffect DEF FunctionsAtRoot
    <3>2. CASE t = Len(Parent) + 1
      BY <1>0, <1>1, <2>1, <3>2, EnterScopeEffect
    <3> QED  BY <1>0, <1>1, <3>1, <3>2, EnterScopeEffect
  <2> QED  BY <1>0, <2>2, <2>3 DEF FunctionsAtRoot
<1>2. ASSUME NEW n \in Names, Define(n)
      PROVE  FunctionsAtRoot'
  <2>1. currentSymbols \in Tables \ {Root}
    BY <1>0, <1>2, CurrentIsNotRoot DEF Define, MayCall
  <2>2. Symbols'[Root] = Symbols[Root]
    BY <1>2, <1>a, <1>b, <2>1 DEF Define, Tables
  <2>3. UNCHANGED <<SwaSymbols, Tables>>
    BY <1>2 DEF Define, Tables
  <2> QED  BY <1>0, <2>2, <2>3 DEF FunctionsAtRoot
<1>3. CASE StoreSymbol
  <2>1. call \in DefineCall /\ call # NoCall
    BY <1>0, <1>3, PendingCall DEF StoreSymbol
  <2>2. /\ call.table \in Tables /\ call.name \in Names
        /\ call.symbol.kind \in {"Variable", "Function"}
    BY <1>0, <2>1, CallTableExists DEF Tables, DefineCall
  <2>3. /\ SwaSymbols' = [SwaSymbols EXCEPT ![call.table][call.name] = call.symbol]
        /\ UNCHANGED <<Symbols, Tables>>
    BY <1>3 DEF StoreSymbol, Tables
  <2>4. \A t \in Tables : t # call.table => SwaSymbols'[t] = SwaSymbols[t]
    BY <1>a, <2>2, <2>3 DEF Tables
  <2>5. \A n \in Names : SwaSymbols'[call.table][n] =
          IF n = call.name THEN call.symbol ELSE SwaSymbols[call.table][n]
    <3>1. SwaSymbols[call.table] \in Map
      BY <1>a, <2>2 DEF Tables
    <3> QED  BY <1>a, <2>2, <2>3, <3>1 DEF Tables, Map
  <2>6. CASE call.symbol.kind = "Function"
    <3>1. call.table = Root
      BY <1>0, <1>3, <2>2, <2>6 DEF StoreSymbol, ScopeChain
    <3> QED  BY <1>0, <2>3, <2>4, <2>5, <2>6, <3>1 DEF FunctionsAtRoot
  <2>7. CASE call.symbol.kind = "Variable"
    <3>1. call.table = currentSymbols /\ oldTables # <<>>
      BY <1>0, <2>1, <2>7, ChainElements, NoCallIsNoCall DEF WalkSkipsNothing
    <3>2. call.table # Root
      BY <1>0, <3>1, CurrentIsNotRoot
    <3>3. SwaSymbols'[Root] = SwaSymbols[Root]
      BY <1>b, <2>4, <3>2
    <3>4. ASSUME NEW n \in Names, NEW t \in Tables \ {Root}
          PROVE  SwaSymbols'[t][n].kind # "Function"
      BY <1>0, <2>4, <2>5, <2>7 DEF FunctionsAtRoot
    <3> QED  BY <1>0, <2>3, <3>3, <3>4 DEF FunctionsAtRoot
  <2> QED  BY <2>2, <2>6, <2>7
<1>4. CASE UNCHANGED <<SwaSymbols, Symbols, Tables>>
  BY <1>0, <1>4 DEF FunctionsAtRoot
<1> QED
  <2>1. \/ EnterScope \/ StoreSymbol \/ \E n \in Names : Define(n)
        \/ UNCHANGED <<SwaSymbols, Symbols, Tables>>
    BY DEF Next, vars, tree, LeaveScope, DefineSwaSymbol, Lookup, HoistFunction,
           LookupHere, LookupParent, LookupFails, Return, Tables
  <2> QED  BY <1>1, <1>2, <1>3, <1>4, <2>1

(***************************************************************************)
(* WalkSkipsNothing: a walk starts at the end of the chain and each of its *)
(* steps goes to the element before, because ScopeChain makes that element *)
(* the parent.                                                             *)
(***************************************************************************)
StandsOnChain(i) ==
  /\ call.table = Chain[i]
  /\ call.op \in LookupOps =>
       \A j \in (i + 1)..Len(Chain) : Held(call.op, Chain[j], call.name) = Absent
  /\ call.op = "defineSwaSymbol" /\ call.symbol.kind = "Variable" =>
       i = Len(Chain)

(* A call that has just been made stands on the current table. *)
LEMMA CallStarts ==
  ASSUME TypeOK, MayCall, call'.table = currentSymbols,
         UNCHANGED <<oldTables, currentSymbols>>
  PROVE  WalkSkipsNothing'
<1>1. Len(Chain) = Len(oldTables) + 1 /\ Len(oldTables) \in Nat
  BY ChainElements
<1>2. UNCHANGED Chain /\ Chain[Len(Chain)] = currentSymbols
  BY <1>1, ChainElements DEF Chain
<1>3. StandsOnChain(Len(Chain))'
  BY <1>1, <1>2 DEF StandsOnChain
<1>4. oldTables' # <<>> /\ Len(Chain') \in 1..Len(Chain')
  BY <1>1, <1>2 DEF MayCall
<1> QED  BY <1>3, <1>4 DEF WalkSkipsNothing, StandsOnChain

(* The parent of an element of the chain, when it has one. *)
LEMMA ParentOnChain ==
  ASSUME TypeOK, ScopeChain, NEW i \in 1..Len(Chain), Parent[Chain[i]] # 0
  PROVE  i - 1 \in 1..Len(Chain) /\ Parent[Chain[i]] = Chain[i - 1]
<1>1. Len(Chain) = Len(oldTables) + 1 /\ Len(oldTables) \in Nat
  BY ChainElements
<1>2. i # 1
  BY DEF ScopeChain
<1>3. i - 1 \in 1..Len(oldTables) /\ (i - 1) + 1 = i
  BY <1>1, <1>2
<1> QED  BY <1>1, <1>3 DEF ScopeChain

LEMMA WalkSkipsNothingStep == IInv /\ [Next]_vars => WalkSkipsNothing'
<1> SUFFICES ASSUME IInv, [Next]_vars PROVE WalkSkipsNothing'
  OBVIOUS
<1>0. TypeOK /\ ScopeChain /\ WalkSkipsNothing
  BY DEF IInv
<1>1. CASE EnterScope \/ LeaveScope
  BY <1>1 DEF EnterScope, LeaveScope, WalkSkipsNothing
<1>2. ASSUME NEW n \in Names, NEW kind \in {"Variable", "Function"},
             DefineSwaSymbol(n, kind)
      PROVE  WalkSkipsNothing'
  BY <1>0, <1>2, CallStarts DEF DefineSwaSymbol
<1>3. ASSUME NEW n \in Names, Define(n)
      PROVE  WalkSkipsNothing'
  BY <1>3 DEF Define, MayCall, WalkSkipsNothing
<1>4. ASSUME NEW n \in Names, NEW op \in LookupOps, Lookup(op, n)
      PROVE  WalkSkipsNothing'
  BY <1>0, <1>4, CallStarts DEF Lookup, tree
<1>5. CASE HoistFunction \/ LookupParent
  <2>1. call # NoCall /\ call \in LookupCall \cup DefineCall
    BY <1>0, <1>5, PendingCall DEF HoistFunction, LookupParent
  <2>2. /\ Parent[call.table] # 0
        /\ call' = [call EXCEPT !.table = Parent[call.table]]
        /\ UNCHANGED tree
    BY <1>5 DEF HoistFunction, LookupParent
  <2>3. PICK i \in 1..Len(Chain) : StandsOnChain(i)
    BY <1>0, <2>1 DEF WalkSkipsNothing, StandsOnChain
  <2>4. i - 1 \in 1..Len(Chain) /\ Parent[call.table] = Chain[i - 1]
    BY <1>0, <2>2, <2>3, ParentOnChain DEF StandsOnChain
  <2>5. /\ call'.table = Chain[i - 1] /\ call'.op = call.op
        /\ call'.name = call.name
        /\ call.op = "defineSwaSymbol" => call'.symbol = call.symbol
    BY <2>1, <2>2, <2>4 DEF LookupCall, DefineCall
  <2>6. UNCHANGED <<Chain, oldTables, SwaSymbols, Symbols>>
    BY <2>2 DEF tree, Chain
  <2>7. call.op \in LookupOps =>
          \A j \in ((i - 1) + 1)..Len(Chain) :
            Held(call.op, Chain[j], call.name) = Absent
    <3> SUFFICES ASSUME call.op \in LookupOps, NEW j \in ((i - 1) + 1)..Len(Chain)
                 PROVE  Held(call.op, Chain[j], call.name) = Absent
      OBVIOUS
    <3>1. Len(Chain) \in Nat
      BY <1>0, ChainElements
    <3>2. CASE j = i
      BY <1>5, <2>3, <3>2 DEF LookupParent, HoistFunction, LookupOps, StandsOnChain
    <3>3. CASE j \in (i + 1)..Len(Chain)
      BY <2>3, <3>3 DEF StandsOnChain
    <3> QED  BY <3>1, <3>2, <3>3
  <2>8. ~(call.op = "defineSwaSymbol" /\ call.symbol.kind = "Variable")
    BY <1>5 DEF HoistFunction, LookupParent, LookupOps
  <2>9. StandsOnChain(i - 1)'
    BY <2>5, <2>6, <2>7, <2>8 DEF StandsOnChain, Held
  <2> QED  BY <1>0, <2>1, <2>4, <2>6, <2>9 DEF WalkSkipsNothing, StandsOnChain
<1>6. CASE StoreSymbol \/ LookupHere \/ LookupFails
  BY <1>6 DEF StoreSymbol, LookupHere, LookupFails, Return, WalkSkipsNothing
<1>7. CASE UNCHANGED vars
  BY <1>0, <1>7 DEF vars, WalkSkipsNothing, Chain, Held
<1> QED
  BY <1>1, <1>2, <1>3, <1>4, <1>5, <1>6, <1>7 DEF Next

(***************************************************************************)
(* The theorems.                                                           *)
(***************************************************************************)
LEMMA Invariance == Spec => []IInv
<1>1. IInv /\ [Next]_vars => IInv'
  BY TypeOKStep, ScopeChainStep, FunctionsAtRootStep, WalkSkipsNothingStep DEF IInv
<1> QED  BY InitIInv, <1>1, PTL DEF Spec

(* The three maps keep one element for each table, and no visit or call    *)
(* ever refers to a table that does not exist.                             *)
THEOREM TypeCorrect == Spec => []TypeOK
<1>1. IInv => TypeOK
  BY DEF IInv
<1> QED  BY Invariance, <1>1, PTL

(* The tables saved by the visits are always the ancestors of the current  *)
(* one, down to the root.                                                  *)
THEOREM ChainCorrect == Spec => []ScopeChain
<1>1. IInv => ScopeChain
  BY DEF IInv
<1> QED  BY Invariance, <1>1, PTL

(* Functions are always at the root, and nothing else is.                  *)
THEOREM HoistingCorrect == Spec => []FunctionsAtRoot
<1>1. IInv => FunctionsAtRoot
  BY DEF IInv
<1> QED  BY Invariance, <1>1, PTL

(* No lookup passes over a declaration of the name it looks for.           *)
THEOREM WalkCorrect == Spec => []WalkSkipsNothing
<1>1. IInv => WalkSkipsNothing
  BY DEF IInv
<1> QED  BY Invariance, <1>1, PTL

-----------------------------------------------------------------------------
(***************************************************************************)
(* The tree of tables, walked step by step, implements lexical scoping:    *)
(* every step of SymbolTable is a step of LexicalScope on the scopes of    *)
(* the chain, or leaves them and the last answer alone.                    *)
(***************************************************************************)
ScopeType == [swa : Map, llvm : Map]

(* The open scopes, element by element. *)
LEMMA OpenScopesElements ==
  ASSUME TypeOK
  PROVE  /\ OpenScopes \in Seq(ScopeType)
         /\ Len(OpenScopes) = Len(oldTables)
         /\ DOMAIN OpenScopes = 1..Len(oldTables)
         /\ \A i \in 1..Len(oldTables) :
              /\ OpenScopes[i] = [swa |-> SwaSymbols[Chain[i + 1]],
                                  llvm |-> Symbols[Chain[i + 1]]]
              /\ OpenScopes[i].swa = SwaSymbols[Chain[i + 1]]
              /\ OpenScopes[i].llvm = Symbols[Chain[i + 1]]
<1>1. Len(oldTables) \in Nat
  BY ChainElements
<1>2. /\ SwaSymbols \in Seq(Map) /\ Symbols \in Seq(Map)
      /\ Len(SwaSymbols) = Len(Parent) /\ Len(Symbols) = Len(Parent)
  BY DEF TypeOK
<1>3. ASSUME NEW i \in 1..Len(oldTables)
      PROVE  /\ Chain[i + 1] \in 1..Len(Parent)
             /\ SwaSymbols[Chain[i + 1]] \in Map
             /\ Symbols[Chain[i + 1]] \in Map
  <2>1. i + 1 \in 1..Len(Chain)
    BY <1>1, ChainElements
  <2>2. Chain[i + 1] \in 1..Len(Parent)
    BY <2>1, ChainElements DEF Tables
  <2> QED  BY <1>2, <2>2
<1>4. \A i \in 1..Len(oldTables) :
        [swa |-> SwaSymbols[Chain[i + 1]], llvm |-> Symbols[Chain[i + 1]]]
          \in ScopeType
  BY <1>3 DEF ScopeType
<1>5. OpenScopes \in Seq(ScopeType) /\ Len(OpenScopes) = Len(oldTables)
  BY <1>1, <1>4 DEF OpenScopes
<1> QED  BY <1>5 DEF OpenScopes

LEMMA ScopingInit == Init => Scoping!Init
<1> SUFFICES ASSUME Init PROVE Scoping!Init
  OBVIOUS
<1>1. OpenScopes = <<>>
  BY DEF Init, OpenScopes
<1>2. SwaSymbols[Root] = Scoping!NoEntries
  BY DEF Init, Root, NoEntries, Absent, Scoping!NoEntries, Scoping!Absent
<1> QED  BY <1>1, <1>2 DEF Init, NoAnswer, Scoping!Init

(* The same in the next state. *)
LEMMA OpenScopesElementsNext ==
  ASSUME TypeOK'
  PROVE  /\ OpenScopes' \in Seq(ScopeType)
         /\ Len(OpenScopes') = Len(oldTables')
         /\ \A i \in 1..Len(oldTables') :
              OpenScopes'[i] = [swa |-> SwaSymbols'[Chain'[i + 1]],
                                llvm |-> Symbols'[Chain'[i + 1]]]
<1>1. (/\ OpenScopes \in Seq(ScopeType)
       /\ Len(OpenScopes) = Len(oldTables)
       /\ DOMAIN OpenScopes = 1..Len(oldTables)
       /\ \A i \in 1..Len(oldTables) :
            /\ OpenScopes[i] = [swa |-> SwaSymbols[Chain[i + 1]],
                                llvm |-> Symbols[Chain[i + 1]]]
            /\ OpenScopes[i].swa = SwaSymbols[Chain[i + 1]]
            /\ OpenScopes[i].llvm = Symbols[Chain[i + 1]])'
  BY OpenScopesElements, PTL
<1>2. ScopeType' = ScopeType
  BY DEF ScopeType, Map
<1> QED  BY <1>1, <1>2

LEMMA ScopingEnter ==
  ASSUME TypeOK, TypeOK', ScopeChain, EnterScope
  PROVE  Scoping!OpenScope
<1> DEFINE n == Len(oldTables)
           empty == [swa |-> NoEntries, llvm |-> NoEntries]
<1>1. n \in Nat /\ Len(oldTables') = n + 1
  BY EnterScopeEffect, ChainElements
<1>2. Chain'[n + 2] = Len(Parent) + 1
  BY <1>1, EnterScopeEffect, ChainElements DEF Chain
<1>3. \A i \in 1..n + 1 : Chain'[i] = Chain[i]
  <2>1. oldTables' \in Seq(Tables) /\ Len(oldTables') = n + 1
    BY EnterScopeEffect
  <2>2. \A i \in 1..n + 1 : Chain'[i] = oldTables'[i]
    BY <2>1 DEF Chain
  <2> QED  BY <2>2, EnterScopeEffect
<1>4. /\ OpenScopes' \in Seq(ScopeType) /\ Len(OpenScopes') = n + 1
      /\ OpenScopes \in Seq(ScopeType) /\ Len(OpenScopes) = n
  BY <1>1, OpenScopesElements, OpenScopesElementsNext
<1>5. ASSUME NEW i \in 1..n
      PROVE  OpenScopes'[i] = OpenScopes[i]
  <2>1. i \in 1..Len(oldTables') /\ i + 1 \in 1..n + 1
    BY <1>1
  <2>2. Chain'[i + 1] = Chain[i + 1] /\ Chain[i + 1] \in Tables
    BY <1>1, <1>3, <2>1, ChainElements
  <2> QED  BY <2>1, <2>2, OpenScopesElements, OpenScopesElementsNext,
              EnterScopeEffect
<1>6. OpenScopes'[n + 1] = empty
  <2>1. (n + 1) + 1 = n + 2 /\ n + 1 \in 1..Len(oldTables')
    BY <1>1
  <2> QED  BY <1>2, <2>1, OpenScopesElementsNext, EnterScopeEffect
<1>7. empty \in ScopeType
  <2>1. NoEntries \in Map
    BY DEF NoEntries, Map
  <2> QED  BY <2>1 DEF ScopeType
<1>8. OpenScopes' = Append(OpenScopes, empty)
  <2> HIDE DEF empty, n
  <2> QED  BY <1>1, <1>4, <1>5, <1>6, <1>7
<1>9. empty = Scoping!EmptyScope
  BY DEF Scoping!EmptyScope, Scoping!NoEntries, Scoping!Absent, NoEntries, Absent
<1>10. SwaSymbols'[Root] = SwaSymbols[Root]
  <2>1. Root \in Tables
    BY EnterScopeEffect, BoundsAssumption DEF TypeOK, Tables, Root
  <2> QED  BY <2>1, EnterScopeEffect
<1>11. returned' = returned
  BY DEF EnterScope
<1> QED  BY <1>8, <1>9, <1>10, <1>11 DEF Scoping!OpenScope

LEMMA ScopingLeave ==
  ASSUME TypeOK, TypeOK', LeaveScope
  PROVE  Scoping!CloseScope
<1> DEFINE n == Len(oldTables)
<1>1. n \in Nat /\ n > 0 /\ Len(oldTables') = n - 1
  BY LeaveScopeEffect, ChainElements
<1>2. /\ OpenScopes' \in Seq(ScopeType) /\ Len(OpenScopes') = n - 1
      /\ OpenScopes \in Seq(ScopeType) /\ Len(OpenScopes) = n
  BY <1>1, OpenScopesElements, OpenScopesElementsNext
<1>3. UNCHANGED <<SwaSymbols, Symbols, returned>>
  BY DEF LeaveScope
<1>4. ASSUME NEW i \in 1..(n - 1)
      PROVE  OpenScopes'[i] = OpenScopes[i]
  <2>1. i \in 1..Len(oldTables') /\ i \in 1..n /\ i + 1 \in 1..n
    BY <1>1
  <2>2. Chain'[i + 1] = Chain[i + 1]
    BY <2>1, LeaveScopeEffect
  <2> QED  BY <1>3, <2>1, <2>2, OpenScopesElements, OpenScopesElementsNext
<1>5. OpenScopes # <<>>
  BY <1>1, <1>2
<1>6. OpenScopes' = SubSeq(OpenScopes, 1, Len(OpenScopes) - 1)
  <2> DEFINE last == n - 1
             front == SubSeq(OpenScopes, 1, last)
  <2>1. last \in Int /\ 1 \in Int /\ 0 <= last /\ Len(OpenScopes) - 1 = last
    BY <1>1, <1>2
  <2>2. \A i \in 1..last : OpenScopes[i] \in ScopeType
    BY <1>1, <1>2, <2>1
  <2>3. /\ front \in Seq(ScopeType)
        /\ Len(front) = IF 1 <= last THEN last - 1 + 1 ELSE 0
        /\ \A i \in 1..(last - 1 + 1) : front[i] = OpenScopes[1 + i - 1]
    <3> HIDE DEF last
    <3> QED  BY <2>1, <2>2, SubSeqProperties
  <2>4. last - 1 + 1 = last /\ \A i \in 1..last : 1 + i - 1 = i
    BY <2>1
  <2>5. Len(front) = last
    <3> HIDE DEF last, front
    <3> QED  BY <2>1, <2>3, <2>4
  <2>6. \A i \in 1..last : front[i] = OpenScopes[i]
    <3> HIDE DEF last, front
    <3> QED  BY <2>3, <2>4
  <2>7. Len(OpenScopes') = last /\ \A i \in 1..last : OpenScopes'[i] = OpenScopes[i]
    BY <1>2, <1>4
  <2>8. OpenScopes' = front
    <3> HIDE DEF last, front
    <3> QED  BY <1>2, <2>3, <2>5, <2>6, <2>7, SeqEqual
  <2> QED  BY <2>1, <2>8
<1>7. UNCHANGED <<SwaSymbols[Root], returned>>
  BY <1>3
<1> QED  BY <1>5, <1>6, <1>7 DEF Scoping!CloseScope

(* The definitions LexicalScope and SymbolTable share. *)
LEMMA SameDefinitions ==
  /\ Scoping!Absent = Absent
  /\ Scoping!Entry = Entry
  /\ Scoping!NoEntries = NoEntries
  /\ \A op, n, e : Scoping!Answer(op, n, e) = Answer(op, n, e)
<1>1. Scoping!Absent = Absent
  BY DEF Scoping!Absent, Absent
<1>2. Scoping!Entry = Entry
  BY DEF Scoping!Entry, Entry
<1>3. Scoping!NoEntries = NoEntries
  BY <1>1 DEF Scoping!NoEntries, NoEntries
<1>4. \A op, e : Scoping!Outcome(op, e) = Outcome(op, e)
  BY <1>1 DEF Scoping!Outcome, Outcome
<1>5. \A op, n, e : Scoping!Answer(op, n, e) = Answer(op, n, e)
  BY <1>4 DEF Scoping!Answer, Answer
<1> QED  BY <1>1, <1>2, <1>3, <1>5

(***************************************************************************)
(* The walk has met the name at element i of the chain: below the root     *)
(* that is scope i - 1, at the root it is the map of functions.            *)
(***************************************************************************)
LEMMA MetAtScope ==
  ASSUME TypeOK, NEW i \in 1..Len(Chain), i # 1, StandsOnChain(i),
         call.op \in LookupOps,
         NEW map \in {"swa", "llvm"}, NEW g,
         map = (IF call.op = "lookup" THEN "llvm" ELSE "swa"),
         Held(call.op, call.table, call.name) # Absent
  PROVE  Scoping!Innermost(call.name, map, g, Held(call.op, call.table, call.name))
<1> DEFINE k == i - 1
<1>1. /\ Len(Chain) = Len(oldTables) + 1 /\ Len(oldTables) \in Nat
      /\ Len(OpenScopes) = Len(oldTables)
  BY ChainElements, OpenScopesElements
<1>2. k \in 1..Len(OpenScopes) /\ k + 1 = i
  BY <1>1
<1>3. \A j \in 1..Len(OpenScopes) :
        OpenScopes[j][map][call.name] = Held(call.op, Chain[j + 1], call.name)
  BY <1>1, OpenScopesElements DEF Held
<1>4. OpenScopes[k][map][call.name] = Held(call.op, call.table, call.name)
  BY <1>2, <1>3 DEF StandsOnChain
<1>5. ASSUME NEW j \in (k + 1)..Len(OpenScopes)
      PROVE  OpenScopes[j][map][call.name] = Absent
  <2>1. j \in 1..Len(OpenScopes) /\ j + 1 \in (i + 1)..Len(Chain)
    BY <1>1, <1>2
  <2> QED  BY <1>3, <2>1 DEF StandsOnChain
<1> QED
  <2> HIDE DEF k
  <2> QED  BY <1>2, <1>4, <1>5, SameDefinitions DEF Scoping!Innermost

LEMMA MetNowhere ==
  ASSUME TypeOK, StandsOnChain(1), call.op \in LookupOps,
         NEW map \in {"swa", "llvm"}, NEW g,
         map = (IF call.op = "lookup" THEN "llvm" ELSE "swa")
  PROVE  Scoping!Innermost(call.name, map, g, g[call.name])
<1>1. /\ Len(Chain) = Len(oldTables) + 1 /\ Len(oldTables) \in Nat
      /\ Len(OpenScopes) = Len(oldTables)
  BY ChainElements, OpenScopesElements
<1>2. \A j \in 1..Len(OpenScopes) :
        OpenScopes[j][map][call.name] = Held(call.op, Chain[j + 1], call.name)
  BY <1>1, OpenScopesElements DEF Held
<1>3. ASSUME NEW j \in 1..Len(OpenScopes)
      PROVE  OpenScopes[j][map][call.name] = Absent
  <2>1. j + 1 \in (1 + 1)..Len(Chain)
    BY <1>1
  <2> QED  BY <1>2, <2>1 DEF StandsOnChain
<1> QED  BY <1>3, SameDefinitions DEF Scoping!Innermost

(* What LookupHere and LookupFails return is what LexicalScope answers. *)
LEMMA ScopingLookup ==
  ASSUME IInv, LookupHere \/ LookupFails
  PROVE  \/ call.op # "lookup" /\ Scoping!LookupSymbol(call.op, call.name)
         \/ Scoping!LookupValue(call.name)
<1> DEFINE found == Held(call.op, call.table, call.name)
           map == IF call.op = "lookup" THEN "llvm" ELSE "swa"
           g == IF call.op = "lookup" THEN NoEntries ELSE SwaSymbols[Root]
<1>1. TypeOK /\ ScopeChain /\ FunctionsAtRoot /\ WalkSkipsNothing
  BY DEF IInv
<1>2. /\ call.op \in LookupOps /\ call \in LookupCall /\ call # NoCall
      /\ call.name \in Names
  BY <1>1, PendingCall DEF LookupHere, LookupFails, LookupCall
<1>3. PICK i \in 1..Len(Chain) : StandsOnChain(i)
  BY <1>1, <1>2 DEF WalkSkipsNothing, StandsOnChain
<1>4. found \in Entry \cup {Absent}
  BY <1>1, <1>2, HeldIsEntry
<1>5. returned' = Answer(call.op, call.name, found) /\ UNCHANGED tree
  BY DEF LookupHere, LookupFails, Return
<1>6. OpenScopes # <<>>
  BY <1>1, <1>2, OpenScopesElements DEF WalkSkipsNothing, TypeOK
<1>7. UNCHANGED <<OpenScopes, SwaSymbols[Root]>>
  BY <1>5 DEF tree, OpenScopes, Chain
<1>8. Scoping!Innermost(call.name, map, g, found)
  <2>1. CASE i = 1
    <3>1. call.table = Root
      BY <1>1, <1>3, <2>1 DEF StandsOnChain, ScopeChain
    <3>2. found = g[call.name]
      BY <1>1, <1>2, <3>1 DEF Held, FunctionsAtRoot, NoEntries
    <3>3. Scoping!Innermost(call.name, map, g, g[call.name])
      <4> HIDE DEF g
      <4> QED  BY <1>1, <1>2, <1>3, <2>1, MetNowhere
    <3> QED  BY <3>2, <3>3
  <2>2. CASE i # 1
    <3>1. i - 1 \in 1..Len(oldTables) /\ (i - 1) + 1 = i
      BY <1>1, <2>2, ChainElements
    <3>2. Parent[call.table] = Chain[i - 1] /\ Chain[i - 1] \in Tables
      <4>1. Parent[Chain[(i - 1) + 1]] = Chain[i - 1]
        BY <1>1, <3>1 DEF ScopeChain
      <4>2. i - 1 \in 1..Len(Chain)
        BY <1>1, <3>1, ChainElements
      <4> QED  BY <1>1, <1>3, <3>1, <4>1, <4>2, ChainElements DEF StandsOnChain
    <3>3. Parent[call.table] # 0
      BY <3>2 DEF Tables
    <3>4. found # Absent
      BY <3>3 DEF LookupHere, LookupFails
    <3> HIDE DEF g
    <3> QED  BY <1>1, <1>2, <1>3, <2>2, <3>4, MetAtScope
  <2> QED  BY <2>1, <2>2
<1>9. ASSUME call.op = "lookup" PROVE Scoping!LookupValue(call.name)
  <2>1. Scoping!Innermost(call.name, "llvm", NoEntries, found)
    BY <1>8, <1>9
  <2>2. returned' = Answer("lookup", call.name, found)
    BY <1>5, <1>9
  <2> HIDE DEF found
  <2> QED  BY <1>4, <1>6, <1>7, <2>1, <2>2, SameDefinitions DEF Scoping!LookupValue
<1>10. ASSUME call.op # "lookup" PROVE Scoping!LookupSymbol(call.op, call.name)
  <2>1. Scoping!Innermost(call.name, "swa", SwaSymbols[Root], found)
    BY <1>8, <1>10
  <2> HIDE DEF found
  <2> QED  BY <1>4, <1>5, <1>6, <1>7, <2>1, SameDefinitions
           DEF Scoping!LookupSymbol
<1> QED  BY <1>9, <1>10

(***************************************************************************)
(* A variable or a value goes to the current table, which is the last      *)
(* scope and no other one.                                                 *)
(***************************************************************************)
LEMMA CurrentIsLastScope ==
  ASSUME TypeOK, ScopeChain, oldTables # <<>>
  PROVE  /\ Len(oldTables) \in Nat \ {0}
         /\ Chain[Len(oldTables) + 1] = currentSymbols
         /\ \A i \in 1..Len(oldTables) :
              Chain[i + 1] = currentSymbols <=> i = Len(oldTables)
<1>1. Len(oldTables) \in Nat \ {0}
  BY DEF TypeOK
<1>2. Chain[Len(oldTables) + 1] = currentSymbols
  BY ChainElements
<1>3. ASSUME NEW i \in 1..Len(oldTables), i # Len(oldTables)
      PROVE  Chain[i + 1] # currentSymbols
  <2>1. /\ i + 1 \in 1..Len(Chain) /\ Len(oldTables) + 1 \in 1..Len(Chain)
        /\ i + 1 < Len(oldTables) + 1
    BY <1>1, <1>3, ChainElements
  <2>2. Chain[i + 1] < Chain[Len(oldTables) + 1]
    BY <2>1 DEF ScopeChain
  <2> QED  BY <1>2, <2>1, <2>2, ChainElements DEF Tables
<1> QED  BY <1>1, <1>2, <1>3

LEMMA ScopingDeclare ==
  ASSUME TypeOK, TypeOK', ScopeChain, oldTables # <<>>, NEW n \in Names,
         NEW e \in Entry, NEW map \in {"swa", "llvm"},
         UNCHANGED <<Parent, currentSymbols, oldTables>>,
         IF map = "swa"
         THEN /\ SwaSymbols' = [SwaSymbols EXCEPT ![currentSymbols][n] = e]
              /\ Symbols' = Symbols
         ELSE /\ Symbols' = [Symbols EXCEPT ![currentSymbols][n] = e]
              /\ SwaSymbols' = SwaSymbols
  PROVE  IF map = "swa"
         THEN OpenScopes' = [OpenScopes EXCEPT ![Len(OpenScopes)].swa[n] = e]
         ELSE OpenScopes' = [OpenScopes EXCEPT ![Len(OpenScopes)].llvm[n] = e]
<1> DEFINE last == Len(oldTables)
           new == IF map = "swa"
                  THEN [OpenScopes EXCEPT ![last].swa[n] = e]
                  ELSE [OpenScopes EXCEPT ![last].llvm[n] = e]
<1>1. last \in Nat \ {0} /\ Len(OpenScopes) = last
      /\ OpenScopes \in Seq(ScopeType)
  BY CurrentIsLastScope, OpenScopesElements
<1>2. UNCHANGED Chain
  BY DEF Chain
<1>3. OpenScopes' \in Seq(ScopeType) /\ Len(OpenScopes') = last
  BY OpenScopesElementsNext
<1>4. OpenScopes[last] \in ScopeType
  BY <1>1
<1>5. new \in Seq(ScopeType) /\ Len(new) = last
  <2>1. /\ [OpenScopes[last] EXCEPT !.swa[n] = e] \in ScopeType
        /\ [OpenScopes[last] EXCEPT !.llvm[n] = e] \in ScopeType
    BY <1>4 DEF ScopeType, Map
  <2> QED  BY <1>1, <2>1
<1>6. /\ currentSymbols \in 1..Len(SwaSymbols) /\ currentSymbols \in 1..Len(Symbols)
      /\ SwaSymbols \in Seq(Map) /\ Symbols \in Seq(Map)
      /\ Len(SwaSymbols) = Len(Parent) /\ Len(Symbols) = Len(Parent)
  BY DEF TypeOK, Tables
<1>7. ASSUME NEW i \in 1..last
      PROVE  OpenScopes'[i] = new[i]
  <2>1. OpenScopes'[i] = [swa |-> SwaSymbols'[Chain[i + 1]],
                          llvm |-> Symbols'[Chain[i + 1]]]
    BY <1>2, OpenScopesElementsNext
  <2>2. OpenScopes[i] = [swa |-> SwaSymbols[Chain[i + 1]],
                         llvm |-> Symbols[Chain[i + 1]]]
    BY OpenScopesElements
  <2>3. Chain[i + 1] \in 1..Len(Parent)
    <3>1. i + 1 \in 1..Len(Chain)
      BY <1>1, ChainElements
    <3> QED  BY <3>1, ChainElements DEF Tables
  <2>4. CASE i # last
    <3>1. Chain[i + 1] # currentSymbols
      BY <2>4, CurrentIsLastScope
    <3>2. /\ SwaSymbols'[Chain[i + 1]] = SwaSymbols[Chain[i + 1]]
          /\ Symbols'[Chain[i + 1]] = Symbols[Chain[i + 1]]
      BY <1>6, <2>3, <3>1
    <3>3. new[i] = OpenScopes[i]
      BY <1>1, <2>4
    <3> QED  BY <2>1, <2>2, <3>2, <3>3
  <2>5. CASE i = last
    <3>1. Chain[i + 1] = currentSymbols
      BY <2>5, CurrentIsLastScope
    <3>2. CASE map = "swa"
      <4>1. SwaSymbols'[currentSymbols] = [SwaSymbols[currentSymbols] EXCEPT ![n] = e]
        BY <1>6, <3>2
      <4>2. new[i] = [OpenScopes[i] EXCEPT !.swa[n] = e]
        BY <1>1, <2>5, <3>2
      <4> QED  BY <2>1, <2>2, <3>1, <3>2, <4>1, <4>2
    <3>3. CASE map = "llvm"
      <4>1. Symbols'[currentSymbols] = [Symbols[currentSymbols] EXCEPT ![n] = e]
        BY <1>6, <3>3
      <4>2. new[i] = [OpenScopes[i] EXCEPT !.llvm[n] = e]
        BY <1>1, <2>5, <3>3
      <4> QED  BY <2>1, <2>2, <3>1, <3>3, <4>1, <4>2
    <3> QED  BY <3>2, <3>3
  <2> QED  BY <2>4, <2>5
<1>8. OpenScopes' = new
  <2> HIDE DEF new, last
  <2> QED  BY <1>3, <1>5, <1>7, SeqEqual
<1> QED  BY <1>1, <1>8

LEMMA ScopingDefine ==
  ASSUME IInv, TypeOK', NEW n \in Names, Define(n)
  PROVE  \E e \in Scoping!Entry : Scoping!Declare(n, e)
<1> DEFINE e == [kind |-> "Value", id |-> symbols + 1]
<1>1. TypeOK /\ ScopeChain /\ FunctionsAtRoot
  BY DEF IInv
<1>2. e \in Entry /\ e.kind = "Value"
  <2>1. symbols + 1 \in Ids
    BY <1>1, BoundsAssumption DEF Define, TypeOK, Ids
  <2> QED  BY <2>1 DEF Entry
<1>3. /\ Symbols' = [Symbols EXCEPT ![currentSymbols][n] = e]
      /\ UNCHANGED <<Parent, SwaSymbols, currentSymbols, oldTables, returned>>
      /\ oldTables # <<>>
  BY DEF Define, MayCall
<1> HIDE DEF e
<1>4. OpenScopes' = [OpenScopes EXCEPT ![Len(OpenScopes)].llvm[n] = e]
  BY <1>1, <1>2, <1>3, ScopingDeclare
<1>5. OpenScopes # <<>>
  BY <1>1, <1>3, CurrentIsLastScope, OpenScopesElements
<1>6. UNCHANGED <<SwaSymbols[Root], returned>>
  BY <1>3
<1> QED  BY <1>2, <1>4, <1>5, <1>6, SameDefinitions DEF Scoping!Declare

LEMMA ScopingStore ==
  ASSUME IInv, TypeOK', StoreSymbol
  PROVE  \E n \in Names : \E e \in Scoping!Entry :
           Scoping!Declare(n, e) \/ Scoping!DeclareFunction(n, e)
<1> DEFINE e == call.symbol
           n == call.name
<1>1. TypeOK /\ ScopeChain /\ FunctionsAtRoot /\ WalkSkipsNothing
  BY DEF IInv
<1>2. call \in DefineCall /\ call # NoCall /\ call.op = "defineSwaSymbol"
  BY <1>1, PendingCall DEF StoreSymbol
<1>3. n \in Names /\ e \in Entry /\ e.kind \in {"Variable", "Function"}
  BY <1>2 DEF DefineCall, Entry
<1>4. /\ SwaSymbols' = [SwaSymbols EXCEPT ![call.table][n] = e]
      /\ UNCHANGED <<Parent, Symbols, currentSymbols, oldTables, returned>>
  BY DEF StoreSymbol
<1>5. oldTables # <<>> /\ OpenScopes # <<>>
  BY <1>1, <1>2, CurrentIsLastScope, OpenScopesElements DEF WalkSkipsNothing
<1>6. Root \in 1..Len(SwaSymbols) /\ SwaSymbols \in Seq(Map)
      /\ call.table \in 1..Len(SwaSymbols)
  <2>1. Len(Parent) \in 1..MaxTables /\ Len(SwaSymbols) = Len(Parent)
    BY <1>1 DEF TypeOK
  <2> QED  BY <1>1, <1>2, <2>1, BoundsAssumption, CallTableExists DEF TypeOK, Root
<1>7. CASE e.kind = "Variable"
  <2>1. call.table = currentSymbols
    <3>1. PICK i \in 1..Len(Chain) : call.table = Chain[i] /\ i = Len(Chain)
      BY <1>1, <1>2, <1>7 DEF WalkSkipsNothing
    <3> QED  BY <1>1, <3>1, ChainElements
  <2>2. OpenScopes' = [OpenScopes EXCEPT ![Len(OpenScopes)].swa[n] = e]
    <3> HIDE DEF e, n
    <3> QED  BY <1>1, <1>3, <1>4, <1>5, <2>1, ScopingDeclare
  <2>3. SwaSymbols'[Root] = SwaSymbols[Root]
    BY <1>1, <1>4, <1>5, <1>6, <2>1, CurrentIsNotRoot
  <2> QED
    <3> HIDE DEF e, n
    <3> QED  BY <1>3, <1>4, <1>5, <1>7, <2>2, <2>3, SameDefinitions DEF Scoping!Declare
<1>8. CASE e.kind = "Function"
  <2>1. call.table = Root
    BY <1>1, <1>2, <1>8, CallTableExists DEF StoreSymbol, ScopeChain, Tables
  <2>2. SwaSymbols'[Root] = [SwaSymbols[Root] EXCEPT ![n] = e]
    BY <1>4, <1>6, <2>1
  <2>3. UNCHANGED Chain
    BY <1>4 DEF Chain
  <2>4. ASSUME NEW i \in 1..Len(oldTables)
        PROVE  SwaSymbols'[Chain'[i + 1]] = SwaSymbols[Chain[i + 1]]
    <3>1. /\ i + 1 \in 1..Len(Chain) /\ Chain[1] = Root /\ 1 \in 1..Len(Chain)
          /\ 1 < i + 1
      BY <1>1, ChainElements DEF ScopeChain
    <3>2. Chain[1] < Chain[i + 1] /\ Chain[i + 1] \in 1..Len(SwaSymbols)
      BY <1>1, <3>1, ChainElements DEF ScopeChain, TypeOK, Tables
    <3> QED  BY <1>4, <1>6, <2>1, <2>3, <3>1, <3>2 DEF Root
  <2>5. OpenScopes' = OpenScopes
    <3>1. Len(OpenScopes') = Len(OpenScopes) /\ OpenScopes' \in Seq(ScopeType)
          /\ OpenScopes \in Seq(ScopeType) /\ Len(OpenScopes) = Len(oldTables)
      BY <1>1, <1>4, OpenScopesElements, OpenScopesElementsNext
    <3>2. \A i \in 1..Len(oldTables) : OpenScopes'[i] = OpenScopes[i]
      BY <1>1, <1>4, <2>3, <2>4, OpenScopesElements, OpenScopesElementsNext
    <3> QED  BY <3>1, <3>2, SeqEqual
  <2> QED
    <3> HIDE DEF e, n
    <3> QED  BY <1>3, <1>4, <1>5, <1>8, <2>2, <2>5, SameDefinitions
             DEF Scoping!DeclareFunction
<1> QED  BY <1>3, <1>7, <1>8

(***************************************************************************)
(* The theorem: the walks over the tables implement lexical scoping.       *)
(***************************************************************************)
LEMMA ScopingStep ==
  ASSUME IInv, TypeOK', [Next]_vars
  PROVE  [Scoping!Next]_(Scoping!vars)
<1>0. TypeOK /\ ScopeChain
  BY DEF IInv
<1>1. CASE EnterScope
  BY <1>0, <1>1, ScopingEnter DEF Scoping!Next
<1>2. CASE LeaveScope
  BY <1>0, <1>2, ScopingLeave DEF Scoping!Next
<1>3. ASSUME NEW n \in Names, Define(n)
      PROVE  Scoping!Next
  BY <1>3, ScopingDefine DEF Scoping!Next
<1>4. CASE StoreSymbol
  BY <1>4, ScopingStore DEF Scoping!Next
<1>5. CASE LookupHere \/ LookupFails
  <2>1. call \in LookupCall
    BY <1>0, <1>5, PendingCall DEF LookupHere, LookupFails
  <2>2. call.name \in Names /\ call.op \in LookupOps
    BY <2>1 DEF LookupCall
  <2>3. CASE call.op # "lookup" /\ Scoping!LookupSymbol(call.op, call.name)
    BY <2>2, <2>3 DEF Scoping!Next, LookupOps
  <2>4. CASE Scoping!LookupValue(call.name)
    BY <2>2, <2>4 DEF Scoping!Next
  <2> QED  BY <1>5, <2>3, <2>4, ScopingLookup
<1>6. CASE UNCHANGED <<OpenScopes, SwaSymbols[Root], returned>>
  BY <1>6 DEF Scoping!vars
<1> QED
  <2>1. \/ EnterScope \/ LeaveScope \/ StoreSymbol \/ LookupHere \/ LookupFails
        \/ \E n \in Names : Define(n)
        \/ UNCHANGED <<OpenScopes, SwaSymbols[Root], returned>>
    BY DEF Next, vars, tree, DefineSwaSymbol, Lookup, HoistFunction, LookupParent,
           OpenScopes, Chain
  <2> QED  BY <1>1, <1>2, <1>3, <1>4, <1>5, <1>6, <2>1

(* Whatever the visitors do, the tables answer every lookup as lexical     *)
(* scoping does, with functions global.                                    *)
THEOREM ScopingCorrect == Spec => ImplementsLexicalScope
<1>1. Init => Scoping!Init
  BY ScopingInit
<1>2. IInv /\ TypeOK' /\ [Next]_vars => [Scoping!Next]_(Scoping!vars)
  BY ScopingStep
<1>3. IInv => TypeOK
  BY DEF IInv
<1> QED  BY <1>1, <1>2, <1>3, Invariance, PTL
         DEF Spec, ImplementsLexicalScope, Scoping!Spec
=============================================================================
