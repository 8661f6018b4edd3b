---------------------------- MODULE SymbolTable ----------------------------
(***************************************************************************)
(* The tree of symbol tables of one compilation and the calls the three    *)
(* visitors make on it (include/ast/symboltable.h, src/ast/symboltable.cpp,*)
(* and the BlockExpr, FuncExpr and DeclarationExpr visits).  A lookup or a *)
(* definition that calls itself on Parent is a walk: each frame of that    *)
(* recursion is a step of its own.  The compiler has one thread, so no     *)
(* other action happens while a call is walking.                           *)
(***************************************************************************)
EXTENDS Naturals, Sequences

CONSTANTS
  Names,          \* the identifiers of the source program
  MaxTables,      \* bound: tables created in one compilation
  MaxSymbols      \* bound: declarations visited in one compilation

ASSUME BoundsAssumption == MaxTables \in Nat \ {0} /\ MaxSymbols \in Nat

VARIABLES
  Parent,         \* Parent[t] is the parent of table t; 0 is nullptr
  SwaSymbols,     \* SwaSymbols[t][n]: the checker's symbols of table t
  Symbols,        \* Symbols[t][n]: the generator's values of table t
  currentSymbols, \* the driver's current table
  oldTables,      \* the oldTable locals of the visits in progress
  symbols,        \* how many symbols have been made
  call,           \* the table call in progress
  returned        \* what the last lookup returned or threw

vars == <<Parent, SwaSymbols, Symbols, currentSymbols, oldTables, symbols,
          call, returned>>
tree == <<Parent, SwaSymbols, Symbols, currentSymbols, oldTables, symbols>>

(***************************************************************************)
(* Tables, symbols and calls.                                              *)
(***************************************************************************)
Root == 1
Tables == 1..Len(Parent)
Ids == 1..MaxSymbols

Absent == [kind |-> "Absent", id |-> 0]
Entry == [kind : {"Variable", "Function", "Value"}, id : Ids]
NoEntries == [n \in Names |-> Absent]
Map == [Names -> Entry \cup {Absent}]

LookupOps == {"lookupSwaSymbol", "lookupSwaFunc", "lookup"}
NoCall == [op |-> "none"]
LookupCall == [op : LookupOps, name : Names, table : 1..MaxTables]
DefineCall == [op : {"defineSwaSymbol"}, name : Names, table : 1..MaxTables,
               symbol : [kind : {"Variable", "Function"}, id : Ids]]
NoAnswer == [op |-> "none"]
LookupAnswer == [op : LookupOps, name : Names,
                 outcome : {"found", "missing", "not a function"},
                 entry : Entry \cup {Absent}]

(* Mutant: lookupSwaFunc goes on past a symbol that is not a function. *)
HeldOfKind(op, t, n) ==
  IF op = "lookup" THEN Symbols[t][n]
  ELSE IF op = "lookupSwaFunc" /\ SwaSymbols[t][n].kind # "Function" THEN Absent
  ELSE SwaSymbols[t][n]

(* The map a lookup searches. *)
Held(op, t, n) == IF op = "lookup" THEN Symbols[t][n] ELSE SwaSymbols[t][n]

(* A lookup that meets a symbol of the wrong kind, or none, throws. *)
Outcome(op, e) ==
  IF e = Absent THEN "missing"
  ELSE IF op = "lookupSwaFunc" /\ e.kind # "Function" THEN "not a function"
  ELSE "found"

Answer(op, n, e) ==
  [op |-> op, name |-> n, outcome |-> Outcome(op, e), entry |-> e]

Init ==
  /\ Parent = <<0>>
  /\ SwaSymbols = <<NoEntries>>
  /\ Symbols = <<NoEntries>>
  /\ currentSymbols = Root
  /\ oldTables = <<>>
  /\ symbols = 0
  /\ call = NoCall
  /\ returned = NoAnswer

(***************************************************************************)
(* A visit of a block, of a test or of a function body saves the current   *)
(* table in a local, works in a child of it and restores it at the end.    *)
(***************************************************************************)
(* Mutant: every table is a child of the root. *)
CreateChildOfRoot(t) ==
  /\ Parent' = Append(Parent, Root)
  /\ SwaSymbols' = Append(SwaSymbols, NoEntries)
  /\ Symbols' = Append(Symbols, NoEntries)

(* Mutant: the new table is its own parent. *)
CreateChildOfItself(t) ==
  /\ Parent' = Append(Parent, Len(Parent) + 1)
  /\ SwaSymbols' = Append(SwaSymbols, NoEntries)
  /\ Symbols' = Append(Symbols, NoEntries)

CreateChild(t) ==
  /\ Parent' = Append(Parent, t)
  /\ SwaSymbols' = Append(SwaSymbols, NoEntries)
  /\ Symbols' = Append(Symbols, NoEntries)

EnterScope ==
  /\ call = NoCall
  /\ Len(Parent) < MaxTables
  /\ CreateChild(currentSymbols)
  /\ oldTables' = Append(oldTables, currentSymbols)
  /\ currentSymbols' = Len(Parent) + 1
  /\ UNCHANGED <<symbols, call, returned>>

(* Mutant: the table restored is that of the outermost visit. *)
LeaveScopeToOutermost ==
  /\ call = NoCall
  /\ oldTables # <<>>
  /\ currentSymbols' = oldTables[1]
  /\ oldTables' = SubSeq(oldTables, 1, Len(oldTables) - 1)
  /\ UNCHANGED <<Parent, SwaSymbols, Symbols, symbols, call, returned>>

LeaveScope ==
  /\ call = NoCall
  /\ oldTables # <<>>
  /\ currentSymbols' = oldTables[Len(oldTables)]
  /\ oldTables' = SubSeq(oldTables, 1, Len(oldTables) - 1)
  /\ UNCHANGED <<Parent, SwaSymbols, Symbols, symbols, call, returned>>

(***************************************************************************)
(* Definitions.  Programs are blocks, so every declaration is visited with *)
(* some block open.                                                        *)
(***************************************************************************)
MayCall == call = NoCall /\ oldTables # <<>>

(* defineSwaSymbol is called on the current table. *)
DefineSwaSymbol(n, kind) ==
  /\ MayCall
  /\ symbols < MaxSymbols
  /\ symbols' = symbols + 1
  /\ call' = [op |-> "defineSwaSymbol", name |-> n, table |-> currentSymbols,
              symbol |-> [kind |-> kind, id |-> symbols + 1]]
  /\ UNCHANGED <<Parent, SwaSymbols, Symbols, currentSymbols, oldTables,
                 returned>>

(* A function climbs to the table without a parent ... *)
HoistFunction ==
  /\ call.op = "defineSwaSymbol"
  /\ call.symbol.kind = "Function"
  /\ Parent[call.table] # 0
  /\ call' = [call EXCEPT !.table = Parent[call.table]]
  /\ UNCHANGED <<tree, returned>>

(* ... and there, like a variable in its own table, replaces what the map  *)
(* holds under its name.                                                   *)
(* Mutant: a function is stored where it is declared as well. *)
StoreAnywhere ==
  /\ call.op = "defineSwaSymbol"
  /\ SwaSymbols' = [SwaSymbols EXCEPT ![call.table][call.name] = call.symbol]
  /\ call' = NoCall
  /\ UNCHANGED <<Parent, Symbols, currentSymbols, oldTables, symbols, returned>>

StoreSymbol ==
  /\ call.op = "defineSwaSymbol"
  /\ call.symbol.kind = "Function" => Parent[call.table] = 0
  /\ SwaSymbols' = [SwaSymbols EXCEPT ![call.table][call.name] = call.symbol]
  /\ call' = NoCall
  /\ UNCHANGED <<Parent, Symbols, currentSymbols, oldTables, symbols, returned>>

(* The generator's define stores into the current table, without a walk. *)
Define(n) ==
  /\ MayCall
  /\ symbols < MaxSymbols
  /\ symbols' = symbols + 1
  /\ Symbols' = [Symbols EXCEPT
       ![currentSymbols][n] = [kind |-> "Value", id |-> symbols + 1]]
  /\ UNCHANGED <<Parent, SwaSymbols, currentSymbols, oldTables, call, returned>>

(***************************************************************************)
(* Lookups.                                                                *)
(***************************************************************************)
Lookup(op, n) ==
  /\ MayCall
  /\ call' = [op |-> op, name |-> n, table |-> currentSymbols]
  /\ UNCHANGED <<tree, returned>>

Return(e) ==
  /\ returned' = Answer(call.op, call.name, e)
  /\ call' = NoCall
  /\ UNCHANGED tree

LookupHere ==
  /\ call.op \in LookupOps
  /\ Held(call.op, call.table, call.name) # Absent
  /\ Return(Held(call.op, call.table, call.name))

(* Mutant: the lookup does not ask whether there is a parent. *)
LookupAnyParent ==
  /\ call.op \in LookupOps
  /\ Held(call.op, call.table, call.name) = Absent
  /\ call' = [call EXCEPT !.table = Parent[call.table]]
  /\ UNCHANGED <<tree, returned>>

LookupParent ==
  /\ call.op \in LookupOps
  /\ Held(call.op, call.table, call.name) = Absent
  /\ Parent[call.table] # 0
  /\ call' = [call EXCEPT !.table = Parent[call.table]]
  /\ UNCHANGED <<tree, returned>>

LookupFails ==
  /\ call.op \in LookupOps
  /\ Held(call.op, call.table, call.name) = Absent
  /\ Parent[call.table] = 0
  /\ Return(Absent)

Walk == HoistFunction \/ StoreSymbol \/ LookupHere \/ LookupParent \/ LookupFails

Next ==
  \/ EnterScope
  \/ LeaveScope
  \/ \E n \in Names :
       \/ \E kind \in {"Variable", "Function"} : DefineSwaSymbol(n, kind)
       \/ Define(n)
       \/ \E op \in LookupOps : Lookup(op, n)
  \/ HoistFunction
  \/ StoreSymbol
  \/ LookupHere
  \/ LookupParent
  \/ LookupFails

Spec == Init /\ [][Next]_vars

(* A C++ call that has been made runs to its end. *)
FairSpec == Spec /\ WF_vars(Walk)

(***************************************************************************)
(* Properties.                                                             *)
(***************************************************************************)
(* The shape of the tree and of a call: the three maps have one element    *)
(* for each table, and every table a call or a visit names exists.         *)
TypeOK ==
  /\ Parent \in Seq(0..MaxTables)
  /\ Len(Parent) \in 1..MaxTables
  /\ SwaSymbols \in Seq(Map) /\ Len(SwaSymbols) = Len(Parent)
  /\ Symbols \in Seq(Map) /\ Len(Symbols) = Len(Parent)
  /\ currentSymbols \in Tables
  /\ oldTables \in Seq(Tables)
  /\ symbols \in 0..MaxSymbols
  /\ call \in {NoCall} \cup LookupCall \cup DefineCall
  /\ returned \in {NoAnswer} \cup LookupAnswer

(* The tables a walk from the current one visits, outermost first. *)
Chain == Append(oldTables, currentSymbols)

(* The saved tables are the ancestors of the current one: whatever the     *)
(* visits did before, a walk over Parent from the current table passes the *)
(* table of every visit in progress, each once and a younger one first,    *)
(* and ends in the root, which is current again when the outermost visit   *)
(* has returned.                                                           *)
ScopeChain ==
  /\ Chain[1] = Root
  /\ Parent[Root] = 0
  /\ \A i \in 1..Len(oldTables) : Parent[Chain[i + 1]] = Chain[i]
  /\ \A i, j \in 1..Len(Chain) : i < j => Chain[i] < Chain[j]
  /\ \A t \in Tables \ {Root} : Parent[t] \in 1..(t - 1)

(* The root holds functions and nothing else, and no other table holds a   *)
(* function: hoisting one out of an inner block can replace a function but *)
(* never a variable.                                                       *)
FunctionsAtRoot ==
  \A n \in Names :
    /\ SwaSymbols[Root][n].kind \in {"Absent", "Function"}
    /\ Symbols[Root][n] = Absent
    /\ \A t \in Tables \ {Root} : SwaSymbols[t][n].kind # "Function"

(* A walk never passes over a table that holds the name it looks for: it   *)
(* stands on a table of the chain and the inner ones lack the name.  The   *)
(* definition of a variable does not walk at all.                          *)
WalkSkipsNothing ==
  call # NoCall =>
    /\ oldTables # <<>>
    /\ \E i \in 1..Len(Chain) :
         /\ call.table = Chain[i]
         /\ call.op \in LookupOps =>
              \A j \in (i + 1)..Len(Chain) :
                Held(call.op, Chain[j], call.name) = Absent
         /\ call.op = "defineSwaSymbol" /\ call.symbol.kind = "Variable" =>
              i = Len(Chain)

(* Every table call returns: a walk over Parent cannot go on for ever. *)
CallsReturn == call # NoCall ~> call = NoCall

(***************************************************************************)
(* The tables implement lexical scoping: the open scopes are the tables of *)
(* the chain below the root, and the tables of blocks already left are     *)
(* never seen again.                                                       *)
(***************************************************************************)
OpenScopes ==
  [i \in 1..Len(oldTables) |->
     [swa |-> SwaSymbols[Chain[i + 1]], llvm |-> Symbols[Chain[i + 1]]]]

Scoping == INSTANCE LexicalScope WITH
  scopes <- OpenScopes, functions <- SwaSymbols[Root], answer <- returned

ImplementsLexicalScope == Scoping!Spec
=============================================================================
