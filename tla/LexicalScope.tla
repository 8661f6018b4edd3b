--------------------------- MODULE LexicalScope ---------------------------
(***************************************************************************)
(* What the symbol tables of swa-lang promise to the visitors that use     *)
(* them, without tables, parent pointers or walks: a stack of open scopes, *)
(* one global map of functions, and lookups that answer with the innermost *)
(* declaration of a name.  Module SymbolTable implements it.               *)
(***************************************************************************)
EXTENDS Naturals, Sequences

CONSTANTS
  Names,                  \* the identifiers of the source program
  Ids                     \* the identities of its declarations

VARIABLES
  scopes,                 \* the open scopes, innermost last
  functions,              \* the functions of the program, by name
  answer                  \* what the last lookup returned or threw

vars == <<scopes, functions, answer>>

(***************************************************************************)
(* An entry stands for one declaration: id tells two declarations of one   *)
(* name apart.  Absent is what a map without the key holds.                *)
(***************************************************************************)
Absent  == [kind |-> "Absent", id |-> 0]
Entry   == [kind : {"Variable", "Function", "Value"}, id : Ids]
NoEntries == [n \in Names |-> Absent]

(* A scope keeps the checker's symbols apart from the generator's values. *)
EmptyScope == [swa |-> NoEntries, llvm |-> NoEntries]

Init ==
  /\ scopes = <<>>
  /\ functions = NoEntries
  /\ answer = [op |-> "none"]

OpenScope ==
  /\ scopes' = Append(scopes, EmptyScope)
  /\ UNCHANGED <<functions, answer>>

CloseScope ==
  /\ scopes # <<>>
  /\ scopes' = SubSeq(scopes, 1, Len(scopes) - 1)
  /\ UNCHANGED <<functions, answer>>

(* A declaration goes to the innermost scope, over one of the same name. *)
Declare(n, e) ==
  /\ scopes # <<>>
  /\ \/ /\ e.kind = "Variable"
        /\ scopes' = [scopes EXCEPT ![Len(scopes)].swa[n] = e]
     \/ /\ e.kind = "Value"
        /\ scopes' = [scopes EXCEPT ![Len(scopes)].llvm[n] = e]
  /\ UNCHANGED <<functions, answer>>

(* A function is global wherever the program declares it. *)
DeclareFunction(n, e) ==
  /\ scopes # <<>>
  /\ e.kind = "Function"
  /\ functions' = [functions EXCEPT ![n] = e]
  /\ UNCHANGED <<scopes, answer>>

(***************************************************************************)
(* e is the innermost declaration of n: it is in a scope and no scope      *)
(* inside that one declares n, or no scope does and it is what the global  *)
(* map g holds.                                                            *)
(***************************************************************************)
Innermost(n, map, g, e) ==
  \/ \E i \in 1..Len(scopes) :
       /\ scopes[i][map][n] # Absent
       /\ e = scopes[i][map][n]
       /\ \A j \in (i + 1)..Len(scopes) : scopes[j][map][n] = Absent
  \/ /\ \A i \in 1..Len(scopes) : scopes[i][map][n] = Absent
     /\ e = g[n]

Outcome(op, e) ==
  IF e = Absent THEN "missing"
  ELSE IF op = "lookupSwaFunc" /\ e.kind # "Function" THEN "not a function"
  ELSE "found"

Answer(op, n, e) ==
  [op |-> op, name |-> n, outcome |-> Outcome(op, e), entry |-> e]

LookupSymbol(op, n) ==
  /\ scopes # <<>>
  /\ \E e \in Entry \cup {Absent} :
       /\ Innermost(n, "swa", functions, e)
       /\ answer' = Answer(op, n, e)
  /\ UNCHANGED <<scopes, functions>>

LookupValue(n) ==
  /\ scopes # <<>>
  /\ \E e \in Entry \cup {Absent} :
       /\ Innermost(n, "llvm", NoEntries, e)
       /\ answer' = Answer("lookup", n, e)
  /\ UNCHANGED <<scopes, functions>>

Next ==
  \/ OpenScope
  \/ CloseScope
  \/ \E n \in Names :
       \/ \E e \in Entry : Declare(n, e) \/ DeclareFunction(n, e)
       \/ \E op \in {"lookupSwaSymbol", "lookupSwaFunc"} : LookupSymbol(op, n)
       \/ LookupValue(n)

Spec == Init /\ [][Next]_vars
=============================================================================
