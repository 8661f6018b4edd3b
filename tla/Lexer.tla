--------------------------------- MODULE Lexer ---------------------------------
(***************************************************************************)
(* Lexer::tokenize.  The characters are drawn as it reads them: a behaviour *)
(* is one source.  The uninitialised line and column counters of the class  *)
(* reach no token and are left out.                                        *)
(***************************************************************************)
EXTENDS Integers, Sequences, SequencesExt

CONSTANTS
  Characters,    \* the characters of the sources
  Letters,       \* alphabetic, the underscore or a byte above 127
  Lookahead(_),  \* bound: the characters that may follow some others
  keywords       \* the table of the dialect: from words to token types

Blank == " "
Spaces == {Blank, "\t", "\n", "\r", "\f"}
Digits == {"0", "1", "2", "3", "4", "5", "6", "7", "8", "9"}
Quote == "\""
Backslash == "\\"
Nul == "\\0"
OpenCurly == "{"
CloseCurly == "}"
Semicolon == ";"
Comma == ","
End == "END_OF_FILE"   \* what peek finds at the end of the source

(* The operators.  Of | and .. alone the lexer makes no token. *)
OperatorTable == {
  <<<<"!">>, "NOT">>, <<<<"!", "=">>, "NOT_EQUALS">>,
  <<<<"<">>, "LESS_THAN">>, <<<<"<", "=">>, "LESS_THAN_EQUALS">>,
  <<<<">">>, "GREATER_THAN">>, <<<<">", "=">>, "GREATER_THAN_EQUALS">>,
  <<<<"+">>, "PLUS">>, <<<<"+", "=">>, "PLUS_EQUALS">>,
  <<<<"-">>, "MINUS">>, <<<<"-", "=">>, "MINUS_EQUALS">>, <<<<"/">>, "DIVIDE">>,
  <<<<"*">>, "MULTIPLY">>, <<<<"*", "*">>, "DOUBLE_STAR">>, <<<<"*", "=">>, "STAR_EQUALS">>,
  <<<<"=">>, "EQUALS">>, <<<<"&">>, "AMPERSAND">>, <<<<"&", "&">>, "AND">>,
  <<<<"|", "|">>, "OR">>, <<<<".">>, "DOT">>, <<<<".", ".", ".">>, "VARIADIC">>,
  <<<<"(">>, "OPEN_PAREN">>, <<<<")">>, "CLOSE_PAREN">>, <<<<OpenCurly>>, "OPEN_CURLY">>,
  <<<<CloseCurly>>, "CLOSE_CURLY">>, <<<<"[">>, "OPEN_BRACKET">>, <<<<"]">>, "CLOSE_BRACKET">>,
  <<<<":">>, "COLON">>, <<<<":", "=">>, "ASSIGNMENT">>, <<<<Semicolon>>, "SEMICOLON">>,
  <<<<Comma>>, "COMMA">>}
Operators == {entry[1] : entry \in OperatorTable}
OperatorType == [o \in Operators |-> (CHOOSE entry \in OperatorTable : entry[1] = o)[2]]
Dropped == {<<"|">>, <<".", ".">>}

ASSUME CharactersAssumption ==
  /\ End \notin Characters
  /\ Letters \subseteq Characters
  /\ Letters \cap (Spaces \cup Digits \cup {Quote, Backslash}) = {}
  /\ \A o \in Operators : o[1] \notin Letters /\ OperatorType[o] # End
  /\ \A word \in DOMAIN keywords :
       word \in Seq(Letters \cup Digits) /\ keywords[word] # "END_OF_FILE"

VARIABLES
  read,     \* the characters behind pos
  ahead,    \* peek
  mode,     \* the part of the loop at work
  begin,    \* startPosition
  literal,  \* the string so far
  tokens

vars == <<read, ahead, mode, begin, literal, tokens>>

pos == Len(read)
Text == SubSeq(read, begin + 1, pos)
Token(type, value, from, to) == [type |-> type, value |-> value, from |-> from, to |-> to]

Follow(characters) == (Characters \cup {End}) \cap Lookahead(characters)
get(characters) ==
  /\ ahead \in characters
  /\ read' = Append(read, ahead)
  /\ ahead' \in Follow(read')
peek == UNCHANGED <<read, ahead>>
Push(type, value, to) == tokens' = Append(tokens, Token(type, value, begin, to))

Init ==
  /\ read = <<>> /\ ahead \in Follow(<<>>)
  /\ mode = "start"
  /\ begin = 0 /\ literal = <<>>
  /\ tokens = <<>>

SkipSpace ==
  /\ mode = "start"
  /\ get(Spaces)
  /\ UNCHANGED <<mode, begin, literal, tokens>>

(* Mutant: the position of a token is read behind its first character. *)
BeginsLate(kind, characters) ==
  /\ mode = "start"
  /\ get(characters)
  /\ mode' = kind
  /\ begin' = pos + 1
  /\ literal' = <<>>
  /\ UNCHANGED tokens

(* A token begins with a quote, a digit, a letter or anything else.        *)
Begins(kind, characters) ==
  /\ mode = "start"
  /\ get(characters)
  /\ mode' = kind
  /\ begin' = pos
  /\ literal' = <<>>
  /\ UNCHANGED tokens

OpenString == Begins("string", {Quote})
BeginNumber == Begins("number", Digits)
BeginWord == Begins("word", Letters)
BeginOperator == Begins("operator", Characters \ (Spaces \cup {Quote} \cup Digits \cup Letters))

(***************************************************************************)
(* Strings.  An escape may begin at the end of the source.                 *)
(***************************************************************************)
ReadCharacter ==
  /\ mode = "string"
  /\ get(Characters \ {Quote, Backslash})
  /\ literal' = Append(literal, ahead)
  /\ UNCHANGED <<mode, begin, tokens>>

OpenEscape ==
  /\ mode = "string"
  /\ get({Backslash})
  /\ mode' = "escape"
  /\ UNCHANGED <<begin, literal, tokens>>

Unescaped(c) == CASE c = "n" -> "\n" [] c = "t" -> "\t" [] c = End -> Nul [] OTHER -> c

ReadEscaped ==
  /\ mode = "escape"
  /\ get(Characters) \/ (ahead = End /\ peek)
  /\ literal' = Append(literal, Unescaped(ahead))
  /\ mode' = "string"
  /\ UNCHANGED <<begin, tokens>>

(* Mutant: the rest of a string that is not closed is looked at again. *)
EndStringAgain ==
  /\ mode = "string"
  /\ \/ get({Quote}) /\ Push("STRING", literal, pos + 1) /\ mode' = "start"
     \/ ahead = End /\ peek /\ UNCHANGED <<tokens, mode>>
  /\ literal' = <<>>
  /\ UNCHANGED begin

EndString ==
  /\ mode = "string"
  /\ \/ get({Quote}) /\ Push("STRING", literal, pos + 1)
     \/ ahead = End /\ peek /\ Push("UNKNOWN", literal, pos)
  /\ mode' = "start"
  /\ literal' = <<>>
  /\ UNCHANGED begin

(***************************************************************************)
(* Numbers, with one dot at most, and words.                               *)
(***************************************************************************)
ReadNumber ==
  /\ mode \in {"number", "float"}
  /\ get(Digits \cup IF mode = "number" THEN {"."} ELSE {})
  /\ mode' = IF ahead = "." THEN "float" ELSE mode
  /\ UNCHANGED <<begin, literal, tokens>>

EndNumber ==
  /\ \/ mode = "number" /\ ahead \notin Digits \cup {"."} /\ Push("NUMBER", Text, pos)
     \/ mode = "float" /\ ahead \notin Digits /\ Push("NUMBER_FLOAT", Text, pos)
  /\ mode' = "start"
  /\ peek
  /\ UNCHANGED <<begin, literal>>

ReadWord ==
  /\ mode = "word"
  /\ get(Letters \cup Digits)
  /\ UNCHANGED <<mode, begin, literal, tokens>>

(* Mutant: a word is a keyword as soon as it reads like one. *)
EndWordEarly ==
  /\ mode = "word"
  /\ ahead \notin Letters \cup Digits \/ Text \in DOMAIN keywords
  /\ Push(IF Text \in DOMAIN keywords THEN keywords[Text] ELSE "IDENTIFIER", Text, pos)
  /\ mode' = "start"
  /\ peek
  /\ UNCHANGED <<begin, literal>>

EndWord ==
  /\ mode = "word"
  /\ ahead \notin Letters \cup Digits
  /\ Push(IF Text \in DOMAIN keywords THEN keywords[Text] ELSE "IDENTIFIER", Text, pos)
  /\ mode' = "start"
  /\ peek
  /\ UNCHANGED <<begin, literal>>

(***************************************************************************)
(* Operators.                                                              *)
(***************************************************************************)
Continues(text) == \E o \in Operators : IsPrefix(text, o)

ReadOperator ==
  /\ mode = "operator"
  /\ get({c \in Characters : Continues(Append(Text, c))})
  /\ UNCHANGED <<mode, begin, literal, tokens>>

EndOperator ==
  /\ mode = "operator"
  /\ ~Continues(Append(Text, ahead))
  /\ IF Text \in Dropped THEN UNCHANGED tokens
     ELSE Push(IF Text \in Operators THEN OperatorType[Text] ELSE "UNKNOWN", Text, pos)
  /\ mode' = "start"
  /\ peek
  /\ UNCHANGED <<begin, literal>>

Finish ==
  /\ mode = "start" /\ ahead = End
  /\ tokens' = Append(tokens, Token("END_OF_FILE", <<>>, pos, pos))
  /\ mode' = "done"
  /\ peek
  /\ UNCHANGED <<begin, literal>>

Next ==
  \/ SkipSpace
  \/ OpenString \/ ReadCharacter \/ OpenEscape \/ ReadEscaped \/ EndString
  \/ BeginNumber \/ ReadNumber \/ EndNumber
  \/ BeginWord \/ ReadWord \/ EndWord
  \/ BeginOperator \/ ReadOperator \/ EndOperator
  \/ Finish

Spec == Init /\ [][Next]_vars

(* One thread scans: it takes its next step. *)
FairSpec == Spec /\ WF_vars(Next)

Types ==
  {"STRING", "UNKNOWN", "NUMBER", "NUMBER_FLOAT", "IDENTIFIER", "END_OF_FILE"}
    \cup {keywords[word] : word \in DOMAIN keywords}
    \cup {OperatorType[o] : o \in Operators}
Values == Seq(Characters \cup {"\n", "\t", Nul})

(* The variables have their types, and the tokens are disjoint pieces of   *)
(* the source in its order, none of them empty but the end of file.        *)
TypeOK ==
  /\ read \in Seq(Characters)
  /\ ahead \in Characters \cup {End}
  /\ mode \in {"start", "string", "escape", "number", "float", "word", "operator", "done"}
  /\ begin \in 0..pos
  /\ mode \notin {"start", "done"} => begin < pos
  /\ literal \in Values
  /\ tokens \in Seq([type : Types, value : Values, from : Nat, to : Nat])
  /\ \A k \in DOMAIN tokens :
       /\ (tokens[k].from = tokens[k].to) = (tokens[k].type = "END_OF_FILE")
       /\ tokens[k].from <= tokens[k].to
       /\ tokens[k].to <= IF mode \in {"start", "done"} THEN pos ELSE begin
       /\ k > 1 => tokens[k - 1].to <= tokens[k].from
  /\ (mode = "done") = (tokens # <<>> /\ tokens[Len(tokens)].type = "END_OF_FILE")

(* Whatever the source, the scan ends: every turn of a loop reads.         *)
ScanEnds == <>(mode = "done")
===============================================================================
