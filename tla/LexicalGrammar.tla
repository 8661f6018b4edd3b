---------------------------- MODULE LexicalGrammar ----------------------------
(***************************************************************************)
(* What the tokens of a source are, without a scanner: from each position  *)
(* the longest piece that is a lexeme.                                     *)
(***************************************************************************)
EXTENDS Lexer, Diagnostics

(* A character of a string is hidden by an odd number of backslashes.      *)
Hidden(w, i, k) ==
  \E first \in (i + 1)..k :
    /\ \A b \in first..(k - 1) : w[b] = Backslash
    /\ first = i + 1 \/ w[first - 1] # Backslash
    /\ (k - first) % 2 = 1
Quotes(w, i) == {k \in (i + 1)..Len(w) : w[k] = Quote /\ ~Hidden(w, i, k)}

(* The kinds of lexemes: the text of w from i to j is one.                 *)
IsClosedString(w, i, j) == w[i] = Quote /\ Quotes(w, i) \cap (i + 1)..j = {j}
IsOpenString(w, i, j) == w[i] = Quote /\ Quotes(w, i) = {} /\ j = Len(w)
IsNumber(w, i, j) ==
  /\ w[i] \in Digits
  /\ \A k \in i..j : w[k] \in Digits \cup {"."}
  /\ \A k, m \in i..j : w[k] = "." /\ w[m] = "." => k = m
IsWord(w, i, j) == w[i] \in Letters /\ \A k \in i..j : w[k] \in Letters \cup Digits
IsOperator(w, i, j) == SubSeq(w, i, j) \in Operators \cup Dropped
IsOther(w, i, j) ==
  /\ i = j /\ w[i] \notin Spaces \cup {Quote} \cup Digits \cup Letters
  /\ ~IsOperator(w, i, j)
IsLexeme(w, i, j) ==
  \/ IsClosedString(w, i, j) \/ IsOpenString(w, i, j)
  \/ IsNumber(w, i, j) \/ IsWord(w, i, j) \/ IsOperator(w, i, j) \/ IsOther(w, i, j)

(* The characters a string stands for.                                     *)
Character(w, i, k) ==
  IF Hidden(w, i, k) THEN <<Unescaped(w[k])>>
  ELSE IF w[k] = Backslash THEN <<>> ELSE <<w[k]>>
Value(w, i, j) ==
  FlattenSeq([k \in 1..(j - i) |-> Character(w, i, i + k)])
    \o IF j = Len(w) /\ Hidden(w, i, j + 1) THEN <<Nul>> ELSE <<>>

(* What the scanner makes of a lexeme.                                     *)
Lexeme(w, i, j) ==
  LET text == SubSeq(w, i, j)
      Of(type, value) == <<Token(type, value, i - 1, j)>>
  IN  CASE IsClosedString(w, i, j) -> Of("STRING", Value(w, i, j - 1))
        [] IsOpenString(w, i, j) -> Of("UNKNOWN", Value(w, i, j))
        [] IsNumber(w, i, j) -> Of(IF \E k \in i..j : w[k] = "." THEN "NUMBER_FLOAT"
                                   ELSE "NUMBER", text)
        [] IsWord(w, i, j) -> Of(IF text \in DOMAIN keywords THEN keywords[text]
                                 ELSE "IDENTIFIER", text)
        [] IsOperator(w, i, j) -> IF text \in Dropped THEN <<>> ELSE Of(OperatorType[text], text)
        [] IsOther(w, i, j) -> Of("UNKNOWN", text)

(* The tokens of w: at each position the longest lexeme, if there is one.  *)
Lexemes(w, i) == {j \in i..Len(w) : IsLexeme(w, i, j)}
TokensOf(w) ==
  LET from[i \in 1..(Len(w) + 1)] ==
        IF i > Len(w) THEN <<Token("END_OF_FILE", <<>>, Len(w), Len(w))>>
        ELSE IF Lexemes(w, i) = {} THEN from[i + 1]
        ELSE Lexeme(w, i, Max(Lexemes(w, i))) \o from[Max(Lexemes(w, i)) + 1]
  IN  from[1]

(* The scanner, which never looks further than one character ahead, finds  *)
(* the longest lexeme everywhere: no keyword inside a word, no operator    *)
(* cut in two, no string that ends at a hidden quote; nothing is lost but  *)
(* the spaces and the two texts it drops.                                  *)
TokensAsWritten == mode = "done" => tokens = TokensOf(read)

(* A diagnostic about a token names its line and its column: the line is   *)
(* that of the newlines before it, and the column is where the snippet     *)
(* shows its first character, or its end for the end of file.  For a token *)
(* on one line the carets are under all its characters and nothing before  *)
(* them.  "Underneath the exact bytes", as the comment in the code says    *)
(* (exception.cpp:20), they are not: the loop draws one more (26), which   *)
(* is not asked for here but admitted.                                     *)
DiagnosticsPointAtTokens ==
  mode = "done" =>
    \A k \in DOMAIN tokens :
      LET t == tokens[k]
          at == GetLineCol(read, t.from)
          snippet == GetLineSnippet(read, at.line)
      IN  /\ at.line = 1 + Cardinality({i \in 1..t.from : read[i] = Newline})
          /\ IF t.type = "END_OF_FILE" THEN at.col = Len(snippet) + 1
             ELSE at.col \in DOMAIN snippet /\ snippet[at.col] = read[t.from + 1]
          /\ ~Contains(snippet, Newline)
          /\ (\A i \in (t.from + 1)..t.to : read[i] # Newline) =>
               LET under == at.col..(at.col + t.to - t.from - 1)
                   carets == Carets(read, t.from, t.to)
               IN  under \subseteq carets /\ carets \subseteq under \cup {at.col + t.to - t.from}
===============================================================================
