------------------------------ MODULE Diagnostics ------------------------------
(***************************************************************************)
(* Where a diagnostic says a span of the source is: class SourceManager    *)
(* and ParserException::emitDiagnostic.  Offsets count from 0, lines and   *)
(* columns from 1.                                                         *)
(***************************************************************************)
EXTENDS Integers, Sequences, FiniteSets, SequencesExt

Newline == "\n"

(* Mutant: a line begins at the newline before it. *)
LineOffsetsAtNewlines(source) ==
  <<0>> \o FlattenSeq([i \in DOMAIN source |->
                         IF source[i] = Newline THEN <<i - 1>> ELSE <<>>])

LineOffsets(source) ==
  <<0>> \o FlattenSeq([i \in DOMAIN source |->
                         IF source[i] = Newline THEN <<i>> ELSE <<>>])

(* upper_bound finds the first line that begins after the offset. *)
GetLineCol(source, offset) ==
  LET offsets == LineOffsets(source)
      line == Cardinality({k \in DOMAIN offsets : offsets[k] <= offset})
  IN  [line |-> line, col |-> offset - offsets[line] + 1]

GetLineSnippet(source, line) ==
  LET offsets == LineOffsets(source)
      end == IF line < Len(offsets) THEN offsets[line + 1] - 1 ELSE Len(source)
  IN  IF line \notin DOMAIN offsets THEN <<>> ELSE SubSeq(source, offsets[line] + 1, end)

(* The columns of the first line that emitDiagnostic draws a caret under.  *)
Carets(source, from, to) ==
  GetLineCol(source, from).col .. GetLineCol(source, to).col
===============================================================================
