-------------------------------- MODULE MCLexer --------------------------------
(* Sources for TLC. *)
EXTENDS LexicalGrammar

CONSTANTS MaxEdits, MaxShort

Sources == INSTANCE TokenSources WITH Alphabet <- Characters
NearSeeds(characters) == Sources!Following(characters)

LetterCharacters == {"i", "f", "n"}
SourceCharacters ==
  LetterCharacters \cup {"1", ".", "=", "*", "|", ":", "#", "\"", "\\", " ", "\n"}
Words == [word \in {<<"i", "f">>} |-> "IF"]

(* if "\"n" 1.1 *= fi1 | in ... over two lines *)
Lines ==
  <<"i", "f", " ", "\"", "\\", "\"", "n", "\"", "1", ".", "1", "*", "=", "\n",
    "f", "i", "1", "|", "i", "n", ".", ".", ".">>

(* Shorter sources: strings with escapes, numbers and words, operators.    *)
Pieces ==
  {<<"\"", "n", "\\", "\\", "\"", "\n">>,
   <<"1", ".", "1", ".", "i", "f">>,
   <<".", ".", ".", "|", ":", "=">>}
SeedLines == [s \in {Lines} \cup Pieces |-> IF s = Lines THEN 1 ELSE 2]
===============================================================================
