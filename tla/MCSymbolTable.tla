--------------------------- MODULE MCSymbolTable ---------------------------
(* Two names, so that one can shadow or miss the other, and tables enough  *)
(* for two nested blocks beside one that has been left.                    *)
EXTENDS SymbolTable

CONSTANTS NameX, NameF

MCNames == {NameX, NameF}
=============================================================================
