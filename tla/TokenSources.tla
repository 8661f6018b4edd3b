------------------------------ MODULE TokenSources ------------------------------
(***************************************************************************)
(* Which sources a run reads: every source of few tokens, the seeds, and   *)
(* the sources that differ from a seed by few tokens replaced, inserted or *)
(* left out.  All of them may end early.                                   *)
(***************************************************************************)
EXTENDS Integers, Sequences, FiniteSetsExt, SequencesExt

CONSTANTS
  Alphabet,   \* the token types
  MaxEdits,   \* bound: for each seed, how many edits it may undergo
  MaxShort    \* bound: tokens of a source that resembles no seed

Seeds == DOMAIN MaxEdits

(* How much of a seed some tokens account for, and the edits that are left. *)
Place(seed, at, edits) == [seed |-> seed, at |-> at, edits |-> edits]
Possible(p) == p.at <= Len(p.seed) /\ p.edits >= 0
Skipped(p) ==
  {q \in {Place(p.seed, p.at + n, p.edits - n) : n \in 0..p.edits} : Possible(q)}
Read(p, t) ==
  LET matches == p.at < Len(p.seed) /\ p.seed[p.at + 1] = t
      places == {Place(p.seed, p.at + 1, p.edits - IF matches THEN 0 ELSE 1),
                 Place(p.seed, p.at, p.edits - 1)}
  IN  UNION {Skipped(q) : q \in {r \in places : Possible(r)}}

Following(read) ==
  LET places == FoldLeft(LAMBDA ps, t : UNION {Read(p, t) : p \in ps},
                         UNION {Skipped(Place(s, 0, MaxEdits[s])) : s \in Seeds}, read) IN
  {"END_OF_FILE"} \cup (IF Len(read) < MaxShort THEN Alphabet ELSE {}) \cup
    UNION {IF p.edits > 0 THEN Alphabet
           ELSE {p.seed[i] : i \in {p.at + 1} \cap DOMAIN p.seed} : p \in places}
=================================================================================
