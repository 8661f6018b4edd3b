-------------------------- MODULE MCFunctionEmission --------------------------
(* Programs for TLC. *)
EXTENDS FunctionEmission

(* Memory, scopes and returns, inside and outside of functions and tests;  *)
(* what is skipped or throws; and what needs a block outside of functions. *)
AllKinds ==
  {{"let", "let large", "print", "assert", "return", "func", "block", "test"},
   {"let call", "if", "assert", "assert other", "return", "func", "test"},
   {"let string", "let call", "return", "func", "test"}}

TwoTestNames == {"swa_test_a", "swa_test_b"}

(* Tests beside functions. *)
TestKinds == {{"let call", "assert", "func", "test"}}

(* A function that returns what it allocates. *)
ReturnKinds == {{"let large", "return", "func"}}
===============================================================================
