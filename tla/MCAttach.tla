------------------------------ MODULE MCAttach ------------------------------
(* A small instance of module Attach: controllers of three units, one of   *)
(* them reserved; one device of the VM itself leaves one unit free on its  *)
(* first controller, so that two volumes race for it and need another.     *)
EXTENDS Attach

MCTaken == {<<1, 0>>}
=============================================================================
