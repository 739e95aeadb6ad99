-------------------------- MODULE MCSerialUseCases --------------------------
(***************************************************************************)
(* A small instance of SerialUseCases: orders are interchangeable.         *)
(***************************************************************************)
EXTENDS SerialUseCases, TLC

Symmetry == Permutations(Orders)
=============================================================================
