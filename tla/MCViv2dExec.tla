------------------------------ MODULE MCViv2dExec ------------------------------
(***************************************************************************)
(* Viv2dExec for TLC.                                                      *)
(***************************************************************************)
EXTENDS Viv2dExec, TLC

\* The surfaces differ in nothing but their name.
Symmetry == Permutations(Surfaces)
===============================================================================
