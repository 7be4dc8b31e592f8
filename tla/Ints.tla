---------------------------------- MODULE Ints ---------------------------------
(***************************************************************************)
(* The width of an int, which the file format, the graph and the solvers   *)
(* share.                                                                  *)
(***************************************************************************)
EXTENDS Integers

CONSTANT IntMax \* INT_MAX

ASSUME IntAssumption == IntMax \in Nat \ {0}

===============================================================================
