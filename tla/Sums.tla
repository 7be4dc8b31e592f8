---------------------------------- MODULE Sums ---------------------------------
(***************************************************************************)
(* Sums of the values of a function, as the loops of the code accumulate   *)
(* them.                                                                   *)
(***************************************************************************)
EXTENDS Integers, FiniteSetsExt

SumOver(f, S) == MapThenSumSet(LAMBDA x : f[x], S)

===============================================================================
