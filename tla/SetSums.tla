------------------------------ MODULE SetSums -------------------------------
(***************************************************************************)
(* Sums of a function over a finite set, the Sum(...) aggregates and       *)
(* sum(...) calls of the code.                                             *)
(***************************************************************************)
EXTENDS Integers, FiniteSetsExt

SumOf(f, S) == MapThenSumSet(LAMBDA x : f[x], S)
=============================================================================
