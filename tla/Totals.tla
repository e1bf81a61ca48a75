------------------------------- MODULE Totals -------------------------------
(***************************************************************************)
(* SQL's SUM: the total of a function over a finite set of its domain.      *)
(***************************************************************************)
EXTENDS Integers, Functions

Total(f, S) == FoldFunctionOnSet(+, 0, f, S)
=============================================================================
