-------------------------------- MODULE Sums --------------------------------
(***************************************************************************)
(* Sums over finite sets: what the elements of ids are worth together.     *)
(***************************************************************************)
EXTENDS Integers, FiniteSets, Functions

SumOver(f, ids) == FoldFunctionOnSet(+, 0, f, ids)
=============================================================================
