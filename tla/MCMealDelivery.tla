---------------------------- MODULE MCMealDelivery ----------------------------
(* Instances of MealDelivery for TLC.                                      *)
EXTENDS MealDelivery, TLC

CONSTANTS c1, u1, u2, w1, w2

OneOwner == [u \in {u1, u2} |-> c1]
OneMeal == [u \in {u1, u2} |-> {0}]
Alike == Permutations({u1, u2}) \cup Permutations({w1, w2})
OneMonth == [d \in 0..1 |-> 0]
Purse == [c \in {c1} |-> 2]
=============================================================================
