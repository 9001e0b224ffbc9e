------------------------------ MODULE MCKitchen ------------------------------
(* Guest meals, fees and marks of one wallet, and the kitchen that counts. *)
EXTENDS Kitchen, TLC

CONSTANTS w1, w2, s1, k1

TwoOpenings == {[recharge |-> 5, commission |-> 1, status |-> "active"],
                [recharge |-> 8, commission |-> 0, status |-> "active"]}

TwoMonths == 1..2

WorkersAlike == Permutations(Workers)
==============================================================================
