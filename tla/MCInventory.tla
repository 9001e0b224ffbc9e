----------------------------- MODULE MCInventory -----------------------------
(* Instances of Inventory for TLC.  Two purchases have the same items in   *)
(* opposite order, the third one item twice.                               *)
EXTENDS Inventory, TLC

CONSTANTS i1, i2, p1, p2, p3, w1, w2

Kilos(i, n, total) == [item |-> i, quantity |-> 1000 * n, unit |-> "kg", total |-> 10000 * total]

Orders ==
  p1 :> <<Kilos(i1, 1, 1), Kilos(i2, 2, 1)>>
    @@ p2 :> <<Kilos(i2, 1, 2), Kilos(i1, 2, 1)>>
    @@ p3 :> <<[item |-> i1, quantity |-> 1000, unit |-> "g", total |-> 100],
               Kilos(i1, 1, 1)>>

OneOrder == p1 :> <<Kilos(i1, 1, 1)>>

SomeEntries == {[quantity |-> -1000, unit |-> "kg"], [quantity |-> 700, unit |-> "g"]}

Alike == Permutations({w1, w2})
=============================================================================
