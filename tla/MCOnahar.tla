------------------------------- MODULE MCOnahar -------------------------------
(* An instance of Onahar for TLC: one customer eats three meals in two     *)
(* months, another one a meal of the first month.                          *)
EXTENDS Onahar, TLC

CONSTANTS c1, c2, w1, w2, s1, s2, s3, s4, d1

Owners == [s \in {s1, s2, s3, s4} |-> IF s = s4 THEN c2 ELSE c1]
TwoMonths == [s \in {s1, s2, s3, s4} |-> IF s = s3 THEN 1 ELSE 0]
Alike == Permutations({w1, w2}) \cup Permutations({s1, s2})
=============================================================================
