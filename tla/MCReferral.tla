------------------------------ MODULE MCReferral ------------------------------
(* Instances of Referral for TLC.                                          *)
EXTENDS Referral, TLC

CONSTANTS c1, c2, w1, w2

Alike == Permutations({w1, w2})
=============================================================================
