----------------------------- MODULE MCMealStop -----------------------------
EXTENDS MealStop, TLC
CONSTANTS c1, c2, s1, s2

OneOwner == s1 :> c1 @@ s2 :> c1
OneEach == s1 :> c1 @@ s2 :> c2
OnlyOne == s1 :> c1
=============================================================================
