SPECIFICATION Spec
CONSTANTS
  c1 = c1
  c2 = c2
  w1 = w1
  w2 = w2
  Nobody = Nobody
  NoSlot = NoSlot
  Customers = {c1, c2}
  Members = {c1}
  Meals = {1, 2}
  Workers = {w1, w2}
  Price = 1
  Rates = {0, 1}
  Funds = 2
  Float = 1
  Recharge = 1
  MaxSwitches = 1
  MaxBalance = 3
INVARIANTS TypeOK CommissionsExplainMoney PaidWhenBothAte
PROPERTIES DecisionsStand ChargedMealsAreMarked
SYMMETRY Alike
CHECK_DEADLOCK FALSE
