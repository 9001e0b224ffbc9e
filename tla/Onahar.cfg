SPECIFICATION Spec
CONSTANTS
  c1 = c1
  c2 = c2
  w1 = w1
  w2 = w2
  s1 = s1
  s2 = s2
  s3 = s3
  s4 = s4
  d1 = d1
  NoSlot = NoSlot
  Customers = {c1, c2}
  Slots = {s1, s2, s3, s4}
  Owner <- Owners
  MonthOf <- TwoMonths
  LastMonth = 1
  Workers = {w1, w2}
  Targets = {1, 2}
  Distributions = {d1}
  Portions = {1, 2}
  MaxCrashes = 1
INVARIANTS TypeOK PointsAreMeals FundExplained TargetsDonated
PROPERTY ClosedMonthsStay
SYMMETRY Alike
CHECK_DEADLOCK FALSE
