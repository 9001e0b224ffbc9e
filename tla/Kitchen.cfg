SPECIFICATION KitchenSpec
CONSTANTS
  w1 = w1
  w2 = w2
  s1 = s1
  k1 = k1
  NoKey = NoKey
  None = None
  Workers = {w1, w2}
  Slots = {s1}
  Keys = {k1}
  Quantities = {1, 2}
  UnitPrice = 1
  MealPrice = 2
  FeeAmounts = {1, 2}
  Limit = 2
  Floor = 2
  Openings <- TwoOpenings
  Months <- TwoMonths
  MaxBalance = 8
  MaxRequests = 3
  Yields = {1, 2}
  MaxEdits = 1
  MaxToggles = 2
  MaxRuns = 1
SYMMETRY WorkersAlike
INVARIANTS TypeOK PurchasesExplainWallet QuotaHolds KeysPayOnce KitchenTypeOK SnapshotsAddUp PurchasesReachKitchen
PROPERTIES PurchasesKeepFloor
CHECK_DEADLOCK FALSE
