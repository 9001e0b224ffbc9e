SPECIFICATION Spec
CONSTANTS
  i1 = i1
  i2 = i2
  p1 = p1
  p2 = p2
  p3 = p3
  w1 = w1
  w2 = w2
  Items = {i1, i2}
  Purchases = {p1, p2, p3}
  Order <- Orders
  Workers = {w1, w2}
  NoPurchase = NoPurchase
  NoItem = NoItem
  Entries <- SomeEntries
  Float = 50000
  MaxEntries = 2
INVARIANTS TypeOK StockExplained ValueIsPaid
PROPERTY PurchasesAreFinal
SYMMETRY Alike
CHECK_DEADLOCK FALSE
