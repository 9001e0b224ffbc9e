SPECIFICATION Spec
CONSTANTS
  i1 = i1
  i2 = i2
  p1 = p1
  p2 = p2
  p3 = p3
  w1 = w1
  w2 = w2
  Items = {i1}
  Purchases = {p1}
  Order <- OneOrder
  Workers = {w1}
  NoPurchase = NoPurchase
  NoItem = NoItem
  Entries = {}
  Float = 20000
  MaxEntries = 1
INVARIANT HandWeighsWhatCame
CHECK_DEADLOCK FALSE
