SPECIFICATION Spec
CONSTANTS
  c1 = c1
  u1 = u1
  u2 = u2
  w1 = w1
  w2 = w2
  Customers = {c1}
  Subs = {u1, u2}
  Workers = {w1, w2}
  LastDay = 1
  PerDay = 1
  Price = 1
  Minimum = 1
  MaxRequests = 1
  Owner <- OneOwner
  Periods <- OneMeal
  Month <- OneMonth
  Funds <- Purse
INVARIANTS TypeOK ChargedOnce OneSubscriptionServes
PROPERTY FinalStaysFinal
SYMMETRY Alike
