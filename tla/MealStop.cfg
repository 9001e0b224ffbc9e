SPECIFICATION Spec
CONSTANTS
  c1 = c1
  c2 = c2
  s1 = s1
  s2 = s2
  Customers = {c1}
  Slots = {s1, s2}
  Owner <- OneOwner
  Later = {s2}
  Subscribers = {c1}
  Verified = {c1}
  Threshold = 2
  Price = 1
  Credits = {1, 2}
  Debits = {1}
  Hooks = {h1}
  Cron = Cron
  Free = Free
  MaxBalance = 3
  MaxCredits = 2
  MaxDebits = 1
  MaxEdits = 1
  MaxCrashes = 1
INVARIANTS TypeOK
PROPERTIES LockedStepsStopTheLow MarkedOnce NoLateMeals
CHECK_DEADLOCK FALSE
