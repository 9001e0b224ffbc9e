SPECIFICATION FairSpec
CONSTANTS
  c1 = c1
  c2 = c2
  s1 = s1
  s2 = s2
  Customers = {c1, c2}
  Slots = {s1}
  Owner <- OnlyOne
  Later = {}
  Subscribers = {c1}
  Verified = {c1, c2}
  Threshold = 1
  Price = 1
  Credits = {1}
  Debits = {1}
  Hooks = {h1}
  Cron = Cron
  Free = Free
  MaxBalance = 1
  MaxCredits = 1
  MaxDebits = 1
  MaxEdits = 1
  MaxCrashes = 1
PROPERTIES FlagsConverge
CHECK_DEADLOCK FALSE
