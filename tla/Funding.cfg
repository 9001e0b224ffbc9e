SPECIFICATION Spec
CONSTANTS
  MaxBalance = 4
  MaxAdminBalance = 4
  AdminKeys <- MCAdminKeys
  Customers = {c1, c2}
  TxnIds = {t1, t2, t3, t4}
  Refs = {r1, r2}
  ClientKeys = {}
  Events = {e1}
  Amounts = {1, 2}
  MinRecharge = 2
  Reserves = {0, 1}
  StaffKeys = {s1}
  NoKey = NoKey
  NoRef = NoRef
  NoCustomer = NoCustomer
  NoRequest = NoRequest
SYMMETRY Symmetry
INVARIANTS TypeOK LedgerExplainsBalance CommissionNotWithdrawable CustodyMatchesReviews
PROPERTIES FrozenOnlyReviews ImplementsCustomerFunds
CHECK_DEADLOCK FALSE
