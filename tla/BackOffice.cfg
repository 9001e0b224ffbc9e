SPECIFICATION OfficeSpec
CONSTANTS
  MaxBalance = 2
  MaxAdminBalance = 2
  AdminKeys <- MCAdminKeys
  Customers = {c1, c2}
  TxnIds = {t1, t2, t3}
  Refs = {r1}
  ClientKeys = {k1}
  Events = {}
  Amounts = {1}
  MinRecharge = 1
  Reserves = {0}
  StaffKeys = {s1}
  NoKey = NoKey
  NoForm = NoForm
  NoRef = NoRef
  NoCustomer = NoCustomer
  NoRequest = NoRequest
SYMMETRY Symmetry
INVARIANTS OfficeTypeOK UniqueLiveRef
PROPERTIES ReviewIsFinal
CHECK_DEADLOCK FALSE
