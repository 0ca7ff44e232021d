SPECIFICATION OpenSpec
CONSTANTS
  ann = ann
  cy = cy
  dan = dan
  nobody = nobody
  acme = acme
  i1 = i1
  i2 = i2
  null = null
  old = old
  new = new
  other = other
  Users <- Pair
  RoleOf <- ClerkAndAdmin
  NoUser = nobody
  DelegationPairs <- ClerkStandsIn
  Vendors = {acme}
  Fields = {"iban", "bank_name"}
  Routable <- RoutableFields
  Values = {old, new, other}
  NoValue = null
  Accounts <- FirstAccount
  Statuses = {"active", "blocked"}
  MaxChanges = 0
  Proposals <- NewIban
  Invoices <- TwoInvoices
  Amounts = {1, 2}
  VendorOf <- AllAcme
  MaxRuns = 2
  MaxLines = 2
INVARIANTS SettledOnce PaidAsApproved
PROPERTY SettlementSpec
CHECK_DEADLOCK FALSE
