SPECIFICATION Spec
CONSTANTS
  ann = ann
  cy = cy
  dan = dan
  nobody = nobody
  acme = acme
  i1 = i1
  i2 = i2
  null = null
  old = old
  new = new
  other = other
  Users <- Pair
  RoleOf <- ClerkAndAdmin
  NoUser = nobody
  DelegationPairs <- ClerkStandsIn
  Vendors = {acme}
  Fields = {"iban", "bank_name"}
  Routable <- RoutableFields
  Values = {old, new, other}
  NoValue = null
  Accounts <- FirstAccount
  Statuses = {"active", "blocked"}
  MaxChanges = 1
  Proposals <- NewIban
  Invoices = {i1}
  Amounts = {1}
  VendorOf <- AllAcme
  MaxRuns = 2
  MaxLines = 1
INVARIANT BilledVendorsOnFile
CHECK_DEADLOCK FALSE
