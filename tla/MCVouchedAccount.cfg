SPECIFICATION BankSpec
CONSTANTS
  ann = ann
  cy = cy
  dan = dan
  nobody = nobody
  acme = acme
  i1 = i1
  i2 = i2
  null = null
  old = old
  new = new
  other = other
  Users <- Admins
  RoleOf <- AllAdmin
  NoUser = nobody
  DelegationPairs <- NoPairs
  Vendors = {acme}
  Fields = {"iban", "bank_name"}
  Routable <- RoutableFields
  Values = {old, new, other}
  NoValue = null
  Accounts <- FirstAccount
  Statuses = {"active"}
  MaxChanges = 2
  Proposals <- TwoProposals
  Invoices <- TwoInvoices
  Amounts = {1}
  VendorOf <- AllAcme
  MaxRuns = 2
  MaxLines = 1
INVARIANT NewAccountVouchedFor
SYMMETRY Symmetry
CHECK_DEADLOCK FALSE
