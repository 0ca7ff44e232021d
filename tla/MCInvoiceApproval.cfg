SPECIFICATION OpenSpec
CONSTANTS
  ann = ann
  mia = mia
  bob = bob
  cy = cy
  nobody = nobody
  acme = acme
  i1 = i1
  i2 = i2
  null = null
  Users <- Desk
  RoleOf <- DeskRoles
  NoUser = nobody
  DelegationPairs <- AdminLendsClerk
  Vendors = {acme}
  Fields <- NoFields
  Routable <- NoFields
  Values = {}
  NoValue = null
  Accounts <- NoAccount
  Statuses = {"active", "blocked"}
  Invoices <- TwoInvoices
  Amounts = {0, 100000, 300000}
  VendorOf <- AllAcme
  Policies <- CfoPolicy
  Settings <- StrictOrLax
  EscalateTo = "manager"
INVARIANTS InvoiceWorkShown MakerChecker DuplicatesReviewed
CHECK_DEADLOCK FALSE
