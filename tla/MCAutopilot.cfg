SPECIFICATION OpenSpec
CONSTANTS
  ann = ann
  mia = mia
  bob = bob
  cy = cy
  nobody = nobody
  acme = acme
  i1 = i1
  i2 = i2
  null = null
  Users <- Approvers
  RoleOf <- ApproverRoles
  NoUser = nobody
  DelegationPairs <- NoPairs
  Vendors = {acme}
  Fields <- NoFields
  Routable <- NoFields
  Values = {}
  NoValue = null
  Accounts <- NoAccount
  Statuses = {"active", "blocked"}
  Invoices <- TwoInvoices
  Amounts = {0, 100000, 300000}
  VendorOf <- AllAcme
  Policies <- DefaultPolicies
  Settings <- StrictOrLax
  EscalateTo = "manager"
PROPERTY AutopilotAsByHand
CHECK_DEADLOCK FALSE
