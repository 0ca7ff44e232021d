SPECIFICATION OverlapsSpec
CONSTANTS
  ann = ann
  bob = bob
  cy = cy
  nobody = nobody
  s1 = s1
  s2 = s2
  r1 = r1
  r2 = r2
  i1 = i1
  i2 = i2
  desk = desk
  p1 = p1
  p2 = p2
  l1 = l1
  l2 = l2
  l3 = l3
  june = june
  july = july
  nop = nop
  Sessions = {s1, s2}
  Runs = {r1, r2}
  Invoices = {i1, i2}
  Listed <- Overlapping
  Ops <- Payable
  Desk = desk
  Cells = {"bay", "shelf"}
  Requests = {"receipt", "putaway", "adjust"}
  Moves <- TwoWays
  Workers = {s1, s2}
  Documents = {"adjust"}
  Receipts = {"receipt"}
  MaxCommits = 2
  Users <- Treasury
  RoleOf <- TreasuryRoles
  NoUser = nobody
  Payments = {p1, p2}
  Statements = {june, july}
  Lines = {l1, l2, l3}
  Debits = {l1, l2}
  On <- Statement
  Signal <- Signals
  Matchers = {s1, s2}
  NoPayment = nop
  Writers = {s1}
  MaxStamps = 5
  Messages = {1, 2, 3}
  Unbuildable = {2}
  Dispatchers = {s1, s2}
  MaxAttempts = 2
  Limit = 1
  MaxMishaps = 1
  Records = {1, 2}
  Drains = {s1}
  MaxTries = 2
  MaxFaults = 3
  Watched = {1}
  Sweeps = {s1}
  MaxEntries = 3
  MaxDeaths = 1
INVARIANT NothingDropped
CHECK_DEADLOCK FALSE
